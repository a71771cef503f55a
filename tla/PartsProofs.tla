----------------------------- MODULE PartsProofs ----------------------------
(***************************************************************************)
(* Proofs about the parts of Services that the event loop only uses: the   *)
(* cache, the sessions and the password of the admin panel, the scheduler, *)
(* the event stream with its log.                                          *)
(*                                                                         *)
(* Each part has an inductive invariant of its own.  What the other parts  *)
(* do leaves its variables alone, which one lemma for each part says; the  *)
(* parts meet in the clock, and in a request to the panel that stops the   *)
(* scheduler.                                                              *)
(***************************************************************************)
EXTENDS Services, FiniteSetTheorems, TLAPS

-----------------------------------------------------------------------------
(* The cache. *)

\* What a Get has read of a key is what the key was promised last, unless the
\* key was set in between; it deletes only what it saw expire.
GettersInv ==
    \A g \in Getters : getters[g] # Never =>
        /\ getters[g].key \in overtaken
             \/ promised[getters[g].key] \in {getters[g].deadline, Never}
        /\ getters[g].pc = "delete" => Expired(getters[g].deadline)

\* No entry has a deadline that it was not given last.
EntriesInv == \A k \in Keys : cache[k] # Never => cache[k] = promised[k]

CacheInv ==
    /\ CacheTypeOK
    /\ clock \in Nat
    /\ GettersInv
    /\ EntriesInv
    /\ FreshSurvives

-----------------------------------------------------------------------------
(* The admin panel. *)

\* Where a request is says what it is.
RequestInv ==
    \A r \in Requests :
        /\ InStep(r, "none") => requests[r] = NoRequest
        /\ requests[r].pc \in {"set", "flag", "verify", "create"}
             => requests[r].kind = "login"
        /\ requests[r].pc \in {"look", "forget", "serve"}
             => requests[r].kind \in Pages
        /\ requests[r].kind = "login" /\ requests[r].pc # "done"
             => requests[r].expiry = Never
        /\ requests[r].kind # "login" => requests[r].token \in HandedOut

\* A session was handed out with the expiry it has; one that was left is gone.
TokensInv ==
    /\ \A t \in Requests : sessions[t] # Never =>
         t \in HandedOut /\ sessions[t] = requests[t].expiry
    /\ over \subseteq HandedOut
    /\ \A t \in over : sessions[t] = Never

\* A session that had ended when the request came is still recognised as such.
LateInv ==
    \A r \in Requests : requests[r].late =>
        /\ requests[r].kind # "login"
        /\ InStep(r, "new") => Ended(requests[r].token)
        /\ InStep(r, "look") =>
             requests[r].expiry # Never /\ Expired(requests[r].expiry)
        /\ ~ InStep(r, "serve")

PanelInv ==
    /\ PanelTypeOK
    /\ clock \in Nat
    /\ RequestInv
    /\ TokensInv
    /\ LateInv

\* One login at a time sets a password, and only while there is none.
PasswordInv ==
    misread \/ overlapped \/
        /\ \A r, q \in Requests :
             {requests[r].pc, requests[q].pc} \subseteq {"set", "flag"} => r = q
        /\ \A r \in Requests :
             InStep(r, "set") => password = NoPassword /\ ~ passwordSet
        /\ password # NoPassword =>
             passwordSet \/ \E r \in Requests : InStep(r, "flag")

-----------------------------------------------------------------------------
(* The scheduler. *)

\* Whoever may stop the scheduler finds it started, and once the library was
\* told it starts nothing.
StoppedInv ==
    /\ \A r \in Requests : ~ InStep(r, "none") => cron # "none"
    /\ \A c \in Callers :
         /\ stopping[c] # "idle" => cron # "none"
         /\ stopping[c] \in {"holds", "stopped"} => cron = "stopped"
    /\ \A c \in Callers : QuietAfter(c)

-----------------------------------------------------------------------------
(* The clients of the event stream. *)

ClientsSeen == {c \in Clients : clients[c].pc # "none"}

\* A client that has come has an id, and whoever sends has the map as it is.
MapInv ==
    /\ instant <= Cardinality(ClientsSeen)
    /\ \A c \in Clients :
         /\ clients[c].pc = "none" => clients[c].id = 0
         /\ Connected(c) => clients[c].id \in 1 .. instant
    /\ \A t \in Tellers :
         telling[t].pc = "sends" => \A i \in telling[t].left : registered[i] # Nobody
    /\ MapIsExact

-----------------------------------------------------------------------------
(* The log. *)

Writing == {w \in Writers : writers[w] # Nobody}
Unnumbered == {w \in Writing : writers[w].id = 0}
Numbered == {w \in Writing : writers[w].id # 0}

\* The ids that the table gave, and the times that writers took.
NumbersInv ==
    /\ IsFiniteSet(Unnumbered)
    /\ lastId + Cardinality(Unnumbered) <= stamps
    /\ \A r \in logs : r.id \in 1 .. lastId /\ r.at <= stamps
    /\ \A w \in Writing : writers[w].id <= lastId /\ writers[w].at <= stamps
    /\ \A v, w \in Numbered : writers[v].id = writers[w].id => v = w
    /\ logs # {} => \E r \in logs : \A q \in logs : q.at <= r.at

\* Without a late commit what is to come is after all that can be seen, or
\* has been shown.
NothingLateInv ==
    "lateCommit" \notin faults =>
        \A w \in Numbered :
            /\ \A r \in logs : r.id < writers[w].id
            /\ \A c \in Clients : clients[c].cursor < writers[w].id

\* Rows that are written one after the other have their ids in the order of
\* their times.
OneWriterInv ==
    "overlap" \notin faults =>
        /\ \A v, w \in Writing : v = w
        /\ \A w \in Writing :
             /\ writers[w].at = stamps
             /\ \A r \in logs : r.at < stamps
        /\ \A w \in Numbered : writers[w].id = lastId /\ \A r \in logs : r.id < lastId
        /\ \A r, q \in logs : q.at <= r.at => q.id <= r.id

\* What a client was shown is between its first cursor and its last.
CursorInv ==
    \A c \in Clients :
        LET k == clients[c] IN
        /\ k.pc \in {"none", "opening"} =>
             k.first = 0 /\ k.cursor = 0 /\ k.pushed = <<>> /\ k.old = {}
        /\ k.first <= k.cursor /\ k.cursor <= lastId
        /\ \A i \in ToSet(k.pushed) : k.first < i /\ i <= k.cursor
        /\ faults \cap {"readError", "overlap"} = {} =>
             \A i \in k.old : i <= k.first

LogInv ==
    /\ NumbersInv
    /\ NothingLateInv
    /\ OneWriterInv
    /\ CursorInv
    /\ LogsShown

-----------------------------------------------------------------------------
(* Steps of the cache. *)

CacheNext == CacheStep \/ (ClockTicks /\ UNCHANGED cacheVars)

(* What is no step of the cache or of the clock leaves both alone. *)
LEMMA CacheFrame ==
    ASSUME [Next]_vars
    PROVE  CacheNext \/ UNCHANGED <<cacheVars, clock>>
<1>1. CASE UNCHANGED vars
  BY <1>1 DEF vars
<1>2. CASE LoopStep
  <2>1. UNCHANGED OtherThanLoop
    BY <1>2 DEF LoopStep, HandlerStep, TakeMessage, TakeGuildEvent, Route,
      RunCommand, Listen, Return, Hang, Abandon
  <2>2. QED
    BY <2>1 DEF OtherThanLoop
<1>3. CASE Edit
  BY <1>3 DEF Edit
<1>4. CASE Stream \/ \E t \in Tellers : Publish(t)
  BY <1>4 DEF Stream, Publish, OtherThanLoop
<1>5. CASE Schedule \/ Serve \/ Restart \/ Session
  BY <1>5 DEF Schedule, Serve, Restart, Session, OtherThanSchedule
<1>6. CASE Cache \/ Time
  <2>1. CacheStep \/ (ClockTicks /\ UNCHANGED cacheVars)
    BY <1>6 DEF Cache, Time
  <2>2. QED
    BY <2>1 DEF CacheNext
<1>7. CASE Shutdown
  BY <1>7 DEF Shutdown, Signal, StopScheduler, StopSession, Cancel,
    CloseServices, OtherThanSchedule
<1>8. QED
  BY <1>1, <1>2, <1>3, <1>4, <1>5, <1>6, <1>7 DEF Next

LEMMA CacheInitInv == Init => CacheInv
<1> SUFFICES ASSUME Init
             PROVE  CacheInv
  OBVIOUS
<1>1. CacheInit /\ clock = 0
  BY DEF Init
<1>2. CacheTypeOK /\ clock \in Nat
  BY <1>1, CacheAssumption DEF CacheInit, CacheTypeOK
<1>3. GettersInv /\ EntriesInv /\ FreshSurvives
  BY <1>1 DEF CacheInit, GettersInv, EntriesInv, FreshSurvives
<1>4. QED
  BY <1>2, <1>3 DEF CacheInv

(* Each step of the cache keeps its types. *)
LEMMA CacheTypeStep ==
    ASSUME CacheTypeOK, clock \in Nat, CacheNext
    PROVE  CacheTypeOK' /\ clock' \in Nat
<1> USE CacheAssumption, ClockAssumption DEF CacheTypeOK, Deadline
<1>1. CASE ClockTicks /\ UNCHANGED cacheVars
  BY <1>1 DEF ClockTicks, cacheVars
<1>2. ASSUME NEW k \in Keys, NEW ttl \in Lifetimes, Set(k, ttl)
      PROVE  CacheTypeOK' /\ clock' \in Nat
  <2>1. clock + ttl \in Nat
    OBVIOUS
  <2>2. QED
    BY <1>2, <2>1 DEF Set
<1>3. ASSUME NEW keys, Discard(keys)
      PROVE  CacheTypeOK' /\ clock' \in Nat
  BY <1>3 DEF Discard
<1>4. CASE CleanUp
  BY <1>4 DEF CleanUp
<1>5. ASSUME NEW g \in Getters, GetRead(g)
      PROVE  CacheTypeOK' /\ clock' \in Nat
  <2>1. PICK k \in Keys :
          /\ cache[k] # Never
          /\ getters' = [getters EXCEPT ![g] =
                [key |-> k, deadline |-> cache[k], pc |-> "look"]]
    BY <1>5 DEF GetRead
  <2>2. [key |-> k, deadline |-> cache[k], pc |-> "look"] \in Getter
    BY <2>1 DEF Getter
  <2>3. QED
    BY <1>5, <2>1, <2>2 DEF GetRead
<1>6. ASSUME NEW g \in Getters, GetLook(g)
      PROVE  CacheTypeOK' /\ clock' \in Nat
  <2>1. getters[g] \in Getter
    BY <1>6 DEF GetLook
  <2>2. [getters[g] EXCEPT !.pc = "delete"] \in Getter
    BY <2>1 DEF Getter
  <2>3. QED
    BY <1>6, <2>2 DEF GetLook
<1>7. ASSUME NEW g \in Getters, GetDelete(g)
      PROVE  CacheTypeOK' /\ clock' \in Nat
  BY <1>7 DEF GetDelete
<1>8. QED
  BY <1>1, <1>2, <1>3, <1>4, <1>5, <1>6, <1>7 DEF CacheNext, CacheStep

(* An entry of Set or of SetWithTTL is the one its key is promised. *)
LEMMA SetKeeps ==
    ASSUME CacheInv, NEW k \in Keys, NEW ttl \in Lifetimes, Set(k, ttl)
    PROVE  GettersInv' /\ EntriesInv' /\ FreshSurvives'
<1> DEFINE deadline == clock + ttl
<1>1. /\ cache' = [cache EXCEPT ![k] = deadline]
      /\ promised' = [promised EXCEPT ![k] = deadline]
      /\ overtaken' = IF Pending(k) THEN overtaken \cup {k} ELSE overtaken \ {k}
      /\ getters' = getters /\ clock' = clock
  BY DEF Set
<1> HIDE DEF deadline
<1>2. CacheTypeOK /\ GettersInv /\ EntriesInv /\ FreshSurvives
  BY DEF CacheInv
<1>3. \A g \in Getters : getters[g] # Never => getters[g].key \in Keys
  BY <1>2 DEF CacheTypeOK, Getter
<1>4. GettersInv'
  <2> SUFFICES ASSUME NEW g \in Getters, getters[g] # Never
               PROVE  /\ getters[g].key \in overtaken'
                           \/ promised'[getters[g].key]
                                \in {getters[g].deadline, Never}
                      /\ getters[g].pc = "delete" => Expired(getters[g].deadline)
    BY <1>1 DEF GettersInv, Expired
  <2>1. CASE getters[g].key = k
    BY <1>1, <1>2, <2>1 DEF GettersInv, Pending
  <2>2. CASE getters[g].key # k
    BY <1>1, <1>2, <1>3, <2>2 DEF GettersInv, CacheTypeOK
  <2>3. QED
    BY <2>1, <2>2
<1>5. EntriesInv'
  BY <1>1, <1>2 DEF EntriesInv, CacheTypeOK
<1>6. FreshSurvives'
  <2> SUFFICES ASSUME NEW x \in Keys \ overtaken',
                      promised'[x] # Never, ~ (clock' > promised'[x])
               PROVE  cache'[x] = promised'[x]
    BY DEF FreshSurvives, Expired
  <2>1. CASE x = k
    BY <1>1, <1>2, <2>1 DEF CacheTypeOK
  <2>2. CASE x # k
    <3>1. promised'[x] = promised[x] /\ cache'[x] = cache[x] /\ x \notin overtaken
      BY <1>1, <1>2, <2>2 DEF CacheTypeOK
    <3>2. QED
      BY <1>1, <1>2, <3>1 DEF FreshSurvives, Expired
  <2>3. QED
    BY <2>1, <2>2
<1>7. QED
  BY <1>4, <1>5, <1>6

(* Neither Delete, Clear nor the clean-up removes what is fresh. *)
LEMMA RemovalKeeps ==
    ASSUME CacheInv, CleanUp \/ \E keys : Discard(keys)
    PROVE  GettersInv' /\ EntriesInv' /\ FreshSurvives'
<1>1. CacheTypeOK /\ GettersInv /\ EntriesInv /\ FreshSurvives
  BY DEF CacheInv
<1>2. \A g \in Getters : getters[g] # Never => getters[g].key \in Keys
  BY <1>1 DEF CacheTypeOK, Getter
<1>3. CASE CleanUp
  <2>1. /\ getters' = getters /\ promised' = promised /\ overtaken' = overtaken
        /\ clock' = clock
        /\ \A k \in Keys : cache'[k] =
             IF cache[k] # Never /\ Expired(cache[k]) THEN Never ELSE cache[k]
    BY <1>3 DEF CleanUp
  <2>2. QED
    BY <1>1, <2>1 DEF GettersInv, EntriesInv, FreshSurvives, Expired
<1>4. ASSUME NEW keys, Discard(keys)
      PROVE  GettersInv' /\ EntriesInv' /\ FreshSurvives'
  <2>1. /\ getters' = getters /\ overtaken' = overtaken /\ clock' = clock
        /\ \A k \in Keys : cache'[k] = IF k \in keys THEN Never ELSE cache[k]
        /\ \A k \in Keys : promised'[k] = IF k \in keys THEN Never ELSE promised[k]
    BY <1>4 DEF Discard
  <2>2. GettersInv'
    BY <1>1, <1>2, <2>1 DEF GettersInv, Expired
  <2>3. EntriesInv' /\ FreshSurvives'
    BY <1>1, <2>1 DEF EntriesInv, FreshSurvives, Expired
  <2>4. QED
    BY <2>2, <2>3
<1>5. QED
  BY <1>3, <1>4

(* A Get that deletes takes away an entry that has expired, or one of a key *)
(* that was set in between. *)
LEMMA GetKeeps ==
    ASSUME CacheInv, NEW g \in Getters, GetRead(g) \/ GetLook(g) \/ GetDelete(g)
    PROVE  GettersInv' /\ EntriesInv' /\ FreshSurvives'
<1>1. CacheTypeOK /\ GettersInv /\ EntriesInv /\ FreshSurvives
  BY DEF CacheInv
<1>2. getters \in [Getters -> Getter \cup {Never}]
  BY <1>1 DEF CacheTypeOK
<1>3. promised' = promised /\ overtaken' = overtaken /\ clock' = clock
  BY DEF GetRead, GetLook, GetDelete
<1>4. CASE GetRead(g)
  <2>1. PICK k \in Keys :
          /\ cache[k] # Never
          /\ getters' = [getters EXCEPT ![g] =
                [key |-> k, deadline |-> cache[k], pc |-> "look"]]
    BY <1>4 DEF GetRead
  <2>2. cache' = cache
    BY <1>4 DEF GetRead
  <2>3. promised[k] = cache[k]
    BY <1>1, <2>1 DEF EntriesInv
  <2>4. QED
    BY <1>1, <1>2, <1>3, <2>1, <2>2, <2>3
      DEF GettersInv, EntriesInv, FreshSurvives, Expired
<1>5. CASE GetLook(g)
  <2>1. getters[g] \in Getter /\ cache' = cache
    BY <1>2, <1>5 DEF GetLook
  <2>2. getters' = [getters EXCEPT ![g] =
          IF Expired(@.deadline) THEN [@ EXCEPT !.pc = "delete"] ELSE Never]
    BY <1>5 DEF GetLook
  <2>3. /\ [getters[g] EXCEPT !.pc = "delete"].key = getters[g].key
        /\ [getters[g] EXCEPT !.pc = "delete"].deadline = getters[g].deadline
    BY <2>1 DEF Getter
  <2>4. GettersInv'
    BY <1>1, <1>2, <1>3, <1>5, <2>2, <2>3 DEF GettersInv, Expired, GetLook
  <2>5. QED
    BY <1>1, <1>3, <2>1, <2>4 DEF EntriesInv, FreshSurvives, Expired
<1>6. CASE GetDelete(g)
  <2> DEFINE k == getters[g].key
  <2>1. /\ getters[g] # Never /\ getters[g].pc = "delete"
        /\ cache' = [cache EXCEPT ![k] = Never]
        /\ getters' = [getters EXCEPT ![g] = Never]
    BY <1>6 DEF GetDelete
  <2>2. Expired(getters[g].deadline)
        /\ (k \in overtaken \/ promised[k] \in {getters[g].deadline, Never})
    BY <1>1, <2>1 DEF GettersInv
  <2> HIDE DEF k
  <2>3. GettersInv'
    BY <1>1, <1>2, <1>3, <2>1 DEF GettersInv, Expired
  <2>4. EntriesInv'
    BY <1>1, <1>3, <2>1 DEF EntriesInv, CacheTypeOK
  <2>5. FreshSurvives'
    BY <1>1, <1>3, <2>1, <2>2 DEF FreshSurvives, CacheTypeOK, Expired
  <2>6. QED
    BY <2>3, <2>4, <2>5
<1>7. QED
  BY <1>4, <1>5, <1>6

(* What has expired stays so. *)
LEMMA TimeKeeps ==
    ASSUME CacheInv, ClockTicks, UNCHANGED cacheVars
    PROVE  GettersInv' /\ EntriesInv' /\ FreshSurvives'
<1>1. CacheTypeOK /\ GettersInv /\ EntriesInv /\ FreshSurvives /\ clock \in Nat
  BY DEF CacheInv
<1>2. /\ getters' = getters /\ promised' = promised /\ overtaken' = overtaken
      /\ cache' = cache /\ clock' = clock + 1
  BY DEF ClockTicks, cacheVars
<1>3. \A d \in Nat : clock > d => clock' > d
  BY <1>1, <1>2
<1>4. \A g \in Getters : getters[g] # Never => getters[g].deadline \in Nat
  BY <1>1 DEF CacheTypeOK, Getter, Deadline
<1>5. \A k \in Keys : promised[k] # Never => promised[k] \in Nat
  BY <1>1 DEF CacheTypeOK, Deadline
<1>6. GettersInv'
  BY <1>1, <1>2, <1>3, <1>4 DEF GettersInv, Expired
<1>7. EntriesInv' /\ FreshSurvives'
  BY <1>1, <1>2, <1>3, <1>5 DEF EntriesInv, FreshSurvives, Expired
<1>8. QED
  BY <1>6, <1>7

LEMMA CacheInvStep ==
    ASSUME CacheInv, [Next]_vars
    PROVE  CacheInv'
<1>1. CASE CacheNext
  <2>1. CacheTypeOK' /\ clock' \in Nat
    BY <1>1, CacheTypeStep DEF CacheInv
  <2>2. GettersInv' /\ EntriesInv' /\ FreshSurvives'
    BY <1>1, SetKeeps, RemovalKeeps, GetKeeps, TimeKeeps DEF CacheNext, CacheStep
  <2>3. QED
    BY <2>1, <2>2 DEF CacheInv
<1>2. CASE UNCHANGED <<cacheVars, clock>>
  BY <1>2 DEF CacheInv, cacheVars, CacheTypeOK, GettersInv, EntriesInv,
    FreshSurvives, Expired
<1>3. QED
  BY <1>1, <1>2, CacheFrame

LEMMA CacheInvHolds == Spec => []CacheInv
<1>1. Init => CacheInv
  BY CacheInitInv
<1>2. CacheInv /\ [Next]_vars => CacheInv'
  BY CacheInvStep
<1>3. QED
  BY <1>1, <1>2, PTL DEF Spec

(* A value that was set stays in the cache until its deadline, unless a Get *)
(* that read an older one deletes it: no clean-up and no other Get does.    *)
THEOREM FreshIsKept == Spec => []FreshSurvives
<1>1. CacheInv => FreshSurvives
  BY DEF CacheInv
<1>2. QED
  BY <1>1, CacheInvHolds, PTL

-----------------------------------------------------------------------------
(* Steps of the admin panel. *)

PanelNext ==
    \/ \E r \in Requests :
         Arrive(r) \/ RequestStep(r, faults) \/ \E page \in Pages : ServePage(r, page)
    \/ PanelRestarts(faults)
    \/ ClockTicks /\ UNCHANGED panelVars

(* What is no step of the panel or of the clock leaves both alone. *)
LEMMA PanelFrame ==
    ASSUME [Next]_vars
    PROVE  PanelNext \/ UNCHANGED <<panelVars, clock>>
<1>1. CASE UNCHANGED vars
  BY <1>1 DEF vars
<1>2. CASE LoopStep
  <2>1. UNCHANGED OtherThanLoop
    BY <1>2 DEF LoopStep, HandlerStep, TakeMessage, TakeGuildEvent, Route,
      RunCommand, Listen, Return, Hang, Abandon
  <2>2. QED
    BY <2>1 DEF OtherThanLoop
<1>3. CASE Edit
  BY <1>3 DEF Edit
<1>4. CASE Stream \/ \E t \in Tellers : Publish(t)
  BY <1>4 DEF Stream, Publish, OtherThanLoop
<1>5. CASE Schedule \/ Session
  BY <1>5 DEF Schedule, Session, OtherThanSchedule
<1>6. CASE Serve
  <2>1. PICK r \in RequestsHere :
          Arrive(r) \/ RequestStep(r, faults) \/ \E page \in Pages : ServePage(r, page)
    BY <1>6 DEF Serve, Pages
  <2>2. r \in Requests
    BY DEF RequestsHere
  <2>3. QED
    BY <2>1, <2>2 DEF PanelNext
<1>7. CASE Restart
  BY <1>7 DEF Restart, PanelNext
<1>8. CASE Cache
  <2>1. UNCHANGED clock
    BY <1>8 DEF Cache, CacheStep, Set, Discard, CleanUp, GetRead, GetLook, GetDelete
  <2>2. QED
    BY <1>8, <2>1 DEF Cache
<1>9. CASE Time
  BY <1>9 DEF Time, PanelNext
<1>10. CASE Shutdown
  BY <1>10 DEF Shutdown, Signal, StopScheduler, StopSession, Cancel,
    CloseServices, OtherThanSchedule
<1>11. QED
  BY <1>1, <1>2, <1>3, <1>4, <1>5, <1>6, <1>7, <1>8, <1>9, <1>10 DEF Next

Places == {"none", "new", "set", "flag", "verify", "create",
           "look", "forget", "serve", "done"}

LEMMA NoRequestType == NoRequest \in Request
BY DEF NoRequest, Request

(* A request that goes on to its next step keeps the rest. *)
LEMMA GoToFacts ==
    ASSUME PanelTypeOK, NEW r \in Requests, NEW pc \in Places, GoTo(r, pc)
    PROVE  /\ requests' \in [Requests -> Request]
           /\ requests'[r].pc = pc
           /\ \A q \in Requests :
                /\ q # r => requests'[q] = requests[q]
                /\ requests'[q].kind = requests[q].kind
                /\ requests'[q].password = requests[q].password
                /\ requests'[q].token = requests[q].token
                /\ requests'[q].expiry = requests[q].expiry
                /\ requests'[q].late = requests[q].late
           /\ HandedOut' = HandedOut
<1>1. requests \in [Requests -> Request]
  BY DEF PanelTypeOK
<1> DEFINE q == [requests[r] EXCEPT !.pc = pc]
<1>2. /\ q \in Request
      /\ q.pc = pc /\ q.kind = requests[r].kind
      /\ q.password = requests[r].password /\ q.token = requests[r].token
      /\ q.expiry = requests[r].expiry /\ q.late = requests[r].late
  BY <1>1 DEF Request, Places
<1>3. requests' = [requests EXCEPT ![r] = q]
  BY <1>1 DEF GoTo
<1> HIDE DEF q
<1>4. QED
  BY <1>1, <1>2, <1>3 DEF HandedOut

LEMMA PanelInitInv == Init => PanelInv /\ PasswordInv
<1> SUFFICES ASSUME Init
             PROVE  PanelInv /\ PasswordInv
  OBVIOUS
<1>1. PanelInit /\ clock = 0
  BY DEF Init
<1>2. PanelTypeOK
  BY <1>1, NoRequestType DEF PanelInit, PanelTypeOK
<1>3. \A r \in Requests : requests[r] = NoRequest /\ sessions[r] = Never
  BY <1>1 DEF PanelInit
<1>4. RequestInv /\ LateInv
  <2>1. \A r \in Requests :
          /\ requests[r].pc = "none" /\ requests[r].kind = "login"
          /\ requests[r].expiry = Never /\ requests[r].late = FALSE
    BY <1>3 DEF NoRequest
  <2>2. RequestInv
    BY <1>3, <2>1 DEF RequestInv, InStep
  <2>3. LateInv
    BY <2>1 DEF LateInv
  <2>4. QED
    BY <2>2, <2>3
<1>5. TokensInv
  BY <1>1, <1>3 DEF PanelInit, TokensInv
<1>6. PasswordInv
  <2>1. \A r \in Requests : requests[r].pc = "none"
    BY <1>3 DEF NoRequest
  <2>2. password # NoPassword => passwordSet
    BY <1>1 DEF PanelInit
  <2>3. QED
    BY <2>1, <2>2 DEF PasswordInv, InStep
<1>7. QED
  BY <1>1, <1>2, <1>4, <1>5, <1>6 DEF PanelInv

(* What a step must heed that only moves a request on. *)
LEMMA MovingOn ==
    ASSUME PanelInv, NEW r \in Requests, NEW pc \in Places \ {"none", "new"},
           GoTo(r, pc), sessions' = sessions, over' = over, clock' = clock,
           pc \in {"set", "flag", "verify", "create"} =>
             requests[r].kind = "login" /\ requests[r].expiry = Never,
           pc \in {"look", "forget", "serve"} => requests[r].kind \in Pages,
           requests[r].late => pc \notin {"look", "serve"}
    PROVE  RequestInv' /\ TokensInv' /\ LateInv'
<1>1. PanelTypeOK /\ RequestInv /\ TokensInv /\ LateInv
  BY DEF PanelInv
<1>2. /\ requests' \in [Requests -> Request]
      /\ requests'[r].pc = pc
      /\ \A q \in Requests :
           /\ q # r => requests'[q] = requests[q]
           /\ requests'[q].kind = requests[q].kind
           /\ requests'[q].password = requests[q].password
           /\ requests'[q].token = requests[q].token
           /\ requests'[q].expiry = requests[q].expiry
           /\ requests'[q].late = requests[q].late
      /\ HandedOut' = HandedOut
  BY <1>1, GoToFacts
<1>3. RequestInv'
  <2> SUFFICES ASSUME NEW q \in Requests
               PROVE  /\ requests'[q].pc = "none" => requests'[q] = NoRequest
                      /\ requests'[q].pc \in {"set", "flag", "verify", "create"}
                           => requests'[q].kind = "login"
                      /\ requests'[q].pc \in {"look", "forget", "serve"}
                           => requests'[q].kind \in Pages
                      /\ requests'[q].kind = "login" /\ requests'[q].pc # "done"
                           => requests'[q].expiry = Never
                      /\ requests'[q].kind # "login"
                           => requests'[q].token \in HandedOut'
    BY DEF RequestInv, InStep
  <2>1. CASE q = r
    BY <1>1, <1>2, <2>1 DEF RequestInv, Places, Pages
  <2>2. CASE q # r
    BY <1>1, <1>2, <2>2 DEF RequestInv, InStep
  <2>3. QED
    BY <2>1, <2>2
<1>4. TokensInv'
  BY <1>1, <1>2 DEF TokensInv, HandedOut
<1>5. LateInv'
  <2> SUFFICES ASSUME NEW q \in Requests, requests'[q].late
               PROVE  /\ requests'[q].kind # "login"
                      /\ requests'[q].pc = "new" => Ended(requests[q].token)'
                      /\ requests'[q].pc = "look" =>
                           requests'[q].expiry # Never
                             /\ Expired(requests[q].expiry)'
                      /\ requests'[q].pc # "serve"
    BY DEF LateInv, InStep
  <2>1. requests[q].late /\ requests[q].kind # "login"
    BY <1>1, <1>2 DEF LateInv
  <2>2. requests[q].token \in Requests
    BY <1>1, <2>1 DEF RequestInv, HandedOut
  <2>3. Ended(requests[q].token) => Ended(requests[q].token)'
    BY <1>2, <2>2 DEF Ended, Expired
  <2>4. CASE q = r
    BY <1>2, <2>1, <2>4 DEF Expired
  <2>5. CASE q # r
    BY <1>1, <1>2, <2>1, <2>3, <2>5 DEF LateInv, InStep, Expired
  <2>6. QED
    BY <2>4, <2>5
<1>6. QED
  BY <1>3, <1>4, <1>5

(* A request that arrives is a login, or comes with a token handed out. *)
LEMMA ArriveKeeps ==
    ASSUME PanelInv, NEW r \in Requests, Arrive(r)
    PROVE  PanelInv'
<1>1. PanelTypeOK /\ RequestInv /\ TokensInv /\ LateInv /\ clock \in Nat
  BY DEF PanelInv
<1>2. /\ UNCHANGED <<password, passwordSet, sessions, over, misread, overlapped, clock>>
      /\ requests[r] = NoRequest
  BY <1>1 DEF Arrive, RequestInv
<1>3. PICK q \in Request :
        /\ requests' = [requests EXCEPT ![r] = q]
        /\ q.pc = "new" /\ q.expiry = Never
        /\ q.kind # "login" => q.token \in HandedOut
        /\ q.late => q.kind # "login" /\ Ended(q.token)
  <2>1. CASE \E p \in Passwords \cup {NoPassword} :
               requests' = [requests EXCEPT ![r] =
                   [NoRequest EXCEPT !.pc = "new", !.password = p]]
    <3>1. PICK p \in Passwords \cup {NoPassword} :
            requests' = [requests EXCEPT ![r] =
                [NoRequest EXCEPT !.pc = "new", !.password = p]]
      BY <2>1
    <3> DEFINE q == [NoRequest EXCEPT !.pc = "new", !.password = p]
    <3>2. /\ q \in Request
          /\ q.pc = "new" /\ q.expiry = Never /\ q.kind = "login" /\ q.late = FALSE
      BY NoRequestType DEF NoRequest, Request
    <3>3. QED
      BY <3>1, <3>2
  <2>2. CASE \E t \in HandedOut, k \in {"logout"} \cup Pages :
               requests' = [requests EXCEPT ![r] =
                   [NoRequest EXCEPT !.pc = "new", !.kind = k, !.token = t,
                                     !.late = Ended(t)]]
    <3>1. PICK t \in HandedOut, k \in {"logout"} \cup Pages :
            requests' = [requests EXCEPT ![r] =
                [NoRequest EXCEPT !.pc = "new", !.kind = k, !.token = t,
                                  !.late = Ended(t)]]
      BY <2>2
    <3> DEFINE q == [NoRequest EXCEPT !.pc = "new", !.kind = k, !.token = t,
                                      !.late = Ended(t)]
    <3>2. Ended(t) \in BOOLEAN
      BY DEF Ended, Expired
    <3>3. q.pc = "new" /\ q.expiry = Never /\ q.kind = k /\ q.token = t
      BY DEF NoRequest
    <3>4. q.late = Ended(t) /\ k # "login"
      BY DEF NoRequest, Pages
    <3>5. q \in Request
      BY <3>2 DEF NoRequest, Request, HandedOut
    <3>6. QED
      BY <3>1, <3>3, <3>4, <3>5
  <2>3. QED
    BY <2>1, <2>2 DEF Arrive
<1>4. requests' \in [Requests -> Request]
      /\ requests'[r] = q /\ \A x \in Requests \ {r} : requests'[x] = requests[x]
  BY <1>1, <1>3 DEF PanelTypeOK
<1>5. PanelTypeOK'
  BY <1>1, <1>2, <1>4 DEF PanelTypeOK
<1>6. r \notin HandedOut
  BY <1>2 DEF HandedOut, NoRequest
<1>7. HandedOut' = HandedOut
  BY <1>3, <1>4, <1>6 DEF HandedOut
<1>8. \A t \in HandedOut : Ended(t) => Ended(t)'
  BY <1>2, <1>4, <1>6 DEF HandedOut, Ended, Expired
<1>9. RequestInv'
  BY <1>1, <1>3, <1>4, <1>7 DEF RequestInv, InStep
<1>10. TokensInv'
  BY <1>1, <1>2, <1>4, <1>6, <1>7 DEF TokensInv, HandedOut
<1>11. LateInv'
  <2> SUFFICES ASSUME NEW x \in Requests, requests'[x].late
               PROVE  /\ requests'[x].kind # "login"
                      /\ requests'[x].pc = "new" => Ended(requests[x].token)'
                      /\ requests'[x].pc = "look" =>
                           requests'[x].expiry # Never
                             /\ Expired(requests[x].expiry)'
                      /\ requests'[x].pc # "serve"
    BY DEF LateInv, InStep
  <2>1. CASE x = r
    <3>1. requests'[x] = q /\ q.token \in HandedOut /\ Ended(q.token)
      BY <1>3, <1>4, <2>1
    <3>2. Ended(requests[x].token)'
      BY <1>2, <1>4, <1>6, <3>1 DEF HandedOut, Ended, Expired
    <3>3. QED
      BY <1>3, <3>1, <3>2
  <2>2. CASE x # r
    <3>1. requests'[x] = requests[x]
      BY <1>4, <2>2
    <3>2. requests[x].kind # "login" /\ requests[x].token \in HandedOut
      BY <1>1, <3>1 DEF LateInv, RequestInv
    <3>3. Ended(requests[x].token) => Ended(requests[x].token)'
      BY <1>2, <1>4, <1>6, <3>1, <3>2 DEF HandedOut, Ended, Expired
    <3>4. QED
      BY <1>1, <1>2, <3>1, <3>2, <3>3 DEF LateInv, InStep, Expired
  <2>3. QED
    BY <2>1, <2>2
<1>12. QED
  BY <1>1, <1>2, <1>5, <1>9, <1>10, <1>11 DEF PanelInv

(* createSession hands out a token, with the expiry the session has. *)
LEMMA CreateKeeps ==
    ASSUME PanelInv, NEW r \in Requests, CreateSession(r)
    PROVE  PanelInv'
<1>1. PanelTypeOK /\ RequestInv /\ TokensInv /\ LateInv /\ clock \in Nat
  BY DEF PanelInv
<1>2. /\ UNCHANGED <<password, passwordSet, over, misread, overlapped, clock>>
      /\ requests[r].pc = "create"
  BY DEF CreateSession, InStep
<1>3. requests[r].kind = "login" /\ requests[r].expiry = Never
  BY <1>1, <1>2 DEF RequestInv
<1> DEFINE e == clock + TTL
<1>4. e \in Nat
  BY <1>1, PanelAssumption
<1>5. /\ sessions' = [sessions EXCEPT ![r] = e]
      /\ requests' = [requests EXCEPT ![r].pc = "done", ![r].expiry = e]
  BY DEF CreateSession
<1> HIDE DEF e
<1> DEFINE q == [requests[r] EXCEPT !.pc = "done", !.expiry = e]
<1>6. q \in Request /\ q.pc = "done" /\ q.kind = "login" /\ q.expiry = e
      /\ q.late = requests[r].late
  BY <1>1, <1>3, <1>4 DEF PanelTypeOK, Request
<1>7. requests' = [requests EXCEPT ![r] = q]
  BY <1>1, <1>5 DEF PanelTypeOK
<1> HIDE DEF q
<1>8. requests' \in [Requests -> Request]
      /\ requests'[r] = q /\ \A x \in Requests \ {r} : requests'[x] = requests[x]
  BY <1>1, <1>6, <1>7 DEF PanelTypeOK
<1>9. sessions' \in [Requests -> Nat \cup {Never}]
      /\ sessions'[r] = e /\ \A x \in Requests \ {r} : sessions'[x] = sessions[x]
  BY <1>1, <1>4, <1>5 DEF PanelTypeOK
<1>10. PanelTypeOK'
  BY <1>1, <1>2, <1>8, <1>9 DEF PanelTypeOK
<1>11. r \notin HandedOut
  BY <1>3 DEF HandedOut
<1>12. HandedOut' = HandedOut \cup {r}
  BY <1>3, <1>4, <1>6, <1>8, ClockAssumption DEF HandedOut
<1>13. RequestInv'
  BY <1>1, <1>6, <1>8, <1>12 DEF RequestInv, InStep
<1>14. TokensInv'
  <2>1. \A t \in Requests : sessions'[t] # Never =>
          t \in HandedOut' /\ sessions'[t] = requests'[t].expiry
    BY <1>1, <1>6, <1>8, <1>9, <1>12 DEF TokensInv
  <2>2. over' \subseteq HandedOut'
    BY <1>1, <1>2, <1>12 DEF TokensInv
  <2>3. \A t \in over' : sessions'[t] = Never
    BY <1>1, <1>2, <1>9, <1>11 DEF TokensInv, PanelTypeOK
  <2>4. QED
    BY <2>1, <2>2, <2>3 DEF TokensInv
<1>15. LateInv'
  <2> SUFFICES ASSUME NEW x \in Requests, requests'[x].late
               PROVE  /\ requests'[x].kind # "login"
                      /\ requests'[x].pc = "new" => Ended(requests[x].token)'
                      /\ requests'[x].pc = "look" =>
                           requests'[x].expiry # Never
                             /\ Expired(requests[x].expiry)'
                      /\ requests'[x].pc # "serve"
    BY DEF LateInv, InStep
  <2>1. x # r
    BY <1>1, <1>3, <1>6, <1>8 DEF LateInv
  <2>2. requests'[x] = requests[x]
    BY <1>8, <2>1
  <2>3. requests[x].kind # "login" /\ requests[x].token \in HandedOut
    BY <1>1, <2>2 DEF LateInv, RequestInv
  <2>4. Ended(requests[x].token) => Ended(requests[x].token)'
    BY <1>2, <1>8, <1>11, <2>2, <2>3 DEF HandedOut, Ended, Expired
  <2>5. QED
    BY <1>1, <1>2, <2>2, <2>3, <2>4 DEF LateInv, InStep, Expired
<1>16. QED
  BY <1>1, <1>2, <1>10, <1>13, <1>14, <1>15 DEF PanelInv

(* handleLogout, and the deletion of a session that has expired. *)
LEMMA LeaveKeeps ==
    ASSUME PanelInv, NEW r \in Requests, Logout(r) \/ ForgetSession(r)
    PROVE  PanelInv'
<1>1. PanelTypeOK /\ RequestInv /\ TokensInv /\ LateInv /\ clock \in Nat
  BY DEF PanelInv
<1> DEFINE t == requests[r].token
<1>2. /\ UNCHANGED <<password, passwordSet, misread, overlapped, clock>>
      /\ GoTo(r, "done")
      /\ sessions' = [sessions EXCEPT ![t] = Never]
      /\ over' \in {over, over \cup {t}}
  BY DEF Logout, ForgetSession
<1>3. requests[r].kind # "login"
  BY <1>1 DEF Logout, ForgetSession, RequestInv, InStep, Pages
<1>4. t \in HandedOut /\ t \in Requests
  BY <1>1, <1>3 DEF RequestInv, HandedOut
<1> HIDE DEF t
<1>5. /\ requests' \in [Requests -> Request]
      /\ requests'[r].pc = "done"
      /\ \A q \in Requests :
           /\ q # r => requests'[q] = requests[q]
           /\ requests'[q].kind = requests[q].kind
           /\ requests'[q].token = requests[q].token
           /\ requests'[q].expiry = requests[q].expiry
           /\ requests'[q].late = requests[q].late
      /\ HandedOut' = HandedOut
  <2>1. "done" \in Places
    BY DEF Places
  <2>2. QED
    BY <1>1, <1>2, <2>1, GoToFacts
<1>6. sessions' \in [Requests -> Nat \cup {Never}]
      /\ sessions'[t] = Never /\ \A x \in Requests \ {t} : sessions'[x] = sessions[x]
  BY <1>1, <1>2, <1>4 DEF PanelTypeOK
<1>7. PanelTypeOK'
  BY <1>1, <1>2, <1>4, <1>5, <1>6 DEF PanelTypeOK
<1>8. RequestInv'
  <2> SUFFICES ASSUME NEW q \in Requests
               PROVE  /\ requests'[q].pc = "none" => requests'[q] = NoRequest
                      /\ requests'[q].pc \in {"set", "flag", "verify", "create"}
                           => requests'[q].kind = "login"
                      /\ requests'[q].pc \in {"look", "forget", "serve"}
                           => requests'[q].kind \in Pages
                      /\ requests'[q].kind = "login" /\ requests'[q].pc # "done"
                           => requests'[q].expiry = Never
                      /\ requests'[q].kind # "login"
                           => requests'[q].token \in HandedOut'
    BY DEF RequestInv, InStep
  <2>1. CASE q = r
    BY <1>1, <1>5, <2>1 DEF RequestInv
  <2>2. CASE q # r
    BY <1>1, <1>5, <2>2 DEF RequestInv, InStep
  <2>3. QED
    BY <2>1, <2>2
<1>9. TokensInv'
  <2>1. \A x \in Requests : sessions'[x] # Never =>
          x \in HandedOut' /\ sessions'[x] = requests'[x].expiry
    BY <1>1, <1>5, <1>6 DEF TokensInv
  <2>2. over' \subseteq HandedOut'
    BY <1>1, <1>2, <1>4, <1>5 DEF TokensInv
  <2>3. \A x \in over' : sessions'[x] = Never
    BY <1>1, <1>2, <1>4, <1>6 DEF TokensInv, PanelTypeOK
  <2>4. QED
    BY <2>1, <2>2, <2>3 DEF TokensInv
<1>10. LateInv'
  <2> SUFFICES ASSUME NEW q \in Requests, requests'[q].late
               PROVE  /\ requests'[q].kind # "login"
                      /\ requests'[q].pc = "new" => Ended(requests[q].token)'
                      /\ requests'[q].pc = "look" =>
                           requests'[q].expiry # Never
                             /\ Expired(requests[q].expiry)'
                      /\ requests'[q].pc # "serve"
    BY DEF LateInv, InStep
  <2>1. requests[q].late /\ requests[q].kind # "login"
    BY <1>1, <1>5 DEF LateInv
  <2>2. requests[q].token \in Requests
    BY <1>1, <2>1 DEF RequestInv, HandedOut
  <2>3. Ended(requests[q].token) => Ended(requests[q].token)'
    BY <1>2, <1>5, <2>2 DEF Ended, Expired
  <2>4. CASE q = r
    BY <1>5, <2>1, <2>4
  <2>5. CASE q # r
    BY <1>1, <1>2, <1>5, <2>1, <2>3, <2>5 DEF LateInv, InStep, Expired
  <2>6. QED
    BY <2>4, <2>5
<1>11. QED
  BY <1>1, <1>2, <1>7, <1>8, <1>9, <1>10 DEF PanelInv

(* validateSession reads the expiry: there is none to read of a session that *)
(* was left, and that of any other is the one it was handed out with.        *)
LEMMA ReadKeeps ==
    ASSUME PanelInv, NEW r \in Requests, ReadSession(r)
    PROVE  PanelInv'
<1>1. PanelTypeOK /\ RequestInv /\ TokensInv /\ LateInv /\ clock \in Nat
  BY DEF PanelInv
<1>2. /\ UNCHANGED <<password, passwordSet, sessions, over, misread, overlapped, clock>>
      /\ requests[r].pc = "new" /\ requests[r].kind \in Pages
  BY DEF ReadSession, InStep
<1> DEFINE t == requests[r].token
           e == sessions[t]
           pc == IF e = Never THEN "done" ELSE "look"
           q == [requests[r] EXCEPT !.pc = pc, !.expiry = e]
<1>3. requests[r].kind # "login"
  BY <1>2 DEF Pages
<1>4. t \in HandedOut /\ t \in Requests
  BY <1>1, <1>3 DEF RequestInv, HandedOut
<1>5. e \in Nat \cup {Never} /\ pc \in {"done", "look"}
  BY <1>1, <1>4 DEF PanelTypeOK
<1>6. requests' = [requests EXCEPT ![r].pc = pc, ![r].expiry = e]
  BY DEF ReadSession
<1>7. e # Never => e = requests[t].expiry
  BY <1>1, <1>4 DEF TokensInv
<1>8. t \in over => e = Never
  BY <1>1 DEF TokensInv
<1>9. pc = "look" => e # Never
  OBVIOUS
<1> HIDE DEF e, pc
<1>10. requests' = [requests EXCEPT ![r] = q]
  BY <1>1, <1>6 DEF PanelTypeOK
<1>11. /\ q \in Request /\ q.pc = pc /\ q.expiry = e
       /\ q.kind = requests[r].kind /\ q.token = t /\ q.late = requests[r].late
  BY <1>1, <1>5 DEF PanelTypeOK, Request
<1> HIDE DEF q
<1>12. requests' \in [Requests -> Request]
       /\ requests'[r] = q /\ \A x \in Requests \ {r} : requests'[x] = requests[x]
  BY <1>1, <1>10, <1>11 DEF PanelTypeOK
<1>13. HandedOut' = HandedOut /\ r \notin HandedOut
  BY <1>3, <1>11, <1>12 DEF HandedOut
<1>14. PanelTypeOK'
  BY <1>1, <1>2, <1>12 DEF PanelTypeOK
<1>15. RequestInv'
  BY <1>1, <1>2, <1>3, <1>5, <1>11, <1>12, <1>13 DEF RequestInv, InStep
<1>16. TokensInv'
  <2>1. \A x \in Requests : sessions'[x] # Never =>
          x \in HandedOut' /\ sessions'[x] = requests'[x].expiry
    BY <1>1, <1>2, <1>12, <1>13 DEF TokensInv
  <2>2. QED
    BY <1>1, <1>2, <1>13, <2>1 DEF TokensInv
<1>17. LateInv'
  <2> SUFFICES ASSUME NEW x \in Requests, requests'[x].late
               PROVE  /\ requests'[x].kind # "login"
                      /\ requests'[x].pc = "new" => Ended(requests[x].token)'
                      /\ requests'[x].pc = "look" =>
                           requests'[x].expiry # Never
                             /\ Expired(requests[x].expiry)'
                      /\ requests'[x].pc # "serve"
    BY DEF LateInv, InStep
  <2>1. CASE x = r
    <3>1. requests[r].late /\ Ended(t)
      BY <1>1, <1>2, <1>11, <1>12, <2>1 DEF LateInv, InStep
    <3>2. e # Never => Expired(e)
      BY <1>7, <1>8, <3>1 DEF Ended
    <3>3. QED
      BY <1>2, <1>3, <1>5, <1>9, <1>11, <1>12, <2>1, <3>2 DEF Expired
  <2>2. CASE x # r
    <3>1. requests'[x] = requests[x]
      BY <1>12, <2>2
    <3>2. requests[x].kind # "login" /\ requests[x].token \in HandedOut
      BY <1>1, <3>1 DEF LateInv, RequestInv
    <3>3. Ended(requests[x].token) => Ended(requests[x].token)'
      BY <1>2, <1>12, <1>13, <3>1, <3>2 DEF HandedOut, Ended, Expired
    <3>4. QED
      BY <1>1, <1>2, <3>1, <3>2, <3>3 DEF LateInv, InStep, Expired
  <2>3. QED
    BY <2>1, <2>2
<1>18. QED
  BY <1>1, <1>2, <1>14, <1>15, <1>16, <1>17 DEF PanelInv

(* A new process knows no session of the old one. *)
LEMMA RestartKeeps ==
    ASSUME PanelInv, PanelRestarts(faults)
    PROVE  PanelInv'
<1>1. PanelTypeOK /\ RequestInv /\ TokensInv /\ LateInv /\ clock \in Nat
  BY DEF PanelInv
<1>2. /\ UNCHANGED <<password, overlapped, clock>>
      /\ sessions' = [t \in Requests |-> Never]
      /\ over' = HandedOut
      /\ requests' = [r \in Requests |->
              IF InStep(r, "none") THEN requests[r]
              ELSE [requests[r] EXCEPT !.pc = "done"]]
      /\ passwordSet' \in BOOLEAN /\ misread' \in BOOLEAN
  BY <1>1 DEF PanelRestarts, PanelTypeOK
<1>3. ASSUME NEW r \in Requests
      PROVE  /\ requests'[r] \in Request
             /\ requests'[r].pc = "none" => requests'[r] = requests[r]
             /\ requests'[r].pc \in {"none", "done"}
             /\ requests'[r].kind = requests[r].kind
             /\ requests'[r].token = requests[r].token
             /\ requests'[r].expiry = requests[r].expiry
             /\ requests'[r].late = requests[r].late
  <2> DEFINE q == [requests[r] EXCEPT !.pc = "done"]
  <2>1. requests[r] \in Request
    BY <1>1 DEF PanelTypeOK
  <2>2. /\ q \in Request /\ q.pc = "done"
        /\ q.kind = requests[r].kind /\ q.token = requests[r].token
        /\ q.expiry = requests[r].expiry /\ q.late = requests[r].late
    BY <2>1 DEF Request
  <2>3. requests'[r] = IF InStep(r, "none") THEN requests[r] ELSE q
    BY <1>2
  <2> HIDE DEF q
  <2>4. QED
    BY <2>1, <2>2, <2>3 DEF InStep
<1>4. requests' \in [Requests -> Request]
  BY <1>2, <1>3
<1>5. HandedOut' = HandedOut
  BY <1>3 DEF HandedOut
<1>6. HandedOut \subseteq Requests
  BY DEF HandedOut
<1>7. PanelTypeOK'
  BY <1>1, <1>2, <1>4, <1>6 DEF PanelTypeOK
<1>8. RequestInv'
  <2> SUFFICES ASSUME NEW q \in Requests
               PROVE  /\ requests'[q].pc = "none" => requests'[q] = NoRequest
                      /\ requests'[q].pc \in {"set", "flag", "verify", "create"}
                           => requests'[q].kind = "login"
                      /\ requests'[q].pc \in {"look", "forget", "serve"}
                           => requests'[q].kind \in Pages
                      /\ requests'[q].kind = "login" /\ requests'[q].pc # "done"
                           => requests'[q].expiry = Never
                      /\ requests'[q].kind # "login"
                           => requests'[q].token \in HandedOut'
    BY DEF RequestInv, InStep
  <2>1. requests'[q].pc = "none" => requests'[q] = requests[q] /\ requests[q].pc = "none"
    BY <1>3
  <2>2. QED
    BY <1>1, <1>3, <1>5, <2>1 DEF RequestInv, InStep
<1>9. TokensInv'
  BY <1>2, <1>5, <1>6 DEF TokensInv
<1>10. LateInv'
  <2>1. \A r \in Requests : requests'[r].late => requests'[r].kind # "login"
    BY <1>1, <1>3 DEF LateInv
  <2>2. \A r \in Requests : requests'[r].pc \in {"none", "done"}
    BY <1>3
  <2>3. QED
    BY <2>1, <2>2 DEF LateInv, InStep
<1>11. QED
  BY <1>1, <1>2, <1>7, <1>8, <1>9, <1>10 DEF PanelInv

(* The passing of time ends sessions and revives none. *)
LEMMA TimePasses ==
    ASSUME PanelInv, ClockTicks, UNCHANGED panelVars
    PROVE  PanelInv'
<1>1. PanelTypeOK /\ RequestInv /\ TokensInv /\ LateInv /\ clock \in Nat
  BY DEF PanelInv
<1>2. /\ UNCHANGED <<password, passwordSet, sessions, requests, over, misread, overlapped>>
      /\ clock' = clock + 1
  BY DEF ClockTicks, panelVars
<1>3. \A e \in Nat : clock > e => clock' > e
  BY <1>1, <1>2
<1>4. PanelTypeOK' /\ RequestInv' /\ TokensInv' /\ clock' \in Nat
  BY <1>1, <1>2 DEF PanelTypeOK, RequestInv, TokensInv, HandedOut, InStep
<1>5. LateInv'
  <2> SUFFICES ASSUME NEW r \in Requests, requests[r].late
               PROVE  /\ requests[r].kind # "login"
                      /\ requests[r].pc = "new" => Ended(requests[r].token)'
                      /\ requests[r].pc = "look" =>
                           requests[r].expiry # Never
                             /\ Expired(requests[r].expiry)'
                      /\ requests[r].pc # "serve"
    BY <1>2 DEF LateInv, InStep
  <2>1. requests[r].kind # "login" /\ requests[r].token \in HandedOut
    BY <1>1 DEF LateInv, RequestInv
  <2>2. requests[requests[r].token].expiry \in Nat
    BY <1>1, <2>1 DEF HandedOut, PanelTypeOK, Request
  <2>3. Ended(requests[r].token) => Ended(requests[r].token)'
    BY <1>2, <1>3, <2>2 DEF Ended, Expired
  <2>4. requests[r].expiry \in Nat \cup {Never}
    BY <1>1 DEF PanelTypeOK, Request
  <2>5. QED
    BY <1>1, <1>2, <1>3, <2>1, <2>3, <2>4 DEF LateInv, InStep, Expired
<1>6. QED
  BY <1>4, <1>5 DEF PanelInv

(* The steps that only move a request on. *)
LEMMA MoveKeeps ==
    ASSUME PanelInv, NEW r \in Requests,
           \/ LoginRead(r) \/ SetStore(r, faults) \/ SetFlag(r)
           \/ Verify(r, faults) \/ LookAtExpiry(r)
           \/ \E page \in Pages : ServePage(r, page)
    PROVE  PanelInv'
<1>1. PanelTypeOK /\ RequestInv /\ TokensInv /\ LateInv /\ clock \in Nat
  BY DEF PanelInv
<1>2. /\ sessions' = sessions /\ over' = over /\ clock' = clock /\ misread' = misread
      /\ passwordSet' \in {passwordSet, TRUE}
      /\ password' \in {password, requests[r].password}
      /\ overlapped' \in BOOLEAN
  BY <1>1 DEF LoginRead, SetStore, SetFlag, Verify, LookAtExpiry, ServePage, PanelTypeOK
<1>3. PICK pc \in Places \ {"none", "new"} :
        /\ GoTo(r, pc)
        /\ pc \in {"set", "flag", "verify", "create"} =>
             requests[r].kind = "login" /\ requests[r].expiry = Never
        /\ pc \in {"look", "forget", "serve"} => requests[r].kind \in Pages
        /\ requests[r].late => pc \notin {"look", "serve"}
  <2>1. CASE LoginRead(r)
    <3>1. PICK pc \in {"verify", "set", "done"} : GoTo(r, pc)
      BY <2>1 DEF LoginRead
    <3>2. requests[r].kind = "login" /\ requests[r].expiry = Never
      BY <1>1, <2>1 DEF LoginRead, RequestInv, InStep
    <3>3. QED
      BY <3>1, <3>2 DEF Places
  <2>2. CASE SetStore(r, faults) \/ SetFlag(r) \/ Verify(r, faults)
    <3>1. PICK pc \in {"flag", "create", "done"} : GoTo(r, pc)
      BY <2>2 DEF SetStore, SetFlag, Verify
    <3>2. requests[r].kind = "login" /\ requests[r].expiry = Never
      BY <1>1, <2>2 DEF SetStore, SetFlag, Verify, RequestInv, InStep
    <3>3. QED
      BY <3>1, <3>2 DEF Places
  <2>3. CASE LookAtExpiry(r)
    <3>1. GoTo(r, IF Expired(requests[r].expiry) THEN "forget" ELSE "serve")
      BY <2>3 DEF LookAtExpiry
    <3>2. requests[r].kind \in Pages
      BY <1>1, <2>3 DEF LookAtExpiry, RequestInv, InStep
    <3>3. requests[r].late => Expired(requests[r].expiry)
      BY <1>1, <2>3 DEF LookAtExpiry, LateInv
    <3>4. CASE Expired(requests[r].expiry)
      BY <3>1, <3>2, <3>4 DEF Places
    <3>5. CASE ~ Expired(requests[r].expiry)
      BY <3>1, <3>2, <3>3, <3>5 DEF Places
    <3>6. QED
      BY <3>4, <3>5
  <2>4. CASE \E page \in Pages : ServePage(r, page)
    BY <2>4 DEF ServePage, Places
  <2>5. QED
    BY <2>1, <2>2, <2>3, <2>4
<1>4. RequestInv' /\ TokensInv' /\ LateInv'
  BY <1>2, <1>3, MovingOn
<1>5. PanelTypeOK'
  <2>1. requests' \in [Requests -> Request]
    BY <1>1, <1>3, GoToFacts
  <2>2. requests[r].password \in Passwords \cup {NoPassword}
    BY <1>1 DEF PanelTypeOK, Request
  <2>3. QED
    BY <1>1, <1>2, <2>1, <2>2 DEF PanelTypeOK
<1>6. QED
  BY <1>1, <1>2, <1>4, <1>5 DEF PanelInv

LEMMA PanelInvStep ==
    ASSUME PanelInv, [Next]_vars
    PROVE  PanelInv'
<1>1. CASE PanelNext
  <2>1. ASSUME NEW r \in Requests,
               Arrive(r) \/ RequestStep(r, faults)
                 \/ \E page \in Pages : ServePage(r, page)
        PROVE  PanelInv'
    BY <2>1, ArriveKeeps, MoveKeeps, CreateKeeps, LeaveKeeps, ReadKeeps
      DEF RequestStep, LoginStep, Pages
  <2>2. QED
    BY <1>1, <2>1, RestartKeeps, TimePasses DEF PanelNext
<1>2. CASE UNCHANGED <<panelVars, clock>>
  BY <1>2 DEF PanelInv, panelVars, PanelTypeOK, RequestInv, TokensInv, LateInv,
    HandedOut, InStep, Ended, Expired
<1>3. QED
  BY <1>1, <1>2, PanelFrame

LEMMA PanelInvHolds == Spec => []PanelInv
<1>1. Init => PanelInv
  BY PanelInitInv
<1>2. PanelInv /\ [Next]_vars => PanelInv'
  BY PanelInvStep
<1>3. QED
  BY <1>1, <1>2, PTL DEF Spec

(* No page behind the login is served to a request whose session had ended  *)
(* when it came, however its steps and the others' interleave with logouts, *)
(* the passing of time and restarts of the process.                         *)
THEOREM SessionsEnd == Spec => []SessionEnds
<1>1. PanelInv => SessionEnds
  BY DEF PanelInv, LateInv, SessionEnds, InStep
<1>2. QED
  BY <1>1, PanelInvHolds, PTL

-----------------------------------------------------------------------------
(* The password of the panel. *)

(* A step that leaves the set of these logins alone, and the password. *)
LEMMA SameSetting ==
    ASSUME PasswordInv,
           \A r \in Requests : requests'[r].pc = requests[r].pc
             \/ {requests'[r].pc, requests[r].pc} \cap {"set", "flag"} = {},
           password' = password, passwordSet' = passwordSet,
           misread' = misread, overlapped' = overlapped
    PROVE  PasswordInv'
<1>1. CASE misread \/ overlapped
  BY <1>1 DEF PasswordInv
<1>2. CASE ~ (misread \/ overlapped)
  <2>1. \A r \in Requests :
          /\ requests'[r].pc = "set" <=> requests[r].pc = "set"
          /\ requests'[r].pc = "flag" <=> requests[r].pc = "flag"
    OBVIOUS
  <2>2. QED
    BY <1>2, <2>1 DEF PasswordInv, InStep
<1>3. QED
  BY <1>1, <1>2

LEMMA PasswordInvStep ==
    ASSUME PanelInv, PasswordInv, [Next]_vars
    PROVE  PasswordInv'
<1>1. PanelTypeOK /\ RequestInv
  BY DEF PanelInv
<1>2. ASSUME NEW r \in Requests, LoginRead(r)
      PROVE  PasswordInv'
  <2>1. PICK pc \in {"verify", "set", "done"} :
          GoTo(r, pc) /\ (pc = "set" => ~ passwordSet)
    BY <1>2 DEF LoginRead
  <2>2. pc \in Places
    BY DEF Places
  <2>3. /\ requests'[r].pc = pc /\ requests[r].pc = "new"
        /\ \A q \in Requests : q # r => requests'[q] = requests[q]
    BY <1>1, <1>2, <2>1, <2>2, GoToFacts DEF LoginRead, InStep
  <2>4. /\ password' = password /\ passwordSet' = passwordSet /\ misread' = misread
        /\ overlapped' = (overlapped \/
              /\ ~ passwordSet
              /\ \E q \in Requests : InStep(q, "set") \/ InStep(q, "flag"))
    BY <1>2 DEF LoginRead
  <2>5. CASE pc = "set" /\ ~ misread /\ ~ overlapped'
    <3>1. /\ ~ passwordSet
          /\ \A q \in Requests : requests[q].pc \notin {"set", "flag"}
      BY <2>1, <2>4, <2>5 DEF InStep
    <3>2. password = NoPassword
      BY <2>4, <2>5, <3>1 DEF PasswordInv, InStep
    <3>3. \A q \in Requests : requests'[q].pc \in {"set", "flag"} => q = r
      BY <2>3, <3>1
    <3>4. QED
      BY <2>4, <3>1, <3>2, <3>3 DEF PasswordInv, InStep
  <2>6. CASE misread \/ overlapped'
    BY <2>4, <2>6 DEF PasswordInv
  <2>7. CASE pc # "set" /\ ~ misread /\ ~ overlapped'
    <3>1. \A q \in Requests : requests'[q].pc = requests[q].pc
            \/ {requests'[q].pc, requests[q].pc} \cap {"set", "flag"} = {}
      BY <2>3, <2>7
    <3>2. overlapped' = overlapped
      BY <1>1, <2>4, <2>7 DEF PanelTypeOK
    <3>3. QED
      BY <2>4, <3>1, <3>2, SameSetting
  <2>8. QED
    BY <2>5, <2>6, <2>7
<1>3. ASSUME NEW r \in Requests, SetStore(r, faults)
      PROVE  PasswordInv'
  <2>1. PICK pc \in {"flag", "done"} :
          GoTo(r, pc) /\ (pc = "flag" \/ password' = password)
    BY <1>3 DEF SetStore
  <2>2. pc \in Places
    BY DEF Places
  <2>3. /\ requests'[r].pc = pc /\ requests[r].pc = "set"
        /\ \A q \in Requests : q # r => requests'[q] = requests[q]
    BY <1>1, <1>3, <2>1, <2>2, GoToFacts DEF SetStore, InStep
  <2>4. UNCHANGED <<passwordSet, misread, overlapped>>
    BY <1>3 DEF SetStore
  <2>5. CASE misread \/ overlapped
    BY <2>4, <2>5 DEF PasswordInv
  <2>6. CASE ~ (misread \/ overlapped)
    <3>1. /\ password = NoPassword
          /\ \A q \in Requests : requests[q].pc \in {"set", "flag"} => q = r
      BY <2>3, <2>6 DEF PasswordInv, InStep
    <3>2. \A q \in Requests : requests'[q].pc \in {"set", "flag"} => q = r
      BY <2>3, <3>1
    <3>3. \A q \in Requests : requests'[q].pc # "set"
      BY <2>3, <3>2
    <3>4. password' # NoPassword => requests'[r].pc = "flag"
      BY <2>1, <2>3, <3>1
    <3>5. QED
      BY <3>2, <3>3, <3>4 DEF PasswordInv, InStep
  <2>7. QED
    BY <2>5, <2>6
<1>4. ASSUME NEW r \in Requests, SetFlag(r)
      PROVE  PasswordInv'
  <2>1. GoTo(r, "create") /\ "create" \in Places
    BY <1>4 DEF SetFlag, Places
  <2>2. /\ requests'[r].pc = "create" /\ requests[r].pc = "flag"
        /\ \A q \in Requests : q # r => requests'[q] = requests[q]
    BY <1>1, <1>4, <2>1, GoToFacts DEF SetFlag, InStep
  <2>3. UNCHANGED <<password, misread, overlapped>> /\ passwordSet' = TRUE
    BY <1>4 DEF SetFlag
  <2>4. CASE misread \/ overlapped
    BY <2>3, <2>4 DEF PasswordInv
  <2>5. CASE ~ (misread \/ overlapped)
    <3>1. \A q \in Requests : requests[q].pc \in {"set", "flag"} => q = r
      BY <2>2, <2>5 DEF PasswordInv
    <3>2. \A q \in Requests : requests'[q].pc \notin {"set", "flag"}
      BY <2>2, <3>1
    <3>3. QED
      BY <2>3, <3>2 DEF PasswordInv, InStep
  <2>6. QED
    BY <2>4, <2>5
<1>5. ASSUME NEW r \in Requests,
             Verify(r, faults) \/ LookAtExpiry(r) \/ Logout(r) \/ ForgetSession(r)
               \/ \E page \in Pages : ServePage(r, page)
      PROVE  PasswordInv'
  <2>1. PICK pc \in {"create", "done", "forget", "serve"} : GoTo(r, pc)
    BY <1>5 DEF Verify, LookAtExpiry, Logout, ForgetSession, ServePage
  <2>2. pc \in Places
    BY DEF Places
  <2>3. requests[r].pc \notin {"set", "flag"}
    BY <1>5 DEF Verify, LookAtExpiry, Logout, ForgetSession, ServePage, InStep
  <2>4. \A q \in Requests : requests'[q].pc = requests[q].pc
          \/ {requests'[q].pc, requests[q].pc} \cap {"set", "flag"} = {}
    BY <1>1, <2>1, <2>2, <2>3, GoToFacts
  <2>5. UNCHANGED <<password, passwordSet, misread, overlapped>>
    BY <1>5 DEF Verify, LookAtExpiry, Logout, ForgetSession, ServePage
  <2>6. QED
    BY <2>4, <2>5, SameSetting
<1>6. ASSUME NEW r \in Requests,
             Arrive(r) \/ CreateSession(r) \/ ReadSession(r)
      PROVE  PasswordInv'
  <2>1. requests[r].pc \in {"none", "create", "new"}
    BY <1>6 DEF Arrive, CreateSession, ReadSession, InStep
  <2>2. requests'[r].pc \notin {"set", "flag"}
    <3>1. requests \in [Requests -> Request]
      BY <1>1 DEF PanelTypeOK
    <3>2. CASE Arrive(r)
      BY <3>1, <3>2 DEF Arrive, NoRequest
    <3>3. CASE CreateSession(r)
      BY <3>1, <3>3 DEF CreateSession, Request
    <3>4. CASE ReadSession(r)
      BY <3>1, <3>4 DEF ReadSession, Request
    <3>5. QED
      BY <1>6, <3>2, <3>3, <3>4
  <2>3. \A q \in Requests : q # r => requests'[q] = requests[q]
    BY <1>1, <1>6 DEF Arrive, CreateSession, ReadSession, PanelTypeOK
  <2>4. \A q \in Requests : requests'[q].pc = requests[q].pc
          \/ {requests'[q].pc, requests[q].pc} \cap {"set", "flag"} = {}
    BY <2>1, <2>2, <2>3
  <2>5. UNCHANGED <<password, passwordSet, misread, overlapped>>
    BY <1>6 DEF Arrive, CreateSession, ReadSession
  <2>6. QED
    BY <2>4, <2>5, SameSetting
<1>7. CASE PanelRestarts(faults)
  <2>1. \A r \in Requests : requests'[r].pc \in {"none", "done"}
    <3> SUFFICES ASSUME NEW r \in Requests
                 PROVE  requests'[r].pc \in {"none", "done"}
      OBVIOUS
    <3>1. requests'[r] = IF InStep(r, "none") THEN requests[r]
                         ELSE [requests[r] EXCEPT !.pc = "done"]
      BY <1>7 DEF PanelRestarts
    <3>2. requests[r] \in Request
      BY <1>1 DEF PanelTypeOK
    <3>3. QED
      BY <3>1, <3>2 DEF InStep, Request
  <2>2. password' = password /\ overlapped' = overlapped
        /\ \/ passwordSet' = (password # NoPassword) /\ misread' = misread
           \/ misread' = (misread \/ password # NoPassword)
    BY <1>7 DEF PanelRestarts
  <2>3. \A r \in Requests : requests'[r].pc \notin {"set", "flag"}
    BY <2>1
  <2>4. misread' \/ password = NoPassword \/ passwordSet'
    BY <2>2
  <2>5. QED
    BY <2>2, <2>3, <2>4 DEF PasswordInv, InStep
<1>8. CASE UNCHANGED panelVars
  BY <1>8, SameSetting DEF panelVars
<1>9. CASE PanelNext
  BY <1>2, <1>3, <1>4, <1>5, <1>6, <1>7, <1>8, <1>9
    DEF PanelNext, RequestStep, LoginStep, Pages
<1>10. QED
  BY <1>8, <1>9, PanelFrame

(* Only setPassword stores one. *)
LEMMA PasswordStep ==
    ASSUME PanelInv, PasswordInv, [Next]_vars,
           password # NoPassword, password' # password
    PROVE  misread \/ overlapped
<1>1. PICK r \in Requests : SetStore(r, faults)
  BY PanelFrame DEF PanelNext, panelVars, RequestStep, LoginStep, Arrive, LoginRead,
    SetFlag, Verify, CreateSession, Logout, ReadSession, LookAtExpiry,
    ForgetSession, ServePage, PanelRestarts
<1>2. QED
  BY <1>1 DEF SetStore, PasswordInv

(* The password of the panel stays once it is set, but for the two cases    *)
(* that PasswordKept names: first logins side by side, and a process that   *)
(* could not read it.                                                       *)
THEOREM PasswordStays == Spec => PasswordKept
<1>1. PanelInv /\ PasswordInv /\ [Next]_vars
        => [password # NoPassword /\ password' # password
              => misread \/ overlapped]_panelVars
  BY PasswordStep
<1>2. Init => PasswordInv
  BY PanelInitInv
<1>3. PanelInv /\ PasswordInv /\ [Next]_vars => PasswordInv'
  BY PasswordInvStep
<1>4. QED
  BY <1>1, <1>2, <1>3, PanelInvHolds, PTL DEF Spec, PasswordKept

-----------------------------------------------------------------------------
(* The scheduler. *)

SchedulerNext ==
    SchedulerStep \/ \E c \in Callers : AskStop(c) \/ StopLock(c) \/ StopReturn(c)

(* What is no step of the scheduler leaves it alone; only what serves the  *)
(* panel, or restarts it, goes on with a request; and nobody is asked to   *)
(* stop what was not started.                                              *)
LEMMA SchedulerFrame ==
    ASSUME [Next]_vars
    PROVE  /\ SchedulerNext \/ UNCHANGED schedulerVars
           /\ Serve \/ Restart \/ UNCHANGED requests
           /\ Serve \/ cron # "none" \/ UNCHANGED stopping
                \/ \E c \in Callers : StopLock(c) \/ StopReturn(c)
           /\ Restart => UNCHANGED schedulerVars
<1>1. CASE UNCHANGED vars
  BY <1>1 DEF vars, schedulerVars, panelVars, Restart, OtherThanSchedule
<1>2. CASE LoopStep
  <2>1. UNCHANGED OtherThanLoop
    BY <1>2 DEF LoopStep, HandlerStep, TakeMessage, TakeGuildEvent, Route,
      RunCommand, Listen, Return, Hang, Abandon
  <2>2. QED
    BY <2>1 DEF OtherThanLoop, schedulerVars, panelVars
<1>3. CASE Edit \/ Cache \/ Time
  BY <1>3 DEF Edit, Cache, Time, schedulerVars, panelVars
<1>4. CASE Stream \/ \E t \in Tellers : Publish(t)
  BY <1>4 DEF Stream, Publish, OtherThanLoop, schedulerVars, panelVars
<1>5. CASE Schedule
  <2>1. SchedulerStep /\ UNCHANGED panelVars
    BY <1>5 DEF Schedule, SchedulerStep
  <2>2. stopping' = stopping
    BY <2>1 DEF SchedulerStep, Start, Every, Fire, JobStep
  <2>3. Restart => UNCHANGED schedulerVars
    BY DEF Restart
  <2>4. QED
    BY <2>1, <2>2, <2>3 DEF SchedulerNext, panelVars
<1>6. CASE Serve
  <2>1. (\E c \in Callers : AskStop(c)) \/ UNCHANGED schedulerVars
    BY <1>6, ServicesAssumption DEF Serve
  <2>2. QED
    BY <1>6, <2>1 DEF SchedulerNext, Restart
<1>7. CASE Restart \/ Session
  BY <1>7 DEF Restart, Session, schedulerVars, panelVars
<1>8. CASE Shutdown
  <2>1. CASE Signal
    BY <2>1 DEF Signal, SchedulerNext, panelVars, Restart
  <2>2. CASE \E c \in Callers : StopScheduler(c)
    BY <2>2 DEF StopScheduler, SchedulerNext, panelVars, Restart
  <2>3. CASE StopSession \/ Cancel \/ CloseServices
    BY <2>3 DEF StopSession, Cancel, CloseServices, schedulerVars, panelVars
  <2>4. QED
    BY <1>8, <2>1, <2>2, <2>3 DEF Shutdown
<1>9. QED
  BY <1>1, <1>2, <1>3, <1>4, <1>5, <1>6, <1>7, <1>8 DEF Next

LEMMA SchedulerTypeStep ==
    ASSUME SchedulerTypeOK, SchedulerNext
    PROVE  SchedulerTypeOK'
<1> USE DEF SchedulerTypeOK
<1>1. ASSUME NEW x \in Specs, NEW f \in Fns, Every(x, f)
      PROVE  SchedulerTypeOK'
  <2>1. <<f>> \in Seq(Fns) /\ Append(tasks[x], f) \in Seq(Fns)
    OBVIOUS
  <2>2. QED
    BY <1>1, <2>1 DEF Every
<1>2. CASE Start
  BY <1>2 DEF Start
<1>3. ASSUME NEW j \in Jobs, Fire(j)
      PROVE  SchedulerTypeOK'
  <2>1. PICK e \in entries : jobs' = [jobs EXCEPT ![j] = e]
    BY <1>3 DEF Fire
  <2>2. fires + 1 \in 0 .. MaxFires
    BY <1>3, SchedulerAssumption DEF Fire
  <2>3. QED
    BY <1>3, <2>1, <2>2 DEF Fire
<1>4. ASSUME NEW j \in Jobs, JobStep(j)
      PROVE  SchedulerTypeOK'
  <2>1. jobs[j] \in Seq(Fns) /\ jobs[j] # <<>>
    BY <1>4 DEF JobStep
  <2>2. Tail(jobs[j]) \in Seq(Fns)
    BY <2>1
  <2>3. QED
    BY <1>4, <2>2 DEF JobStep
<1>5. ASSUME NEW c \in Callers, AskStop(c) \/ StopLock(c) \/ StopReturn(c)
      PROVE  SchedulerTypeOK'
  BY <1>5 DEF AskStop, StopLock, StopReturn
<1>6. QED
  BY <1>1, <1>2, <1>3, <1>4, <1>5 DEF SchedulerNext, SchedulerStep

LEMMA StoppedInit == Init => SchedulerTypeOK /\ StoppedInv
<1> SUFFICES ASSUME Init
             PROVE  SchedulerTypeOK /\ StoppedInv
  OBVIOUS
<1>1. SchedulerInit /\ PanelInit
  BY DEF Init
<1>2. <<>> \in Seq(Fns)
  OBVIOUS
<1>3. SchedulerTypeOK
  BY <1>1, <1>2, SchedulerAssumption DEF SchedulerInit, SchedulerTypeOK
<1>4. \A r \in Requests : requests[r].pc = "none"
  BY <1>1 DEF PanelInit, NoRequest
<1>5. QED
  BY <1>1, <1>3, <1>4 DEF SchedulerInit, StoppedInv, QuietAfter, InStep

LEMMA StoppedStep ==
    ASSUME SchedulerTypeOK, StoppedInv, [Next]_vars
    PROVE  StoppedInv'
<1>1. Serve => cron # "none"
  BY DEF Serve, HttpUp, StoppedInv, InStep, RequestsHere, RequestStep, LoginStep,
    LoginRead, SetStore, SetFlag, Verify, CreateSession, Logout, ReadSession,
    LookAtExpiry, ForgetSession, ServePage
<1>2. Restart => cron # "none"
  BY DEF Restart, PanelRestarts, StoppedInv
<1>3. cron # "none" => cron' # "none"
  BY SchedulerFrame DEF SchedulerNext, SchedulerStep, Start, Every, Fire, JobStep,
    AskStop, StopLock, StopReturn, schedulerVars
<1>4. \A r \in Requests : requests'[r].pc # "none" => cron' # "none"
  BY <1>1, <1>2, <1>3, SchedulerFrame DEF StoppedInv, InStep
<1>5. \A c \in Callers : stopping'[c] # "idle" => cron' # "none"
  <2>1. CASE cron # "none"
    BY <1>3, <2>1
  <2>2. CASE cron = "none"
    <3>1. \A c \in Callers : stopping[c] = "idle"
      BY <2>2 DEF StoppedInv
    <3>2. stopping' = stopping
      BY <1>1, <2>2, <3>1, SchedulerFrame DEF StopLock, StopReturn
    <3>3. QED
      BY <3>1, <3>2
  <2>3. QED
    BY <2>1, <2>2
<1>6. ASSUME NEW c \in Callers, stopping'[c] \in {"holds", "stopped"}
      PROVE  cron' = "stopped"
  <2>1. CASE stopping[c] \in {"holds", "stopped"}
    <3>1. cron = "stopped"
      BY <2>1 DEF StoppedInv
    <3>2. QED
      BY <3>1, SchedulerFrame DEF SchedulerNext, SchedulerStep, Start, Every, Fire,
        JobStep, AskStop, StopLock, StopReturn, schedulerVars
  <2>2. CASE stopping[c] \notin {"holds", "stopped"}
    <3>1. StopLock(c)
      BY <1>6, <2>2, SchedulerFrame DEF SchedulerNext, SchedulerStep, Start, Every,
        Fire, JobStep, AskStop, StopLock, StopReturn, schedulerVars, SchedulerTypeOK
    <3>2. cron # "none"
      BY <3>1 DEF StopLock, StoppedInv
    <3>3. QED
      BY <3>1, <3>2 DEF StopLock
  <2>3. QED
    BY <2>1, <2>2
<1>7. ASSUME NEW c \in Callers, stopping'[c] = "stopped", NEW j \in Jobs
      PROVE  jobs'[j] = <<>>
  <2>1. CASE stopping[c] = "stopped"
    <3>1. jobs[j] = <<>> /\ cron = "stopped"
      BY <2>1 DEF StoppedInv, QuietAfter, Quiet
    <3>2. QED
      BY <3>1, SchedulerFrame DEF SchedulerNext, SchedulerStep, Start, Every, Fire,
        JobStep, AskStop, StopLock, StopReturn, schedulerVars, SchedulerTypeOK
  <2>2. CASE stopping[c] # "stopped"
    <3>1. StopReturn(c)
      BY <1>7, <2>2, SchedulerFrame DEF SchedulerNext, SchedulerStep, Start, Every,
        Fire, JobStep, AskStop, StopLock, StopReturn, schedulerVars, SchedulerTypeOK
    <3>2. QED
      BY <3>1 DEF StopReturn, StoppedInv
  <2>3. QED
    BY <2>1, <2>2
<1>8. QED
  BY <1>4, <1>5, <1>6, <1>7 DEF StoppedInv, QuietAfter, Quiet, InStep

LEMMA StoppedInvHolds == Spec => [](SchedulerTypeOK /\ StoppedInv)
<1>1. Init => SchedulerTypeOK /\ StoppedInv
  BY StoppedInit
<1>2. SchedulerTypeOK /\ StoppedInv /\ [Next]_vars => SchedulerTypeOK' /\ StoppedInv'
  <2>1. SchedulerTypeOK /\ UNCHANGED schedulerVars => SchedulerTypeOK'
    BY DEF SchedulerTypeOK, schedulerVars
  <2>2. QED
    BY <2>1, SchedulerFrame, SchedulerTypeStep, StoppedStep
<1>3. QED
  BY <1>1, <1>2, PTL DEF Spec

(* Once a call of Stop has returned no job of the scheduler runs, and none *)
(* will be started: the safety half of StopReturns.                        *)
THEOREM StopIsFinal == Spec => [](\A c \in Callers : QuietAfter(c))
<1>1. StoppedInv => \A c \in Callers : QuietAfter(c)
  BY DEF StoppedInv
<1>2. QED
  BY <1>1, StoppedInvHolds, PTL

-----------------------------------------------------------------------------
(* Steps of the event stream and of the log. *)

Asked == \E t \in Tellers : telling' = Ask(t) /\ UNCHANGED OtherThanTelling

ClientStep(c) ==
    \/ Connect(c, faults) \/ SetCursor(c, faults)
    \/ Push(c) \/ Receive(c) \/ Disconnect(c)

WriterStep(w) == Stamp(w, faults) \/ Insert(w, faults) \/ Commit(w, faults)

StreamNext ==
    \/ Asked
    \/ \E t \in Tellers : PublishStep(t)
    \/ \E c \in Clients : ClientStep(c)
    \/ \E w \in Writers : WriterStep(w)
    \/ CleanUpLogs

(* What is no step of the stream leaves it alone. *)
LEMMA StreamFrame ==
    ASSUME [Next]_vars
    PROVE  (StreamNext \/ UNCHANGED streamVars) /\ faults' = faults
<1>1. CASE UNCHANGED vars
  BY <1>1 DEF vars
<1>2. CASE LoopStep
  <2>1. UNCHANGED OtherThanLoop
    BY <1>2 DEF LoopStep, HandlerStep, TakeMessage, TakeGuildEvent, Route,
      RunCommand, Listen, Return, Hang, Abandon
  <2>2. LoopTeller \in Tellers /\ Slots \subseteq Tellers
    BY ServicesAssumption
  <2>3. UNCHANGED OtherThanTelling
        /\ (UNCHANGED telling \/ \E t \in Tellers : telling' = Ask(t))
    BY <1>2, <2>2 DEF LoopStep, HandlerStep, TakeMessage, TakeGuildEvent, Route,
      RunCommand, Listen, Return, Hang, Abandon, LoopTells, OtherThanTelling,
      streamVars, logVars
  <2>4. QED
    BY <2>1, <2>3 DEF OtherThanLoop, StreamNext, Asked, OtherThanTelling,
      streamVars, logVars
<1>3. CASE Edit
  BY <1>3 DEF Edit
<1>4. CASE Stream
  <2>1. UNCHANGED faults
    BY <1>4 DEF Stream, OtherThanLoop
  <2>2. QED
    BY <1>4, <2>1 DEF Stream, StreamNext, ClientStep, WriterStep
<1>5. CASE \E t \in Tellers : Publish(t)
  BY <1>5 DEF Publish, OtherThanLoop, StreamNext
<1>6. CASE Schedule \/ Serve \/ Restart \/ Session
  BY <1>6 DEF Schedule, Serve, Restart, Session, OtherThanSchedule
<1>7. CASE Cache \/ Time
  BY <1>7 DEF Cache, Time
<1>8. CASE Shutdown
  BY <1>8 DEF Shutdown, Signal, StopScheduler, StopSession, Cancel,
    CloseServices, OtherThanSchedule
<1>9. QED
  BY <1>1, <1>2, <1>3, <1>4, <1>5, <1>6, <1>7, <1>8 DEF Next

LEMMA NoClientType == NoClient \in Client
<1>1. <<>> \in Seq(Rows) /\ 0 \in 0 .. Room
  BY StreamAssumption
<1>2. QED
  BY <1>1 DEF NoClient, Client

LEMMA StreamInitInv == Init => StreamTypeOK /\ MapInv /\ LogInv
<1> SUFFICES ASSUME Init
             PROVE  StreamTypeOK /\ MapInv /\ LogInv
  OBVIOUS
<1>1. StreamInit
  BY DEF Init
<1>2. StreamTypeOK
  <2>1. clients \in [Clients -> Client]
    BY <1>1, NoClientType DEF StreamInit
  <2>2. Silent \in [pc : {"no", "asks", "sends"}, left : SUBSET Ids]
    BY DEF Silent
  <2>3. telling \in [Tellers -> [pc : {"no", "asks", "sends"}, left : SUBSET Ids]]
    BY <1>1, <2>2 DEF StreamInit
  <2>4. 0 \in 0 .. MaxLogs
    BY StreamAssumption
  <2>5. QED
    BY <1>1, <2>1, <2>3, <2>4 DEF StreamInit, StreamTypeOK
<1>3. \A c \in Clients : clients[c] = NoClient
  BY <1>1 DEF StreamInit
<1>4. ClientsSeen = {}
  BY <1>3 DEF ClientsSeen, NoClient
<1>5. MapInv
  <2>1. Cardinality(ClientsSeen) = 0
    BY <1>4, FS_EmptySet
  <2>2. \A c \in Clients : ~ Connected(c) /\ clients[c].id = 0
    BY <1>3 DEF Connected, NoClient
  <2>3. QED
    BY <1>1, <2>1, <2>2 DEF StreamInit, MapInv, MapIsExact, Silent
<1>6. Writing = {} /\ Unnumbered = {} /\ Numbered = {}
  BY <1>1 DEF StreamInit, Writing, Unnumbered, Numbered
<1>7. NumbersInv
  <2>1. IsFiniteSet(Unnumbered) /\ Cardinality(Unnumbered) = 0
    BY <1>6, FS_EmptySet
  <2>2. QED
    BY <1>1, <1>6, <2>1 DEF StreamInit, NumbersInv
<1>8. NothingLateInv /\ OneWriterInv
  BY <1>1, <1>6 DEF StreamInit, NothingLateInv, OneWriterInv
<1>9. \A c \in Clients :
        /\ clients[c].first = 0 /\ clients[c].cursor = 0 /\ clients[c].pushed = <<>>
        /\ clients[c].old = {} /\ ToSet(clients[c].pushed) = {}
  BY <1>3 DEF NoClient, ToSet
<1>10. CursorInv
  BY <1>1, <1>9 DEF CursorInv, StreamInit
<1>11. LogsShown
  BY <1>1, <1>9 DEF LogsShown, StreamExact, StreamInit, IdsOf
<1>12. QED
  BY <1>2, <1>5, <1>7, <1>8, <1>10, <1>11 DEF LogInv

-----------------------------------------------------------------------------
(* The types of the stream. *)

(* There is an id for every client that comes. *)
LEMMA ClientsAreCounted ==
    ASSUME NEW c \in Clients, clients[c].pc = "none"
    PROVE  /\ IsFiniteSet(ClientsSeen) /\ Cardinality(ClientsSeen) \in Nat
           /\ Cardinality(ClientsSeen \cup {c}) = Cardinality(ClientsSeen) + 1
           /\ Cardinality(ClientsSeen) + 1 <= Cardinality(Clients)
           /\ Cardinality(Clients) \in Nat
<1>1. ClientsSeen \subseteq Clients /\ c \notin ClientsSeen
  BY DEF ClientsSeen
<1>2. IsFiniteSet(ClientsSeen) /\ IsFiniteSet(Clients)
  BY <1>1, FS_Subset, StreamAssumption
<1>3. Cardinality(ClientsSeen) \in Nat /\ Cardinality(Clients) \in Nat
  BY <1>2, FS_CardinalityType
<1>4. IsFiniteSet(ClientsSeen \cup {c})
      /\ Cardinality(ClientsSeen \cup {c}) = Cardinality(ClientsSeen) + 1
  BY <1>1, <1>2, FS_AddElement
<1>5. Cardinality(ClientsSeen \cup {c}) <= Cardinality(Clients)
  BY <1>1, <1>2, FS_Subset
<1>6. QED
  BY <1>2, <1>3, <1>4, <1>5

(* The time in nanoseconds goes on, or is what it was. *)
LEMMA InstantsGiven ==
    ASSUME NEW c \in Clients, Connect(c, faults)
    PROVE  instant' = instant + 1 \/ (instant' = instant /\ instant > 0)
<1>1. CASE "sameInstant" \in faults /\ instant > 0
  BY <1>1 DEF Connect
<1>2. CASE ~ ("sameInstant" \in faults /\ instant > 0)
  <2>1. instant' \in {instant + 1} \cup {}
    BY <1>2 DEF Connect
  <2>2. QED
    BY <2>1
<1>3. QED
  BY <1>1, <1>2

(* The rows that can be seen have ids. *)
LEMMA SeenIds ==
    ASSUME StreamTypeOK, LogInv
    PROVE  IdsOf(logs) \subseteq Rows
BY StreamAssumption DEF LogInv, NumbersInv, StreamTypeOK, Row, IdsOf, Rows

(* What SetCursor makes of a client. *)
LEMMA CursorMade ==
    ASSUME StreamTypeOK, IdsOf(logs) \subseteq Rows,
           NEW c \in Clients, SetCursor(c, faults)
    PROVE  \E q \in Client :
             /\ clients' = [clients EXCEPT ![c] = q]
             /\ q.pc = "streaming" /\ q.id = clients[c].id
             /\ q.pushed = clients[c].pushed /\ q.old = IdsOf(logs)
             /\ \/ \E r \in logs :
                     /\ \A x \in logs : x.at <= r.at
                     /\ q.first = r.id /\ q.cursor = r.id
                \/ /\ q.first = clients[c].first /\ q.cursor = clients[c].cursor
                   /\ "readError" \in faults \/ \A r \in logs : \E x \in logs : ~ (x.at <= r.at)
<1>1. clients \in [Clients -> Client] /\ clients[c] \in Client
  BY DEF StreamTypeOK
<1> DEFINE newest == {r \in logs : \A x \in logs : x.at <= r.at}
<1>2. CASE \E r \in newest :
             clients' = [clients EXCEPT ![c].pc = "streaming",
                             ![c].cursor = r.id, ![c].first = r.id,
                             ![c].old = IdsOf(logs)]
  <2>1. PICK r \in newest :
          clients' = [clients EXCEPT ![c].pc = "streaming",
                          ![c].cursor = r.id, ![c].first = r.id,
                          ![c].old = IdsOf(logs)]
    BY <1>2
  <2> DEFINE q == [clients[c] EXCEPT !.pc = "streaming", !.cursor = r.id,
                                     !.first = r.id, !.old = IdsOf(logs)]
  <2>2. r.id \in Rows
    BY DEF IdsOf
  <2>3. /\ q \in Client
        /\ q.pc = "streaming" /\ q.id = clients[c].id
        /\ q.pushed = clients[c].pushed /\ q.old = IdsOf(logs)
        /\ q.first = r.id /\ q.cursor = r.id
    BY <1>1, <2>2 DEF Client
  <2>4. clients' = [clients EXCEPT ![c] = q]
    BY <1>1, <2>1
  <2>5. QED
    BY <2>3, <2>4
<1>3. CASE /\ newest = {} \/ "readError" \in faults
           /\ clients' = [clients EXCEPT ![c].pc = "streaming", ![c].old = IdsOf(logs)]
  <2> DEFINE q == [clients[c] EXCEPT !.pc = "streaming", !.old = IdsOf(logs)]
  <2>1. /\ q \in Client
        /\ q.pc = "streaming" /\ q.id = clients[c].id
        /\ q.pushed = clients[c].pushed /\ q.old = IdsOf(logs)
        /\ q.first = clients[c].first /\ q.cursor = clients[c].cursor
    BY <1>1 DEF Client
  <2>2. clients' = [clients EXCEPT ![c] = q]
    BY <1>1, <1>3
  <2>3. "readError" \in faults \/ \A r \in logs : \E x \in logs : ~ (x.at <= r.at)
    BY <1>3
  <2>4. QED
    BY <2>1, <2>2, <2>3
<1>4. QED
  BY <1>2, <1>3 DEF SetCursor

(* What Push makes of a client. *)
LEMMA PushMade ==
    ASSUME StreamTypeOK, IdsOf(logs) \subseteq Rows,
           NEW c \in Clients, Push(c)
    PROVE  \E n \in 1 .. Batch : \E sent \in [1 .. n -> New(c)] : \E q \in Client :
             /\ Sends(c, n, sent)
             /\ clients' = [clients EXCEPT ![c] = q]
             /\ q.pc = "streaming" /\ q.id = clients[c].id
             /\ q.pushed = clients[c].pushed \o sent /\ q.old = clients[c].old
             /\ q.cursor = sent[n] /\ q.first = clients[c].first
<1>1. clients \in [Clients -> Client] /\ clients[c] \in Client
      /\ clients[c].pc = "streaming"
  BY DEF StreamTypeOK, Push
<1>2. New(c) \subseteq Rows
  BY DEF New
<1>3. PICK n \in 1 .. Batch : \E sent \in [1 .. n -> New(c)] :
        /\ Sends(c, n, sent)
        /\ clients' = [clients EXCEPT ![c].cursor = sent[n],
                                      ![c].pushed = @ \o sent]
  BY DEF Push
<1>4. PICK sent \in [1 .. n -> New(c)] :
        /\ Sends(c, n, sent)
        /\ clients' = [clients EXCEPT ![c].cursor = sent[n],
                                      ![c].pushed = @ \o sent]
  BY <1>3
<1>5. n \in Nat /\ n \in 1 .. n
  BY StreamAssumption
<1>6. sent[n] \in Rows /\ sent \in Seq(Rows)
  BY <1>2, <1>5
<1>7. clients[c].pushed \in Seq(Rows)
  BY <1>1 DEF Client
<1> DEFINE pushed == clients[c].pushed \o sent
           q == [clients[c] EXCEPT !.cursor = sent[n], !.pushed = pushed]
<1>8. pushed \in Seq(Rows)
  BY <1>6, <1>7
<1>9. clients' = [clients EXCEPT ![c] = q]
  BY <1>1, <1>4
<1> HIDE DEF pushed
<1>10. /\ q \in Client
       /\ q.pc = "streaming" /\ q.id = clients[c].id
       /\ q.pushed = pushed /\ q.old = clients[c].old
       /\ q.cursor = sent[n] /\ q.first = clients[c].first
  BY <1>1, <1>6, <1>8 DEF Client
<1> HIDE DEF q
<1>11. QED
  BY <1>4, <1>9, <1>10 DEF pushed

(* Each action of a client, by the record it makes of it. *)
LEMMA ClientTypes ==
    ASSUME StreamTypeOK, MapInv, LogInv, NEW c \in Clients, ClientStep(c)
    PROVE  StreamTypeOK'
<1>1. /\ clients \in [Clients -> Client]
      /\ registered \in [Ids -> Clients \cup {Nobody}]
      /\ instant \in Ids \cup {0}
      /\ clients[c] \in Client
  BY DEF StreamTypeOK
<1>2. UNCHANGED <<telling, logs, stamps, lastId, writers, panics>>
  BY DEF ClientStep, Connect, SetCursor, Push, Receive, Disconnect, logVars
<1>3. IdsOf(logs) \subseteq Rows
  BY SeenIds
<1>4. CASE Connect(c, faults)
  <2>1. instant' \in Ids
    <3>1. clients[c].pc = "none"
      BY <1>4 DEF Connect
    <3>2. CASE instant' = instant + 1
      <4>1. instant \in Nat /\ instant <= Cardinality(ClientsSeen)
        <5>1. Cardinality(Clients) \in Nat
          BY <3>1, ClientsAreCounted
        <5>2. QED
          BY <1>1, <5>1 DEF Ids, MapInv
      <4>2. Cardinality(ClientsSeen) \in Nat /\ Cardinality(Clients) \in Nat
            /\ Cardinality(ClientsSeen) + 1 <= Cardinality(Clients)
        BY <3>1, ClientsAreCounted
      <4>3. QED
        BY <3>2, <4>1, <4>2 DEF Ids
    <3>3. CASE instant' = instant /\ instant > 0
      BY <1>1, <3>3 DEF Ids
    <3>4. QED
      BY <1>4, <3>2, <3>3, InstantsGiven
  <2>2. [NoClient EXCEPT !.pc = "opening", !.id = instant'] \in Client
    BY <2>1, NoClientType DEF Client, NoClient
  <2>3. clients' = [clients EXCEPT ![c] =
                       [NoClient EXCEPT !.pc = "opening", !.id = instant']]
        /\ registered' = [registered EXCEPT ![instant'] = c]
    BY <1>4 DEF Connect
  <2>4. QED
    BY <1>1, <1>2, <2>1, <2>2, <2>3 DEF StreamTypeOK
<1>5. CASE ~ Connect(c, faults)
  <2>1. PICK q \in Client : clients' = [clients EXCEPT ![c] = q]
    <3>1. CASE SetCursor(c, faults)
      BY <1>3, <3>1, CursorMade
    <3>2. CASE Push(c)
      BY <1>3, <3>2, PushMade
    <3>3. CASE Receive(c)
      <4> DEFINE q == [clients[c] EXCEPT !.holds = clients[c].holds - 1]
      <4>1. clients[c].holds - 1 \in 0 .. Room
        BY <1>1, <3>3, StreamAssumption DEF Receive, Client
      <4>2. q \in Client
        BY <1>1, <4>1 DEF Client
      <4>3. clients' = [clients EXCEPT ![c] = q]
        BY <1>1, <3>3 DEF Receive
      <4>4. QED
        BY <4>2, <4>3
    <3>4. CASE Disconnect(c)
      <4> DEFINE q == [clients[c] EXCEPT !.pc = "gone"]
      <4>1. q \in Client
        BY <1>1 DEF Client
      <4>2. clients' = [clients EXCEPT ![c] = q]
        BY <1>1, <3>4 DEF Disconnect
      <4>3. QED
        BY <4>1, <4>2
    <3>5. QED
      BY <1>5, <3>1, <3>2, <3>3, <3>4 DEF ClientStep
  <2>2. clients' \in [Clients -> Client]
    BY <1>1, <2>1
  <2>3. instant' = instant /\ registered' \in [Ids -> Clients \cup {Nobody}]
    BY <1>1, <1>5 DEF ClientStep, SetCursor, Push, Receive, Disconnect
  <2>4. QED
    BY <1>1, <1>2, <2>2, <2>3 DEF StreamTypeOK
<1>6. QED
  BY <1>4, <1>5

LEMMA TellerTypes ==
    ASSUME StreamTypeOK, MapInv,
           Asked \/ \E t \in Tellers : PublishStep(t)
    PROVE  StreamTypeOK'
<1> DEFINE Calls == [pc : {"no", "asks", "sends"}, left : SUBSET Ids]
<1>1. /\ clients \in [Clients -> Client]
      /\ registered \in [Ids -> Clients \cup {Nobody}]
      /\ telling \in [Tellers -> Calls]
      /\ panics \in BOOLEAN
  BY DEF StreamTypeOK
<1>2. CASE Asked
  <2>1. [pc |-> "asks", left |-> {}] \in Calls
    OBVIOUS
  <2>2. telling' \in [Tellers -> Calls]
    BY <1>1, <1>2, <2>1 DEF Asked, Ask
  <2>3. UNCHANGED <<clients, registered, instant, logs, writers, stamps, lastId, panics>>
    BY <1>2 DEF Asked, OtherThanTelling, logVars
  <2>4. QED
    BY <2>2, <2>3 DEF StreamTypeOK
<1>3. ASSUME NEW t \in Tellers, LockMap(t) \/ Told(t)
      PROVE  StreamTypeOK'
  <2>1. [pc |-> "sends", left |-> {i \in Ids : registered[i] # Nobody}] \in Calls
        /\ Silent \in Calls
    BY DEF Silent
  <2>2. telling' \in [Tellers -> Calls]
    BY <1>1, <1>3, <2>1 DEF LockMap, Told
  <2>3. UNCHANGED <<clients, registered, instant, logs, writers, stamps, lastId, panics>>
    BY <1>3 DEF LockMap, Told, logVars
  <2>4. QED
    BY <2>2, <2>3 DEF StreamTypeOK
<1>4. ASSUME NEW t \in Tellers, NEW i \in Ids, Offer(t, i)
      PROVE  StreamTypeOK'
  <2> DEFINE c == registered[i]
             holds == IF clients[c].holds < Room THEN clients[c].holds + 1
                      ELSE clients[c].holds
             q == [clients[c] EXCEPT !.holds = holds]
             call == [telling[t] EXCEPT !.left = telling[t].left \ {i}]
  <2>1. c \in Clients
    BY <1>1, <1>4 DEF Offer, MapInv
  <2>2. holds \in 0 .. Room
    BY <1>1, <2>1, StreamAssumption DEF Client
  <2>3. clients' = [clients EXCEPT ![c] = q]
    BY <1>1, <1>4, <2>1 DEF Offer
  <2> HIDE DEF holds, c
  <2>4. q \in Client
    BY <1>1, <2>1, <2>2 DEF Client
  <2>5. call \in Calls
    BY <1>1
  <2>6. telling' = [telling EXCEPT ![t] = call]
    BY <1>1, <1>4 DEF Offer
  <2>7. panics' \in BOOLEAN
    BY <1>4 DEF Offer
  <2> HIDE DEF q, call
  <2>8. clients' \in [Clients -> Client] /\ telling' \in [Tellers -> Calls]
    BY <1>1, <2>1, <2>3, <2>4, <2>5, <2>6
  <2>9. UNCHANGED <<registered, instant, logs, writers, stamps, lastId>>
    BY <1>4 DEF Offer, logVars
  <2>10. QED
    BY <2>7, <2>8, <2>9 DEF StreamTypeOK
<1>5. QED
  BY <1>2, <1>3, <1>4 DEF PublishStep

(* There is an id for every row that was given a time. *)
LEMMA RowsAreCounted ==
    ASSUME StreamTypeOK, NumbersInv, NEW w \in Unnumbered
    PROVE  /\ lastId + 1 \in Rows /\ lastId + 1 <= stamps
           /\ IsFiniteSet(Unnumbered \ {w})
           /\ lastId + 1 + Cardinality(Unnumbered \ {w}) <= stamps
<1>1. IsFiniteSet(Unnumbered) /\ lastId + Cardinality(Unnumbered) <= stamps
  BY DEF NumbersInv
<1>2. IsFiniteSet(Unnumbered \ {w})
      /\ Cardinality(Unnumbered \ {w}) = Cardinality(Unnumbered) - 1
  BY <1>1, FS_RemoveElement
<1>3. Cardinality(Unnumbered) \in Nat /\ Cardinality(Unnumbered \ {w}) \in Nat
  BY <1>1, <1>2, FS_CardinalityType
<1>4. lastId \in 0 .. MaxLogs /\ stamps \in 0 .. MaxLogs
  BY DEF StreamTypeOK
<1>5. QED
  BY <1>1, <1>2, <1>3, <1>4, StreamAssumption DEF Rows

LEMMA LogTypes ==
    ASSUME StreamTypeOK, NumbersInv,
           CleanUpLogs \/ \E w \in Writers : WriterStep(w)
    PROVE  StreamTypeOK'
<1>1. /\ writers \in [Writers -> Row \cup {Nobody}]
      /\ stamps \in 0 .. MaxLogs /\ lastId \in 0 .. MaxLogs
      /\ logs \subseteq Row
  BY DEF StreamTypeOK
<1>2. UNCHANGED <<clients, registered, instant, telling, panics>>
  BY DEF CleanUpLogs, WriterStep, Stamp, Insert, Commit
<1>3. CASE CleanUpLogs
  <2>1. logs' \subseteq logs /\ UNCHANGED <<writers, stamps, lastId>>
    BY <1>3 DEF CleanUpLogs
  <2>2. QED
    BY <1>1, <1>2, <2>1 DEF StreamTypeOK
<1>4. ASSUME NEW w \in Writers, Stamp(w, faults)
      PROVE  StreamTypeOK'
  <2>1. stamps + 1 \in Rows /\ stamps + 1 \in 0 .. MaxLogs
    BY <1>1, <1>4, StreamAssumption DEF Stamp, Rows
  <2>2. [id |-> 0, at |-> stamps + 1] \in Row
    BY <2>1 DEF Row
  <2>3. writers' \in [Writers -> Row \cup {Nobody}]
        /\ stamps' = stamps + 1 /\ UNCHANGED <<logs, lastId>>
    BY <1>1, <1>4, <2>2 DEF Stamp
  <2>4. QED
    BY <1>1, <1>2, <2>1, <2>3 DEF StreamTypeOK
<1>5. ASSUME NEW w \in Writers, Insert(w, faults)
      PROVE  StreamTypeOK'
  <2> DEFINE row == [writers[w] EXCEPT !.id = lastId + 1]
  <2>1. w \in Unnumbered /\ writers[w] \in Row
    BY <1>1, <1>5 DEF Insert, Unnumbered, Writing
  <2>2. lastId + 1 \in Rows /\ lastId + 1 \in 0 .. MaxLogs
    <3>1. lastId + 1 \in Rows
      BY <2>1, RowsAreCounted
    <3>2. QED
      BY <3>1 DEF Rows
  <2>3. row \in Row
    BY <2>1, <2>2 DEF Row
  <2>4. UNCHANGED <<logs, stamps>>
        /\ \/ writers' = [writers EXCEPT ![w] = row] /\ lastId' = lastId + 1
           \/ writers' = [writers EXCEPT ![w] = Nobody] /\ lastId' = lastId
    BY <1>1, <1>5 DEF Insert
  <2> HIDE DEF row
  <2>5. writers' \in [Writers -> Row \cup {Nobody}] /\ lastId' \in 0 .. MaxLogs
    BY <1>1, <2>2, <2>3, <2>4
  <2>6. QED
    BY <1>1, <1>2, <2>4, <2>5 DEF StreamTypeOK
<1>6. ASSUME NEW w \in Writers, Commit(w, faults)
      PROVE  StreamTypeOK'
  <2>1. logs' = logs \cup {writers[w]} /\ writers[w] \in Row
    BY <1>1, <1>6 DEF Commit
  <2>2. writers' \in [Writers -> Row \cup {Nobody}] /\ UNCHANGED <<stamps, lastId>>
    BY <1>1, <1>6 DEF Commit
  <2>3. QED
    BY <1>1, <1>2, <2>1, <2>2 DEF StreamTypeOK
<1>7. QED
  BY <1>3, <1>4, <1>5, <1>6 DEF WriterStep

LEMMA StreamTypeStep ==
    ASSUME StreamTypeOK, MapInv, LogInv, [Next]_vars
    PROVE  StreamTypeOK'
<1>1. CASE StreamNext
  BY <1>1, ClientTypes, TellerTypes, LogTypes DEF StreamNext, LogInv
<1>2. CASE UNCHANGED streamVars
  BY <1>2 DEF streamVars, StreamTypeOK
<1>3. QED
  BY <1>1, <1>2, StreamFrame

-----------------------------------------------------------------------------
(* The map of clients. *)

(* A step that neither registers a client nor takes one away. *)
LEMMA SameMap ==
    ASSUME MapInv,
           UNCHANGED <<registered, instant, panics>>,
           \A c \in Clients :
             /\ clients'[c].id = clients[c].id
             /\ Connected(c)' <=> Connected(c)
             /\ clients'[c].pc = "none" <=> clients[c].pc = "none",
           \A t \in Tellers : telling'[t].pc = "sends" =>
             \A i \in telling'[t].left : registered[i] # Nobody,
           registered \in [Ids -> Clients \cup {Nobody}]
    PROVE  MapInv'
<1>1. ClientsSeen' = ClientsSeen
  BY DEF ClientsSeen
<1>2. MapIsExact'
  BY DEF MapInv, MapIsExact
<1>3. QED
  BY <1>1, <1>2 DEF MapInv

LEMMA TellersKeepMap ==
    ASSUME StreamTypeOK, MapInv,
           Asked \/ \E t \in Tellers : PublishStep(t)
    PROVE  MapInv'
<1>1. /\ clients \in [Clients -> Client]
      /\ registered \in [Ids -> Clients \cup {Nobody}]
      /\ telling \in [Tellers -> [pc : {"no", "asks", "sends"}, left : SUBSET Ids]]
      /\ panics = FALSE
      /\ \A t \in Tellers : telling[t].pc = "sends" =>
           \A i \in telling[t].left : registered[i] # Nobody
  BY DEF StreamTypeOK, MapInv, MapIsExact
<1>2. CASE Asked
  <2>1. UNCHANGED <<clients, registered, instant, panics>>
    BY <1>2 DEF Asked, OtherThanTelling
  <2>2. PICK t \in Tellers : telling' = [telling EXCEPT ![t] = [pc |-> "asks", left |-> {}]]
    BY <1>2 DEF Asked, Ask
  <2>3. \A x \in Tellers : telling'[x].pc = "sends" =>
          \A i \in telling'[x].left : registered[i] # Nobody
    BY <1>1, <2>2
  <2>4. QED
    BY <1>1, <2>1, <2>3, SameMap DEF Connected
<1>3. ASSUME NEW t \in Tellers, LockMap(t) \/ Told(t)
      PROVE  MapInv'
  <2>1. UNCHANGED <<clients, registered, instant, panics>>
    BY <1>3 DEF LockMap, Told
  <2>2. \A x \in Tellers : telling'[x].pc = "sends" =>
          \A i \in telling'[x].left : registered[i] # Nobody
    BY <1>1, <1>3 DEF LockMap, Told, Silent
  <2>3. QED
    BY <1>1, <2>1, <2>2, SameMap DEF Connected
<1>4. ASSUME NEW t \in Tellers, NEW i \in Ids, Offer(t, i)
      PROVE  MapInv'
  <2> DEFINE c == registered[i]
             holds == IF clients[c].holds < Room THEN clients[c].holds + 1
                      ELSE clients[c].holds
             q == [clients[c] EXCEPT !.holds = holds]
  <2>1. c # Nobody /\ c \in Clients
    BY <1>1, <1>4 DEF Offer
  <2>2. Connected(c)
    BY <2>1 DEF MapInv, MapIsExact
  <2>3. clients' = [clients EXCEPT ![c] = q]
        /\ panics' = (panics \/ ~ Connected(c))
    BY <1>1, <1>4, <2>1 DEF Offer
  <2>4. UNCHANGED <<registered, instant, panics>>
    BY <1>1, <1>4, <2>2, <2>3 DEF Offer
  <2> HIDE DEF holds, c
  <2>5. q.pc = clients[c].pc /\ q.id = clients[c].id
    BY <1>1, <2>1 DEF Client
  <2> HIDE DEF q
  <2>6. \A d \in Clients : clients'[d].pc = clients[d].pc /\ clients'[d].id = clients[d].id
    BY <1>1, <2>1, <2>3, <2>5
  <2>7. \A d \in Clients : Connected(d)' <=> Connected(d)
    BY <2>6 DEF Connected
  <2>8. telling' = [telling EXCEPT ![t].left = @ \ {i}]
    BY <1>4 DEF Offer
  <2>9. \A x \in Tellers :
          telling'[x].pc = telling[x].pc /\ telling'[x].left \subseteq telling[x].left
    BY <1>1, <2>8
  <2>10. \A x \in Tellers : telling'[x].pc = "sends" =>
           \A k \in telling'[x].left : registered[k] # Nobody
    BY <1>1, <2>9
  <2>11. QED
    BY <1>1, <2>4, <2>6, <2>7, <2>10, SameMap
<1>5. QED
  BY <1>2, <1>3, <1>4 DEF PublishStep

LEMMA ConnectKeepsMap ==
    ASSUME StreamTypeOK, MapInv, NEW c \in Clients, Connect(c, faults),
           instant' \in Ids
    PROVE  MapInv'
<1>1. /\ clients \in [Clients -> Client]
      /\ registered \in [Ids -> Clients \cup {Nobody}]
      /\ telling \in [Tellers -> [pc : {"no", "asks", "sends"}, left : SUBSET Ids]]
      /\ instant \in Nat
  BY DEF StreamTypeOK, Ids
<1> DEFINE q == [NoClient EXCEPT !.pc = "opening", !.id = instant']
<1>2. /\ clients[c].pc = "none" /\ Unread
      /\ clients' = [clients EXCEPT ![c] = q]
      /\ registered' = [registered EXCEPT ![instant'] = c]
      /\ UNCHANGED <<telling, panics>>
  BY DEF Connect
<1>3. q.pc = "opening" /\ q.id = instant'
  BY DEF NoClient
<1> HIDE DEF q
<1>4. /\ clients'[c] = q
      /\ \A d \in Clients \ {c} : clients'[d] = clients[d]
      /\ registered'[instant'] = c
      /\ \A i \in Ids \ {instant'} : registered'[i] = registered[i]
  BY <1>1, <1>2
<1>5. instant' \in Nat /\ instant' >= 1 /\ (instant' = instant \/ instant' = instant + 1)
  BY <1>1, InstantsGiven DEF Ids
<1>6. /\ ~ panics
      /\ \A i \in Ids : registered[i] # Nobody =>
           Connected(registered[i]) /\ clients[registered[i]].id = i
      /\ \A d \in Clients : Connected(d) =>
           \/ registered[clients[d].id] = d
           \/ \E e \in Clients \ {d} : clients[e].id = clients[d].id
      /\ \A d \in Clients :
           /\ clients[d].pc = "none" => clients[d].id = 0
           /\ Connected(d) => clients[d].id \in 1 .. instant
  BY DEF MapInv, MapIsExact
<1>7. Connected(c)' /\ ~ Connected(c)
      /\ \A d \in Clients \ {c} : Connected(d)' <=> Connected(d)
  BY <1>2, <1>3, <1>4 DEF Connected
<1>8. ASSUME NEW i \in Ids, registered'[i] # Nobody
      PROVE  Connected(registered[i])' /\ clients'[registered'[i]].id = i
  <2>1. CASE i = instant'
    BY <1>3, <1>4, <1>7, <2>1
  <2>2. CASE i # instant'
    <3>1. registered'[i] = registered[i] /\ registered[i] \in Clients
      BY <1>1, <1>4, <1>8, <2>2
    <3>2. Connected(registered[i]) /\ clients[registered[i]].id = i
      BY <1>6, <1>8, <3>1
    <3>3. registered[i] # c
      BY <1>7, <3>2
    <3>4. QED
      BY <1>4, <1>7, <3>1, <3>2, <3>3
  <2>3. QED
    BY <2>1, <2>2
<1>9. ASSUME NEW d \in Clients, Connected(d)'
      PROVE  \/ registered'[clients'[d].id] = d
             \/ \E e \in Clients \ {d} : clients'[e].id = clients'[d].id
  <2>1. CASE d = c
    BY <1>3, <1>4, <2>1
  <2>2. CASE d # c
    <3>1. Connected(d) /\ clients'[d] = clients[d] /\ clients[d].id \in 1 .. instant
      BY <1>4, <1>6, <1>7, <1>9, <2>2
    <3>2. CASE clients[d].id = instant'
      BY <1>3, <1>4, <2>2, <3>1, <3>2
    <3>3. CASE clients[d].id # instant' /\ registered[clients[d].id] = d
      <4>1. clients[d].id \in Ids
        BY <1>1, <3>1 DEF Client
      <4>2. QED
        BY <1>4, <3>1, <3>3, <4>1
    <3>4. CASE \E e \in Clients \ {d} : clients[e].id = clients[d].id
      <4>1. PICK e \in Clients \ {d} : clients[e].id = clients[d].id
        BY <3>4
      <4>2. e # c
        BY <1>2, <1>6, <3>1, <4>1
      <4>3. QED
        BY <1>4, <3>1, <4>1, <4>2
    <3>5. QED
      BY <1>6, <3>1, <3>2, <3>3, <3>4
  <2>3. QED
    BY <2>1, <2>2
<1>10. instant' <= Cardinality(ClientsSeen')
  <2>1. ClientsSeen' = ClientsSeen \cup {c}
    BY <1>3, <1>4 DEF ClientsSeen
  <2>2. Cardinality(ClientsSeen \cup {c}) = Cardinality(ClientsSeen) + 1
        /\ Cardinality(ClientsSeen) \in Nat
    BY <1>2, ClientsAreCounted
  <2>3. instant <= Cardinality(ClientsSeen)
    BY DEF MapInv
  <2>4. QED
    BY <1>1, <1>5, <2>1, <2>2, <2>3
<1>11. \A d \in Clients :
         /\ clients'[d].pc = "none" => clients'[d].id = 0
         /\ Connected(d)' => clients'[d].id \in 1 .. instant'
  BY <1>1, <1>3, <1>4, <1>5, <1>6, <1>7
<1>12. \A t \in Tellers : telling'[t].pc = "sends" =>
         \A i \in telling'[t].left : registered'[i] # Nobody
  BY <1>2 DEF Unread
<1>13. QED
  BY <1>2, <1>6, <1>8, <1>9, <1>10, <1>11, <1>12 DEF MapInv, MapIsExact

LEMMA DisconnectKeepsMap ==
    ASSUME StreamTypeOK, MapInv, NEW c \in Clients, Disconnect(c)
    PROVE  MapInv'
<1>1. /\ clients \in [Clients -> Client]
      /\ registered \in [Ids -> Clients \cup {Nobody}]
  BY DEF StreamTypeOK
<1> DEFINE q == [clients[c] EXCEPT !.pc = "gone"]
           n == clients[c].id
<1>2. /\ clients[c].pc = "streaming" /\ Unread
      /\ clients' = [clients EXCEPT ![c] = q]
      /\ registered' = [registered EXCEPT ![n] = Nobody]
      /\ UNCHANGED <<telling, instant, panics>>
  BY <1>1 DEF Disconnect
<1>3. q.pc = "gone" /\ q.id = n
  BY <1>1 DEF Client
<1> HIDE DEF q, n
<1>4. /\ clients'[c] = q
      /\ \A d \in Clients \ {c} : clients'[d] = clients[d]
      /\ \A i \in Ids : registered'[i] = IF i = n THEN Nobody ELSE registered[i]
      /\ \A d \in Clients : clients'[d].id = clients[d].id
  BY <1>1, <1>2, <1>3 DEF n
<1>5. /\ ~ panics
      /\ \A i \in Ids : registered[i] # Nobody =>
           Connected(registered[i]) /\ clients[registered[i]].id = i
      /\ \A d \in Clients : Connected(d) =>
           \/ registered[clients[d].id] = d
           \/ \E e \in Clients \ {d} : clients[e].id = clients[d].id
      /\ \A d \in Clients :
           /\ clients[d].pc = "none" => clients[d].id = 0
           /\ Connected(d) => clients[d].id \in 1 .. instant
  BY DEF MapInv, MapIsExact
<1>6. ~ Connected(c)' /\ \A d \in Clients \ {c} : Connected(d)' <=> Connected(d)
  BY <1>2, <1>3, <1>4 DEF Connected
<1>7. ASSUME NEW i \in Ids, registered'[i] # Nobody
      PROVE  Connected(registered[i])' /\ clients'[registered'[i]].id = i
  <2>1. i # n /\ registered'[i] = registered[i] /\ registered[i] \in Clients
    BY <1>1, <1>4, <1>7
  <2>2. Connected(registered[i]) /\ clients[registered[i]].id = i
    BY <1>5, <1>7, <2>1
  <2>3. registered[i] # c
    BY <2>1, <2>2 DEF n
  <2>4. QED
    BY <1>4, <1>6, <2>1, <2>2, <2>3
<1>8. ASSUME NEW d \in Clients, Connected(d)'
      PROVE  \/ registered'[clients'[d].id] = d
             \/ \E e \in Clients \ {d} : clients'[e].id = clients'[d].id
  <2>1. d # c /\ Connected(d) /\ clients'[d].id = clients[d].id
    BY <1>4, <1>6, <1>8
  <2>2. CASE clients[d].id = n
    BY <1>4, <2>1, <2>2 DEF n
  <2>3. CASE clients[d].id # n /\ registered[clients[d].id] = d
    <3>1. clients[d].id \in Ids
      BY <1>1, <1>5, <2>1 DEF Client
    <3>2. QED
      BY <1>4, <2>1, <2>3, <3>1
  <2>4. CASE \E e \in Clients \ {d} : clients[e].id = clients[d].id
    BY <1>4, <2>1, <2>4
  <2>5. QED
    BY <1>5, <2>1, <2>2, <2>3, <2>4
<1>9. ClientsSeen' = ClientsSeen
  BY <1>2, <1>3, <1>4 DEF ClientsSeen
<1>10. \A d \in Clients :
         /\ clients'[d].pc = "none" => clients'[d].id = 0
         /\ Connected(d)' => clients'[d].id \in 1 .. instant'
  BY <1>2, <1>3, <1>4, <1>5, <1>6
<1>11. \A t \in Tellers : telling'[t].pc = "sends" =>
         \A i \in telling'[t].left : registered'[i] # Nobody
  BY <1>2 DEF Unread
<1>12. QED
  BY <1>2, <1>5, <1>7, <1>8, <1>9, <1>10, <1>11 DEF MapInv, MapIsExact

LEMMA MapInvStep ==
    ASSUME StreamTypeOK, StreamTypeOK', MapInv, LogInv, [Next]_vars
    PROVE  MapInv'
<1>1. /\ IdsOf(logs) \subseteq Rows
      /\ clients \in [Clients -> Client]
      /\ registered \in [Ids -> Clients \cup {Nobody}]
      /\ \A t \in Tellers : telling[t].pc = "sends" =>
           \A i \in telling[t].left : registered[i] # Nobody
  BY SeenIds DEF StreamTypeOK, MapInv
<1>2. ASSUME NEW c \in Clients, SetCursor(c, faults) \/ Push(c) \/ Receive(c)
      PROVE  MapInv'
  <2>1. UNCHANGED <<registered, instant, telling, panics>>
    BY <1>2 DEF SetCursor, Push, Receive
  <2>2. \A d \in Clients : d # c => clients'[d] = clients[d]
    BY <1>1, <1>2 DEF SetCursor, Push, Receive
  <2>3. clients[c].pc \in {"opening", "streaming"}
    BY <1>2 DEF SetCursor, Push, Receive
  <2>4. clients'[c].pc = "streaming" /\ clients'[c].id = clients[c].id
    <3>1. CASE SetCursor(c, faults)
      BY <1>1, <3>1, CursorMade
    <3>2. CASE Push(c)
      BY <1>1, <3>2, PushMade
    <3>3. CASE Receive(c)
      BY <1>1, <3>3 DEF Receive, Client
    <3>4. QED
      BY <1>2, <3>1, <3>2, <3>3
  <2>5. \A d \in Clients :
          /\ clients'[d].id = clients[d].id
          /\ Connected(d)' <=> Connected(d)
          /\ clients'[d].pc = "none" <=> clients[d].pc = "none"
    BY <2>2, <2>3, <2>4 DEF Connected
  <2>6. QED
    BY <1>1, <2>1, <2>5, SameMap
<1>3. ASSUME NEW c \in Clients, Connect(c, faults)
      PROVE  MapInv'
  <2>1. instant' \in Ids \cup {0} /\ instant \in Ids \cup {0}
    BY DEF StreamTypeOK
  <2>2. instant' # 0
    BY <1>3, <2>1, InstantsGiven DEF Ids
  <2>3. QED
    BY <1>3, <2>1, <2>2, ConnectKeepsMap
<1>4. ASSUME CleanUpLogs \/ \E w \in Writers : WriterStep(w)
      PROVE  MapInv'
  <2>1. UNCHANGED <<clients, registered, instant, telling, panics>>
    BY <1>4 DEF CleanUpLogs, WriterStep, Stamp, Insert, Commit
  <2>2. QED
    BY <1>1, <2>1, SameMap DEF Connected
<1>5. CASE StreamNext
  BY <1>2, <1>3, <1>4, <1>5, TellersKeepMap, DisconnectKeepsMap
    DEF StreamNext, ClientStep
<1>6. CASE UNCHANGED streamVars
  BY <1>1, <1>6, SameMap DEF streamVars, Connected
<1>7. QED
  BY <1>5, <1>6, StreamFrame

-----------------------------------------------------------------------------
(* The log: what writers do. *)

LEMMA LogFacts ==
    ASSUME StreamTypeOK
    PROVE  /\ Rows \subseteq Nat
           /\ lastId \in Nat /\ stamps \in Nat
           /\ \A r \in logs : r \in Row /\ r.id \in Nat /\ r.at \in Nat
           /\ \A w \in Writing :
                writers[w] \in Row /\ writers[w].id \in Nat /\ writers[w].at \in Nat
           /\ \A c \in Clients :
                /\ clients[c].cursor \in Nat /\ clients[c].first \in Nat
                /\ clients[c].old \subseteq Rows /\ clients[c].pushed \in Seq(Rows)
<1>1. Rows \subseteq Nat
  BY StreamAssumption DEF Rows
<1>2. lastId \in Nat /\ stamps \in Nat
  BY DEF StreamTypeOK
<1>3. \A r \in Row : r.id \in Nat /\ r.at \in Nat
  <2>1. \A r \in Row : r.id \in Rows \cup {0} /\ r.at \in Rows
    BY DEF Row
  <2>2. Rows \cup {0} \subseteq Nat
    BY <1>1
  <2>3. QED
    BY <2>1, <2>2
<1>4. \A w \in Writing : writers[w] \in Row
  BY DEF StreamTypeOK, Writing
<1>5. \A c \in Clients : clients[c] \in Client
  BY DEF StreamTypeOK
<1>6. \A c \in Clients :
        /\ clients[c].cursor \in Nat /\ clients[c].first \in Nat
        /\ clients[c].old \subseteq Rows /\ clients[c].pushed \in Seq(Rows)
  <2>1. \A k \in Client :
          /\ k.cursor \in Rows \cup {0} /\ k.first \in Rows \cup {0}
          /\ k.old \subseteq Rows /\ k.pushed \in Seq(Rows)
    BY DEF Client
  <2>2. Rows \cup {0} \subseteq Nat
    BY <1>1
  <2>3. QED
    BY <1>5, <2>1, <2>2
<1>7. QED
  BY <1>1, <1>2, <1>3, <1>4, <1>6 DEF StreamTypeOK

LEMMA StampKeeps ==
    ASSUME StreamTypeOK, LogInv, NEW w \in Writers, Stamp(w, faults), faults' = faults
    PROVE  NumbersInv' /\ NothingLateInv' /\ OneWriterInv'
<1>1. NumbersInv /\ NothingLateInv /\ OneWriterInv
  BY DEF LogInv
<1> DEFINE row == [id |-> 0, at |-> stamps + 1]
<1>2. /\ writers[w] = Nobody
      /\ writers' = [writers EXCEPT ![w] = row] /\ stamps' = stamps + 1
      /\ UNCHANGED <<clients, logs, lastId>>
      /\ "overlap" \in faults \/ \A v \in Writers : writers[v] = Nobody
  BY DEF Stamp
<1>3. writers' \in [Writers -> Row \cup {row, Nobody}]
      /\ writers'[w] = row /\ \A v \in Writers \ {w} : writers'[v] = writers[v]
  BY <1>2 DEF StreamTypeOK
<1>4. row.id = 0 /\ row.at = stamps + 1
  OBVIOUS
<1>5. w \notin Writing
  BY <1>2 DEF Writing
<1> HIDE DEF row
<1>6. Writing' \subseteq Writing \cup {w} /\ Numbered' = Numbered
      /\ (Unnumbered' = Unnumbered \cup {w} \/ Unnumbered' = Unnumbered)
  BY <1>2, <1>3, <1>4 DEF Writing, Numbered, Unnumbered
<1>7. IsFiniteSet(Unnumbered')
      /\ Cardinality(Unnumbered') <= Cardinality(Unnumbered) + 1
      /\ Cardinality(Unnumbered') \in Nat /\ Cardinality(Unnumbered) \in Nat
  <2>1. IsFiniteSet(Unnumbered) /\ w \notin Unnumbered
    BY <1>1, <1>5 DEF NumbersInv, Unnumbered
  <2>2. IsFiniteSet(Unnumbered \cup {w})
        /\ Cardinality(Unnumbered \cup {w}) = Cardinality(Unnumbered) + 1
    BY <2>1, FS_AddElement
  <2>3. Cardinality(Unnumbered) \in Nat /\ Cardinality(Unnumbered \cup {w}) \in Nat
    BY <2>1, <2>2, FS_CardinalityType
  <2>4. CASE Unnumbered' = Unnumbered
    <3>1. Cardinality(Unnumbered') = Cardinality(Unnumbered)
      BY <2>4
    <3>2. QED
      BY <2>1, <2>3, <2>4, <3>1
  <2>5. CASE Unnumbered' = Unnumbered \cup {w}
    <3>1. Cardinality(Unnumbered') = Cardinality(Unnumbered \cup {w})
      BY <2>5
    <3>2. QED
      BY <2>2, <2>3, <2>5, <3>1
  <2>6. QED
    BY <1>6, <2>4, <2>5
<1>8. \A v \in Writing \ {w} : writers'[v] = writers[v]
  BY <1>3 DEF Writing
<1>9. \A v \in Numbered : writers'[v] = writers[v]
  BY <1>5, <1>8 DEF Numbered
<1>10. NumbersInv'
  <2>1. lastId' + Cardinality(Unnumbered') <= stamps'
    BY <1>1, <1>2, <1>7, LogFacts DEF NumbersInv
  <2>2. \A r \in logs' : r.id \in 1 .. lastId' /\ r.at <= stamps'
    BY <1>1, <1>2, LogFacts DEF NumbersInv
  <2>3. \A v \in Writing' : writers'[v].id <= lastId' /\ writers'[v].at <= stamps'
    BY <1>1, <1>2, <1>3, <1>4, <1>6, <1>8, LogFacts DEF NumbersInv
  <2>4. \A v, x \in Numbered' : writers'[v].id = writers'[x].id => v = x
    BY <1>1, <1>6, <1>9 DEF NumbersInv
  <2>5. QED
    BY <1>1, <1>2, <1>7, <2>1, <2>2, <2>3, <2>4 DEF NumbersInv
<1>11. NothingLateInv'
  BY <1>1, <1>2, <1>6, <1>9 DEF NothingLateInv
<1>12. OneWriterInv'
  <2> SUFFICES ASSUME "overlap" \notin faults
               PROVE  /\ \A v, x \in Writing' : v = x
                      /\ \A v \in Writing' :
                           /\ writers'[v].at = stamps'
                           /\ \A r \in logs : r.at < stamps'
                      /\ \A v \in Numbered' :
                           writers'[v].id = lastId' /\ \A r \in logs : r.id < lastId'
                      /\ \A r, q \in logs : q.at <= r.at => q.id <= r.id
    BY <1>2 DEF OneWriterInv
  <2>1. Writing = {} /\ Numbered' = {} /\ Writing' \subseteq {w}
    BY <1>2, <1>6 DEF Writing, Numbered
  <2>2. \A r \in logs : r.at < stamps'
    BY <1>1, <1>2, LogFacts DEF NumbersInv
  <2>3. \A r, q \in logs : q.at <= r.at => q.id <= r.id
    BY <1>1 DEF OneWriterInv
  <2>4. writers'[w].at = stamps'
    BY <1>2, <1>3, <1>4
  <2>5. QED
    BY <2>1, <2>2, <2>3, <2>4
<1>13. QED
  BY <1>10, <1>11, <1>12

LEMMA InsertKeeps ==
    ASSUME StreamTypeOK, LogInv, NEW w \in Writers, Insert(w, faults), faults' = faults
    PROVE  NumbersInv' /\ NothingLateInv' /\ OneWriterInv'
<1>1. NumbersInv /\ NothingLateInv /\ OneWriterInv /\ CursorInv
  BY DEF LogInv
<1> DEFINE row == [writers[w] EXCEPT !.id = lastId + 1]
<1>2. /\ w \in Writing /\ w \in Unnumbered /\ writers[w].id = 0
      /\ UNCHANGED <<clients, logs, stamps>>
      /\ \/ writers' = [writers EXCEPT ![w] = row] /\ lastId' = lastId + 1
         \/ writers' = [writers EXCEPT ![w] = Nobody] /\ lastId' = lastId
  BY DEF Insert, Writing, Unnumbered, StreamTypeOK
<1>3. row.id = lastId + 1 /\ row.at = writers[w].at
  BY <1>2, LogFacts DEF Row
<1> HIDE DEF row
<1>4. /\ \A v \in Writers \ {w} : writers'[v] = writers[v]
      /\ \/ writers'[w] = row /\ lastId' = lastId + 1
         \/ writers'[w] = Nobody /\ lastId' = lastId
  BY <1>2 DEF StreamTypeOK
<1>5. lastId + 1 <= stamps
      /\ IsFiniteSet(Unnumbered \ {w})
      /\ lastId + 1 + Cardinality(Unnumbered \ {w}) <= stamps
  BY <1>1, <1>2, RowsAreCounted
<1>6. /\ Writing' \subseteq Writing
      /\ Unnumbered' = Unnumbered \ {w}
      /\ Numbered' \subseteq Numbered \cup {w} /\ w \notin Numbered
      /\ w \in Numbered' => writers'[w] = row /\ lastId' = lastId + 1
  <2>1. row.id # 0
    BY <1>3, LogFacts
  <2>2. QED
    BY <1>2, <1>4, <2>1 DEF Writing, Unnumbered, Numbered
<1>7. \A v \in Writing' \ {w} : writers'[v] = writers[v]
  BY <1>4 DEF Writing
<1>8. \A v \in Numbered' \ {w} : v \in Numbered /\ writers'[v] = writers[v]
  BY <1>6, <1>7 DEF Numbered
<1>9. lastId' \in Nat /\ lastId <= lastId' /\ lastId' <= lastId + 1
  BY <1>4, LogFacts
<1>10. NumbersInv'
  <2>1. Cardinality(Unnumbered \ {w}) \in Nat
    BY <1>5, FS_CardinalityType
  <2>2. IsFiniteSet(Unnumbered') /\ lastId' + Cardinality(Unnumbered') <= stamps'
    BY <1>2, <1>5, <1>6, <1>9, <2>1, LogFacts
  <2>3. \A r \in logs' : r.id \in 1 .. lastId' /\ r.at <= stamps'
    BY <1>1, <1>2, <1>9, LogFacts DEF NumbersInv
  <2>4. \A v \in Writing' : writers'[v].id <= lastId' /\ writers'[v].at <= stamps'
    <3>1. ASSUME NEW v \in Writing', v # w
          PROVE  writers'[v].id <= lastId' /\ writers'[v].at <= stamps'
      BY <1>1, <1>2, <1>6, <1>7, <1>9, <3>1, LogFacts DEF NumbersInv
    <3>2. ASSUME w \in Writing'
          PROVE  writers'[w].id <= lastId' /\ writers'[w].at <= stamps'
      <4>1. writers'[w] = row /\ lastId' = lastId + 1
        BY <1>4, <3>2 DEF Writing
      <4>2. writers[w].at \in Nat /\ writers[w].at <= stamps
        BY <1>1, <1>2, LogFacts DEF NumbersInv
      <4>3. writers'[w].id = lastId' /\ writers'[w].at = writers[w].at
        BY <1>3, <4>1
      <4>4. stamps' = stamps
        BY <1>2
      <4>5. writers'[w].id <= lastId'
        BY <1>9, <4>3
      <4>6. writers'[w].at <= stamps'
        BY <4>2, <4>3, <4>4
      <4>7. QED
        BY <4>5, <4>6
    <3>3. QED
      BY <3>1, <3>2
  <2>5. ASSUME NEW v \in Numbered', NEW x \in Numbered', writers'[v].id = writers'[x].id
        PROVE  v = x
    <3>1. \A y \in Numbered : writers[y].id <= lastId /\ writers[y].id \in Nat
      BY <1>1, LogFacts DEF NumbersInv, Numbered
    <3>2. CASE v # w /\ x # w
      BY <1>1, <1>8, <2>5, <3>2 DEF NumbersInv
    <3>3. CASE v = w /\ x # w
      BY <1>3, <1>6, <1>8, <2>5, <3>1, <3>3, LogFacts
    <3>4. CASE v # w /\ x = w
      BY <1>3, <1>6, <1>8, <2>5, <3>1, <3>4, LogFacts
    <3>5. QED
      BY <3>2, <3>3, <3>4
  <2>6. QED
    BY <1>1, <1>2, <2>2, <2>3, <2>4, <2>5 DEF NumbersInv
<1>11. \A r \in logs : r.id <= lastId /\ r.id \in Nat
  BY <1>1, LogFacts DEF NumbersInv
<1>12. NothingLateInv'
  <2> SUFFICES ASSUME "lateCommit" \notin faults, NEW v \in Numbered'
               PROVE  /\ \A r \in logs : r.id < writers'[v].id
                      /\ \A c \in Clients : clients[c].cursor < writers'[v].id
    BY <1>2 DEF NothingLateInv
  <2>1. CASE v = w
    BY <1>1, <1>3, <1>6, <1>11, <2>1, LogFacts DEF CursorInv
  <2>2. CASE v # w
    BY <1>1, <1>8, <2>2 DEF NothingLateInv
  <2>3. QED
    BY <2>1, <2>2
<1>13. OneWriterInv'
  <2> SUFFICES ASSUME "overlap" \notin faults
               PROVE  /\ \A v, x \in Writing' : v = x
                      /\ \A v \in Writing' :
                           /\ writers'[v].at = stamps
                           /\ \A r \in logs : r.at < stamps
                      /\ \A v \in Numbered' :
                           writers'[v].id = lastId' /\ \A r \in logs : r.id < lastId'
                      /\ \A r, q \in logs : q.at <= r.at => q.id <= r.id
    BY <1>2 DEF OneWriterInv
  <2>1. \A v \in Writing : v = w
    BY <1>1, <1>2 DEF OneWriterInv
  <2>2. writers[w].at = stamps /\ \A r \in logs : r.at < stamps
    BY <1>1, <1>2 DEF OneWriterInv
  <2>3. \A r, q \in logs : q.at <= r.at => q.id <= r.id
    BY <1>1 DEF OneWriterInv
  <2>4. \A v \in Writing' : v = w /\ writers'[v] = row
    BY <1>4, <1>6, <2>1 DEF Writing
  <2>5. \A v \in Numbered' : v = w
    BY <2>4 DEF Numbered
  <2>6. \A v \in Numbered' : writers'[v].id = lastId' /\ \A r \in logs : r.id < lastId'
    BY <1>3, <1>6, <1>11, <2>5, LogFacts
  <2>7. QED
    BY <1>3, <2>2, <2>3, <2>4, <2>6
<1>14. QED
  BY <1>10, <1>12, <1>13

(* A row becomes visible: without a late commit, the one with the lowest id. *)
LEMMA CommitKeeps ==
    ASSUME StreamTypeOK, LogInv, NEW w \in Writers, Commit(w, faults), faults' = faults
    PROVE  NumbersInv' /\ NothingLateInv' /\ OneWriterInv'
<1>1. NumbersInv /\ NothingLateInv /\ OneWriterInv /\ CursorInv
  BY DEF LogInv
<1> DEFINE row == writers[w]
<1>2. /\ w \in Numbered /\ w \in Writing /\ row.id # 0
      /\ logs' = logs \cup {row}
      /\ writers' = [writers EXCEPT ![w] = Nobody]
      /\ UNCHANGED <<clients, stamps, lastId>>
      /\ "lateCommit" \in faults \/ \A v \in Numbered : row.id <= writers[v].id
  BY DEF Commit, Writing, Numbered
<1>3. row \in Row /\ row.id \in Nat /\ row.at \in Nat
      /\ row.id <= lastId /\ row.at <= stamps
      /\ lastId \in Nat /\ stamps \in Nat
  BY <1>1, <1>2, LogFacts DEF NumbersInv
<1> HIDE DEF row
<1>4. /\ writers'[w] = Nobody
      /\ \A v \in Writers \ {w} : writers'[v] = writers[v]
  BY <1>2 DEF StreamTypeOK
<1>5. /\ Writing' = Writing \ {w} /\ Unnumbered' = Unnumbered
      /\ Numbered' = Numbered \ {w}
  BY <1>2, <1>4 DEF Writing, Unnumbered, Numbered, row
<1>6. \A v \in Writing' : v \in Writing /\ v # w /\ writers'[v] = writers[v]
  BY <1>4, <1>5 DEF Writing
<1>7. \A v \in Numbered' : v \in Numbered /\ v # w /\ v \in Writing
                           /\ writers'[v] = writers[v]
  BY <1>5, <1>6 DEF Numbered
<1>8. NumbersInv'
  <2>1. IsFiniteSet(Unnumbered') /\ lastId' + Cardinality(Unnumbered') <= stamps'
    BY <1>1, <1>2, <1>5 DEF NumbersInv
  <2>2. \A r \in logs' : r.id \in 1 .. lastId' /\ r.at <= stamps'
    <3>1. row.id \in 1 .. lastId /\ row.at <= stamps
      BY <1>2, <1>3
    <3>2. \A r \in logs : r.id \in 1 .. lastId /\ r.at <= stamps
      BY <1>1 DEF NumbersInv
    <3>3. QED
      BY <1>2, <3>1, <3>2
  <2>3. \A v \in Writing' : writers'[v].id <= lastId' /\ writers'[v].at <= stamps'
    BY <1>1, <1>2, <1>6 DEF NumbersInv
  <2>4. \A v, x \in Numbered' : writers'[v].id = writers'[x].id => v = x
    BY <1>1, <1>7 DEF NumbersInv
  <2>5. \E r \in logs' : \A q \in logs' : q.at <= r.at
    <3>1. CASE logs = {}
      BY <1>2, <1>3, <3>1
    <3>2. CASE logs # {}
      <4>1. PICK r \in logs : \A q \in logs : q.at <= r.at
        BY <1>1, <3>2 DEF NumbersInv
      <4>2. r.at \in Nat /\ \A q \in logs : q.at \in Nat
        BY LogFacts
      <4>3. CASE row.at <= r.at
        BY <1>2, <4>1, <4>3
      <4>4. CASE ~ (row.at <= r.at)
        <5>1. \A q \in logs : q.at <= row.at
          BY <1>3, <4>1, <4>2, <4>4
        <5>2. row.at <= row.at
          BY <1>3
        <5>3. QED
          BY <1>2, <5>1, <5>2
      <4>5. QED
        BY <4>3, <4>4
    <3>3. QED
      BY <3>1, <3>2
  <2>6. QED
    BY <2>1, <2>2, <2>3, <2>4, <2>5 DEF NumbersInv
<1>9. NothingLateInv'
  <2> SUFFICES ASSUME "lateCommit" \notin faults, NEW v \in Numbered'
               PROVE  /\ \A r \in logs' : r.id < writers'[v].id
                      /\ \A c \in Clients : clients[c].cursor < writers'[v].id
    BY <1>2 DEF NothingLateInv
  <2>1. row.id < writers[v].id
    <3>1. row.id <= writers[v].id
      BY <1>2, <1>7
    <3>2. row.id # writers[v].id
      BY <1>1, <1>2, <1>7 DEF NumbersInv, row
    <3>3. writers[v].id \in Nat
      BY <1>7, LogFacts
    <3>4. QED
      BY <1>3, <3>1, <3>2, <3>3
  <2>2. QED
    BY <1>1, <1>2, <1>7, <2>1 DEF NothingLateInv
<1>10. OneWriterInv'
  <2> SUFFICES ASSUME "overlap" \notin faults
               PROVE  /\ Writing' = {} /\ Numbered' = {}
                      /\ \A r, q \in logs' : q.at <= r.at => q.id <= r.id
    BY <1>2 DEF OneWriterInv
  <2>1. Writing' = {} /\ Numbered' = {}
    BY <1>1, <1>2, <1>6, <1>7 DEF OneWriterInv
  <2>2. row.at = stamps /\ row.id = lastId
    BY <1>1, <1>2 DEF OneWriterInv, row
  <2>3. \A r \in logs : r.at < stamps /\ r.id < lastId /\ r.at \in Nat /\ r.id \in Nat
    BY <1>1, <1>2, LogFacts DEF OneWriterInv
  <2>4. \A r \in logs : ~ (row.at <= r.at) /\ r.id <= row.id
    BY <1>3, <2>2, <2>3
  <2>5. row.id <= row.id
    BY <1>3
  <2>6. \A r, q \in logs : q.at <= r.at => q.id <= r.id
    BY <1>1 DEF OneWriterInv
  <2>7. QED
    BY <1>2, <2>1, <2>4, <2>5, <2>6
<1>11. QED
  BY <1>8, <1>9, <1>10

(* The oldest rows go; the newest stays, if there was a row to stay. *)
LEMMA CleanUpKeeps ==
    ASSUME StreamTypeOK, LogInv, CleanUpLogs, faults' = faults
    PROVE  NumbersInv' /\ NothingLateInv' /\ OneWriterInv'
<1>1. NumbersInv /\ NothingLateInv /\ OneWriterInv
  BY DEF LogInv
<1>2. PICK before \in Rows : logs' = {r \in logs : r.at >= before}
  BY DEF CleanUpLogs
<1>3. UNCHANGED <<clients, writers, stamps, lastId>>
  BY DEF CleanUpLogs
<1>4. logs' \subseteq logs
  BY <1>2
<1>5. Writing' = Writing /\ Unnumbered' = Unnumbered /\ Numbered' = Numbered
  BY <1>3 DEF Writing, Unnumbered, Numbered
<1>6. logs' # {} => \E r \in logs' : \A q \in logs' : q.at <= r.at
  <2> SUFFICES ASSUME NEW x \in logs'
               PROVE  \E r \in logs' : \A q \in logs' : q.at <= r.at
    OBVIOUS
  <2>1. x \in logs /\ x.at >= before
    BY <1>2
  <2>2. PICK r \in logs : \A q \in logs : q.at <= r.at
    BY <1>1, <2>1 DEF NumbersInv
  <2>3. x.at <= r.at /\ x.at \in Nat /\ r.at \in Nat /\ before \in Nat
    BY <2>1, <2>2, LogFacts
  <2>4. r \in logs'
    BY <1>2, <2>1, <2>2, <2>3
  <2>5. QED
    BY <1>4, <2>2, <2>4
<1>7. NumbersInv'
  BY <1>1, <1>3, <1>4, <1>5, <1>6 DEF NumbersInv
<1>8. NothingLateInv'
  BY <1>1, <1>3, <1>4, <1>5 DEF NothingLateInv
<1>9. OneWriterInv'
  BY <1>1, <1>3, <1>4, <1>5 DEF OneWriterInv
<1>10. QED
  BY <1>7, <1>8, <1>9

(* What clients were shown is as good after a write as before it: a new row  *)
(* is after what they were shown.                                            *)
LEMMA WriteIsLater ==
    ASSUME StreamTypeOK, LogInv, clients' = clients, faults' = faults,
           lastId' \in Nat, lastId <= lastId',
           \A r \in logs' : r \in logs \/
               ("lateCommit" \notin faults =>
                    r.id \in Nat /\ \A c \in Clients : clients[c].cursor < r.id)
    PROVE  CursorInv' /\ LogsShown'
<1>1. CursorInv /\ LogsShown
  BY DEF LogInv
<1>2. CursorInv'
  <2>1. \A c \in Clients : clients[c].cursor <= lastId =>
                             clients[c].cursor <= lastId'
    BY LogFacts
  <2>2. QED
    BY <1>1, <2>1 DEF CursorInv
<1>3. ASSUME NEW c \in Clients, "lateCommit" \notin faults,
             NEW i \in IdsOf(logs'), clients[c].first < i, i <= clients[c].cursor
      PROVE  i \in ToSet(clients[c].pushed)
  <2>1. PICK r \in logs' : i = r.id
    BY DEF IdsOf
  <2>2. r \in logs
    BY <1>3, <2>1, LogFacts
  <2>3. QED
    BY <1>1, <1>3, <2>1, <2>2 DEF LogsShown, StreamExact, IdsOf
<1>4. LogsShown'
  BY <1>1, <1>3 DEF LogsShown, StreamExact
<1>5. QED
  BY <1>2, <1>4

LEMMA WritersKeep ==
    ASSUME StreamTypeOK, StreamTypeOK', LogInv, faults' = faults,
           CleanUpLogs \/ \E w \in Writers : WriterStep(w)
    PROVE  LogInv'
<1>1. lastId \in Nat /\ lastId' \in Nat
  BY StreamAssumption DEF StreamTypeOK
<1>2. clients' = clients
  BY DEF CleanUpLogs, WriterStep, Stamp, Insert, Commit
<1>3. CASE CleanUpLogs
  <2>1. logs' \subseteq logs /\ lastId' = lastId
    BY <1>3 DEF CleanUpLogs
  <2>2. CursorInv' /\ LogsShown'
    BY <1>1, <1>2, <2>1, WriteIsLater
  <2>3. QED
    BY <1>3, <2>2, CleanUpKeeps DEF LogInv
<1>4. ASSUME NEW w \in Writers, Stamp(w, faults)
      PROVE  LogInv'
  <2>1. logs' = logs /\ lastId' = lastId
    BY <1>4 DEF Stamp
  <2>2. CursorInv' /\ LogsShown'
    BY <1>1, <1>2, <2>1, WriteIsLater
  <2>3. QED
    BY <1>4, <2>2, StampKeeps DEF LogInv
<1>5. ASSUME NEW w \in Writers, Insert(w, faults)
      PROVE  LogInv'
  <2>1. logs' = logs /\ (lastId' = lastId \/ lastId' = lastId + 1)
    BY <1>5 DEF Insert
  <2>2. lastId <= lastId'
    BY <1>1, <2>1
  <2>3. CursorInv' /\ LogsShown'
    BY <1>1, <1>2, <2>1, <2>2, WriteIsLater
  <2>4. QED
    BY <1>5, <2>3, InsertKeeps DEF LogInv
<1>6. ASSUME NEW w \in Writers, Commit(w, faults)
      PROVE  LogInv'
  <2>1. logs' = logs \cup {writers[w]} /\ lastId' = lastId /\ w \in Numbered
    BY <1>6 DEF Commit, Numbered, Writing
  <2>2. "lateCommit" \notin faults =>
          writers[w].id \in Nat /\ \A c \in Clients : clients[c].cursor < writers[w].id
    BY <2>1, LogFacts DEF LogInv, NothingLateInv, Numbered
  <2>3. CursorInv' /\ LogsShown'
    BY <1>1, <1>2, <2>1, <2>2, WriteIsLater
  <2>4. QED
    BY <1>6, <2>3, CommitKeeps DEF LogInv
<1>7. QED
  BY <1>3, <1>4, <1>5, <1>6 DEF WriterStep

-----------------------------------------------------------------------------
(* The log: what clients do. *)

LEMMA SameLog ==
    ASSUME LogInv, UNCHANGED <<logVars, faults>>,
           \A c \in Clients :
               /\ clients'[c].first = clients[c].first
               /\ clients'[c].cursor = clients[c].cursor
               /\ clients'[c].pushed = clients[c].pushed
               /\ clients'[c].old = clients[c].old
               /\ clients'[c].pc \in {"none", "opening"} =>
                      clients[c].pc \in {"none", "opening"}
    PROVE  LogInv'
<1>1. UNCHANGED <<logs, writers, stamps, lastId, faults>>
  BY DEF logVars
<1>2. Writing' = Writing /\ Unnumbered' = Unnumbered /\ Numbered' = Numbered
  BY <1>1 DEF Writing, Unnumbered, Numbered
<1>3. NumbersInv'
  BY <1>1, <1>2 DEF LogInv, NumbersInv
<1>4. NothingLateInv'
  BY <1>1, <1>2 DEF LogInv, NothingLateInv
<1>5. OneWriterInv'
  BY <1>1, <1>2 DEF LogInv, OneWriterInv
<1>6. CursorInv'
  BY <1>1 DEF LogInv, CursorInv
<1>7. LogsShown'
  BY <1>1 DEF LogInv, LogsShown, StreamExact
<1>8. QED
  BY <1>3, <1>4, <1>5, <1>6, <1>7 DEF LogInv

(* One client is shown something, or begins: what must be so of it then. *)
LEMMA OneIsShown ==
    ASSUME StreamTypeOK, LogInv, UNCHANGED <<logVars, faults>>,
           NEW c \in Clients, NEW q \in Client, q.pc = "streaming",
           clients' = [clients EXCEPT ![c] = q],
           q.first <= q.cursor /\ q.cursor <= lastId,
           "lateCommit" \notin faults => \A w \in Numbered : q.cursor < writers[w].id,
           \A i \in ToSet(q.pushed) : q.first < i /\ i <= q.cursor,
           faults \cap {"readError", "overlap"} = {} => \A i \in q.old : i <= q.first,
           \A i, j \in DOMAIN q.pushed : i < j => q.pushed[i] < q.pushed[j],
           "lateCommit" \notin faults =>
               {i \in IdsOf(logs) : q.first < i /\ i <= q.cursor} \subseteq ToSet(q.pushed)
    PROVE  LogInv'
<1>1. UNCHANGED <<logs, writers, stamps, lastId, faults>>
  BY DEF logVars
<1>2. Writing' = Writing /\ Unnumbered' = Unnumbered /\ Numbered' = Numbered
  BY <1>1 DEF Writing, Unnumbered, Numbered
<1>3. clients'[c] = q /\ \A d \in Clients \ {c} : clients'[d] = clients[d]
  BY DEF StreamTypeOK
<1>4. NumbersInv'
  BY <1>1, <1>2 DEF LogInv, NumbersInv
<1>5. NothingLateInv'
  BY <1>1, <1>2, <1>3 DEF LogInv, NothingLateInv
<1>6. OneWriterInv'
  BY <1>1, <1>2 DEF LogInv, OneWriterInv
<1>7. CursorInv'
  BY <1>1, <1>3 DEF LogInv, CursorInv
<1>8. faults \cap {"readError", "overlap"} = {} => ToSet(q.pushed) \cap q.old = {}
  <2> SUFFICES ASSUME faults \cap {"readError", "overlap"} = {},
                      NEW i \in ToSet(q.pushed), i \in q.old
               PROVE  FALSE
    OBVIOUS
  <2>1. q.first < i /\ i <= q.first
    OBVIOUS
  <2>2. i \in Nat /\ q.first \in Nat
    <3>1. Rows \subseteq Nat
      BY LogFacts
    <3>2. q.first \in Rows \cup {0} /\ q.pushed \in Seq(Rows)
      BY DEF Client
    <3>3. i \in Rows
      BY <3>2 DEF ToSet
    <3>4. Rows \cup {0} \subseteq Nat
      BY <3>1
    <3>5. QED
      BY <3>2, <3>3, <3>4
  <2>3. QED
    BY <2>1, <2>2
<1>9. LogsShown'
  BY <1>1, <1>3, <1>8 DEF LogInv, LogsShown, StreamExact
<1>10. QED
  BY <1>4, <1>5, <1>6, <1>7, <1>9 DEF LogInv

LEMMA CursorKeeps ==
    ASSUME StreamTypeOK, LogInv, faults' = faults, NEW c \in Clients, SetCursor(c, faults)
    PROVE  LogInv'
<1>1. IdsOf(logs) \subseteq Rows /\ UNCHANGED <<logVars, faults>>
  BY SeenIds DEF LogInv, SetCursor
<1>2. PICK q \in Client :
             /\ clients' = [clients EXCEPT ![c] = q]
             /\ q.pc = "streaming" /\ q.id = clients[c].id
             /\ q.pushed = clients[c].pushed /\ q.old = IdsOf(logs)
             /\ \/ \E r \in logs :
                     /\ \A x \in logs : x.at <= r.at
                     /\ q.first = r.id /\ q.cursor = r.id
                \/ /\ q.first = clients[c].first /\ q.cursor = clients[c].cursor
                   /\ "readError" \in faults \/ \A r \in logs : \E x \in logs : ~ (x.at <= r.at)
  BY <1>1, CursorMade
<1>3. clients[c].first = 0 /\ clients[c].cursor = 0 /\ q.pushed = <<>>
  BY <1>2 DEF SetCursor, LogInv, CursorInv
<1>4. ToSet(q.pushed) = {} /\ DOMAIN q.pushed = {}
  BY <1>3 DEF ToSet
<1>5. NumbersInv /\ NothingLateInv /\ OneWriterInv
  BY DEF LogInv
<1>6. CASE \E r \in logs :
                     /\ \A x \in logs : x.at <= r.at
                     /\ q.first = r.id /\ q.cursor = r.id
  <2>1. PICK r \in logs :
                     /\ \A x \in logs : x.at <= r.at
                     /\ q.first = r.id /\ q.cursor = r.id
    BY <1>6
  <2>2. r.id \in Nat /\ r.id <= lastId
    BY <1>5, LogFacts DEF NumbersInv
  <2>3. q.first <= q.cursor /\ q.cursor <= lastId
    BY <2>1, <2>2
  <2>4. "lateCommit" \notin faults => \A w \in Numbered : q.cursor < writers[w].id
    BY <1>5, <2>1 DEF NothingLateInv
  <2>5. faults \cap {"readError", "overlap"} = {} => \A i \in q.old : i <= q.first
    BY <1>2, <1>5, <2>1 DEF OneWriterInv, IdsOf
  <2>6. {i \in IdsOf(logs) : q.first < i /\ i <= q.cursor} = {}
    <3>1. \A i \in IdsOf(logs) : i \in Nat
      BY <1>1, LogFacts
    <3>2. QED
      BY <2>1, <2>2, <3>1
  <2>7. QED
    BY <1>1, <1>2, <1>4, <2>3, <2>4, <2>5, <2>6, OneIsShown
<1>7. CASE /\ q.first = clients[c].first /\ q.cursor = clients[c].cursor
           /\ "readError" \in faults \/ \A r \in logs : \E x \in logs : ~ (x.at <= r.at)
  <2>1. q.first = 0 /\ q.cursor = 0 /\ lastId \in Nat
    BY <1>3, <1>7, LogFacts
  <2>2. \A w \in Numbered : q.cursor < writers[w].id
    <3>1. \A w \in Numbered : writers[w].id \in Nat /\ writers[w].id # 0
      BY LogFacts DEF Numbered
    <3>2. QED
      BY <2>1, <3>1
  <2>3. "readError" \notin faults => logs = {}
    BY <1>5, <1>7 DEF NumbersInv
  <2>4. faults \cap {"readError", "overlap"} = {} => \A i \in q.old : i <= q.first
    BY <1>2, <2>3 DEF IdsOf
  <2>5. {i \in IdsOf(logs) : q.first < i /\ i <= q.cursor} = {}
    <3>1. \A i \in IdsOf(logs) : i \in Nat
      BY <1>1, LogFacts
    <3>2. QED
      BY <2>1, <3>1
  <2>6. q.first <= q.cursor /\ q.cursor <= lastId
    BY <2>1
  <2>7. QED
    BY <1>1, <1>2, <1>4, <2>2, <2>4, <2>5, <2>6, OneIsShown
<1>8. QED
  BY <1>2, <1>6, <1>7

(* A sequence and what is put after it. *)
LEMMA Appended ==
    ASSUME NEW S, NEW s \in Seq(S), NEW n \in Nat, NEW t \in [1 .. n -> S]
    PROVE  /\ s \o t \in Seq(S) /\ t \in Seq(S)
           /\ ToSet(s \o t) = ToSet(s) \cup ToSet(t)
           /\ DOMAIN (s \o t) = 1 .. Len(s) + n /\ Len(s) \in Nat
           /\ \A i \in DOMAIN (s \o t) :
                \/ i \in DOMAIN s /\ (s \o t)[i] = s[i] /\ i <= Len(s)
                \/ /\ i - Len(s) \in 1 .. n /\ (s \o t)[i] = t[i - Len(s)]
                   /\ i > Len(s)
<1>1. t \in Seq(S) /\ Len(t) = n /\ DOMAIN t = 1 .. n
  OBVIOUS
<1>2. Len(s) \in Nat /\ DOMAIN s = 1 .. Len(s)
  OBVIOUS
<1>3. s \o t \in Seq(S) /\ Len(s \o t) = Len(s) + n /\ DOMAIN (s \o t) = 1 .. Len(s) + n
  BY <1>1, <1>2
<1>4. \A i \in 1 .. Len(s) : i \in DOMAIN (s \o t) /\ (s \o t)[i] = s[i]
  BY <1>1, <1>2, <1>3
<1>5. \A i \in 1 .. n : /\ Len(s) + i \in DOMAIN (s \o t)
                        /\ (s \o t)[Len(s) + i] = t[i]
  BY <1>1, <1>2, <1>3
<1>6. ASSUME NEW i \in DOMAIN (s \o t)
      PROVE  \/ i \in DOMAIN s /\ (s \o t)[i] = s[i] /\ i <= Len(s)
             \/ /\ i - Len(s) \in 1 .. n /\ (s \o t)[i] = t[i - Len(s)]
                /\ i > Len(s)
  <2>1. i \in 1 .. Len(s) + n
    BY <1>3
  <2>2. CASE i <= Len(s)
    <3>1. i \in 1 .. Len(s)
      BY <1>2, <2>1, <2>2
    <3>2. QED
      BY <1>2, <1>4, <2>2, <3>1
  <2>3. CASE i > Len(s)
    <3>1. i - Len(s) \in 1 .. n /\ Len(s) + (i - Len(s)) = i
      BY <1>2, <2>1, <2>3
    <3>2. QED
      BY <1>5, <2>3, <3>1
  <2>4. QED
    BY <1>2, <2>1, <2>2, <2>3
<1>7. ToSet(s \o t) \subseteq ToSet(s) \cup ToSet(t)
  BY <1>1, <1>6 DEF ToSet
<1>8. ToSet(s) \subseteq ToSet(s \o t)
  BY <1>2, <1>4 DEF ToSet
<1>9. ToSet(t) \subseteq ToSet(s \o t)
  BY <1>1, <1>5 DEF ToSet
<1>10. QED
  BY <1>1, <1>2, <1>3, <1>6, <1>7, <1>8, <1>9

LEMMA PushKeeps ==
    ASSUME StreamTypeOK, LogInv, faults' = faults, NEW c \in Clients, Push(c)
    PROVE  LogInv'
<1> DEFINE k == clients[c]
<1>1. IdsOf(logs) \subseteq Rows /\ UNCHANGED <<logVars, faults>> /\ Rows \subseteq Nat
  BY SeenIds, LogFacts DEF LogInv, Push
<1>2. PICK n \in 1 .. Batch : \E sent \in [1 .. n -> New(c)] : \E q \in Client :
             /\ Sends(c, n, sent)
             /\ clients' = [clients EXCEPT ![c] = q]
             /\ q.pc = "streaming" /\ q.id = clients[c].id
             /\ q.pushed = clients[c].pushed \o sent /\ q.old = clients[c].old
             /\ q.cursor = sent[n] /\ q.first = clients[c].first
  BY <1>1, PushMade
<1>3. PICK sent \in [1 .. n -> New(c)] : \E q \in Client :
             /\ Sends(c, n, sent)
             /\ clients' = [clients EXCEPT ![c] = q]
             /\ q.pc = "streaming" /\ q.id = clients[c].id
             /\ q.pushed = clients[c].pushed \o sent /\ q.old = clients[c].old
             /\ q.cursor = sent[n] /\ q.first = clients[c].first
  BY <1>2
<1>4. PICK q \in Client :
             /\ Sends(c, n, sent)
             /\ clients' = [clients EXCEPT ![c] = q]
             /\ q.pc = "streaming" /\ q.id = clients[c].id
             /\ q.pushed = clients[c].pushed \o sent /\ q.old = clients[c].old
             /\ q.cursor = sent[n] /\ q.first = clients[c].first
  BY <1>3
<1>5. n \in Nat /\ n \in 1 .. n
  BY StreamAssumption
<1>6. /\ NumbersInv /\ NothingLateInv /\ OneWriterInv /\ CursorInv
      /\ StreamExact(faults)
  BY DEF LogInv, LogsShown
<1>7. /\ k.cursor \in Nat /\ k.first \in Nat /\ lastId \in Nat
      /\ k.old \subseteq Rows /\ k.pushed \in Seq(Rows)
  BY LogFacts
<1>8. /\ k.first <= k.cursor /\ k.cursor <= lastId
      /\ \A i \in ToSet(k.pushed) : k.first < i /\ i <= k.cursor
      /\ faults \cap {"readError", "overlap"} = {} => \A i \in k.old : i <= k.first
  BY <1>6 DEF CursorInv
<1>9. \A i \in 1 .. n :
        /\ sent[i] \in IdsOf(logs) /\ sent[i] \in Rows /\ sent[i] \in Nat
        /\ k.cursor < sent[i] /\ sent[i] <= sent[n]
  <2>1. \A i \in 1 .. n : /\ sent[i] \in IdsOf(logs) /\ sent[i] \in Nat
                          /\ k.cursor < sent[i]
    BY <1>1, <1>7 DEF New
  <2>2. \A i \in 1 .. n : i < n \/ i = n
    BY <1>5
  <2>3. \A i \in 1 .. n : i < n => sent[i] < sent[n]
    BY <1>4, <1>5 DEF Sends
  <2>4. QED
    BY <1>1, <1>5, <2>1, <2>2, <2>3
<1>10. /\ ToSet(q.pushed) = ToSet(k.pushed) \cup ToSet(sent)
       /\ ToSet(sent) = {sent[i] : i \in 1 .. n}
       /\ DOMAIN q.pushed = 1 .. Len(k.pushed) + n /\ Len(k.pushed) \in Nat
       /\ \A i \in DOMAIN q.pushed :
            \/ i \in DOMAIN k.pushed /\ q.pushed[i] = k.pushed[i] /\ i <= Len(k.pushed)
            \/ /\ i - Len(k.pushed) \in 1 .. n
               /\ q.pushed[i] = sent[i - Len(k.pushed)]
               /\ i > Len(k.pushed)
  <2>1. sent \in [1 .. n -> Rows]
    BY <1>9
  <2>2. k.pushed \in Seq(Rows) /\ q.pushed = k.pushed \o sent
    BY <1>4, <1>7
  <2>3. ToSet(sent) = {sent[i] : i \in 1 .. n}
    BY DEF ToSet
  <2> HIDE DEF k
  <2>4. QED
    BY <1>5, <2>1, <2>2, <2>3, Appended
<1>11. q.first = k.first /\ q.old = k.old /\ q.cursor = sent[n]
       /\ k.cursor < q.cursor /\ q.cursor \in IdsOf(logs) /\ q.cursor \in Nat
  BY <1>4, <1>5, <1>9
<1> HIDE DEF k
<1>12. q.first <= q.cursor /\ q.cursor <= lastId
  <2>1. q.cursor <= lastId
    BY <1>6, <1>7, <1>11, LogFacts DEF NumbersInv, IdsOf
  <2>2. QED
    BY <1>7, <1>8, <1>11, <2>1
<1>13. "lateCommit" \notin faults => \A w \in Numbered : q.cursor < writers[w].id
  BY <1>6, <1>11 DEF NothingLateInv, IdsOf
<1>14. \A i \in ToSet(k.pushed) : i \in Nat
  BY <1>1, <1>7 DEF ToSet
<1>15. \A i \in ToSet(q.pushed) : q.first < i /\ i <= q.cursor
  <2>1. \A i \in ToSet(k.pushed) : q.first < i /\ i <= q.cursor
    BY <1>7, <1>8, <1>11, <1>14
  <2>2. \A i \in ToSet(sent) : q.first < i /\ i <= q.cursor
    BY <1>7, <1>8, <1>9, <1>10, <1>11
  <2>3. QED
    BY <1>10, <2>1, <2>2
<1>16. ASSUME NEW i \in DOMAIN q.pushed, NEW j \in DOMAIN q.pushed, i < j
       PROVE  q.pushed[i] < q.pushed[j]
  <2>1. i \in Nat /\ j \in Nat
    BY <1>5, <1>10
  <2>2. CASE i \in DOMAIN k.pushed /\ q.pushed[i] = k.pushed[i] /\ i <= Len(k.pushed)
    <3>1. k.pushed[i] \in ToSet(k.pushed)
      BY <2>2 DEF ToSet
    <3>2. k.pushed[i] <= k.cursor /\ k.pushed[i] \in Nat
      BY <1>8, <1>14, <3>1
    <3>3. CASE j \in DOMAIN k.pushed /\ q.pushed[j] = k.pushed[j]
      BY <1>6, <1>16, <2>2, <3>3 DEF StreamExact, k
    <3>4. CASE j - Len(k.pushed) \in 1 .. n /\ q.pushed[j] = sent[j - Len(k.pushed)]
      BY <1>7, <1>9, <2>2, <3>2, <3>4
    <3>5. QED
      BY <1>10, <3>3, <3>4
  <2>3. CASE /\ i - Len(k.pushed) \in 1 .. n
             /\ q.pushed[i] = sent[i - Len(k.pushed)]
             /\ i > Len(k.pushed)
    <3>1. ~ (j <= Len(k.pushed))
      BY <1>10, <1>16, <2>1, <2>3
    <3>2. j - Len(k.pushed) \in 1 .. n /\ q.pushed[j] = sent[j - Len(k.pushed)]
      BY <1>10, <3>1
    <3>3. i - Len(k.pushed) < j - Len(k.pushed)
      BY <1>10, <1>16, <2>1
    <3>4. \A a, b \in 1 .. n : a < b => sent[a] < sent[b]
      BY <1>4 DEF Sends
    <3>5. QED
      BY <2>3, <3>2, <3>3, <3>4
  <2>4. QED
    BY <1>10, <2>2, <2>3
<1>17. ASSUME "lateCommit" \notin faults,
              NEW i \in IdsOf(logs), q.first < i, i <= q.cursor
       PROVE  i \in ToSet(q.pushed)
  <2>1. i \in Nat
    BY <1>1
  <2>2. CASE i <= k.cursor
    <3>1. i \in ToSet(k.pushed)
      BY <1>6, <1>11, <1>17, <2>2 DEF StreamExact, k
    <3>2. QED
      BY <1>10, <3>1
  <2>3. CASE ~ (i <= k.cursor) /\ i \notin ToSet(sent)
    <3>1. i \in New(c)
      BY <1>7, <2>1, <2>3 DEF New, k
    <3>2. sent[n] < i
      BY <1>4, <2>3, <3>1 DEF Sends
    <3>3. QED
      BY <1>11, <1>17, <2>1, <3>2
  <2>4. QED
    BY <1>10, <2>2, <2>3
<1>18. faults \cap {"readError", "overlap"} = {} => \A i \in q.old : i <= q.first
  BY <1>8, <1>11
<1>19. q.pc = "streaming" /\ clients' = [clients EXCEPT ![c] = q]
  BY <1>4
<1>20. QED
  BY <1>1, <1>12, <1>13, <1>15, <1>16, <1>17, <1>18, <1>19, OneIsShown

(* What the other steps of clients and of tellers leave of the log. *)
LEMMA OthersKeepLog ==
    ASSUME StreamTypeOK, LogInv, faults' = faults,
           \/ Asked \/ \E t \in Tellers : PublishStep(t)
           \/ \E c \in Clients : Connect(c, faults) \/ Receive(c) \/ Disconnect(c)
    PROVE  LogInv'
<1>1. clients \in [Clients -> Client]
  BY DEF StreamTypeOK
<1>2. CASE Asked \/ \E t \in Tellers : LockMap(t) \/ Told(t)
  <2>1. UNCHANGED <<clients, logVars>>
    BY <1>2 DEF Asked, LockMap, Told, OtherThanTelling
  <2>2. QED
    BY <2>1, SameLog
<1>3. ASSUME NEW t \in Tellers, NEW i \in Ids, Offer(t, i)
      PROVE  LogInv'
  <2> DEFINE more == IF clients[registered[i]].holds < Room
                       THEN clients[registered[i]].holds + 1
                       ELSE clients[registered[i]].holds
             q == [clients[registered[i]] EXCEPT !.holds = more]
  <2>1. UNCHANGED logVars /\ clients' = [clients EXCEPT ![registered[i]] = q]
    BY <1>1, <1>3 DEF Offer
  <2>2. registered[i] \in Clients =>
          /\ q.first = clients[registered[i]].first
          /\ q.cursor = clients[registered[i]].cursor
          /\ q.pushed = clients[registered[i]].pushed
          /\ q.old = clients[registered[i]].old
          /\ q.pc = clients[registered[i]].pc
    BY <1>1 DEF Client
  <2> HIDE DEF q
  <2>3. \A d \in Clients : clients'[d] = IF d = registered[i] THEN q ELSE clients[d]
    BY <1>1, <2>1
  <2>4. \A d \in Clients :
          /\ clients'[d].first = clients[d].first
          /\ clients'[d].cursor = clients[d].cursor
          /\ clients'[d].pushed = clients[d].pushed
          /\ clients'[d].old = clients[d].old
          /\ clients'[d].pc = clients[d].pc
    BY <2>2, <2>3
  <2>5. QED
    BY <2>1, <2>4, SameLog
<1>4. ASSUME NEW c \in Clients, Connect(c, faults)
      PROVE  LogInv'
  <2> DEFINE q == [NoClient EXCEPT !.pc = "opening", !.id = instant']
  <2>1. /\ UNCHANGED logVars /\ clients[c].pc = "none"
        /\ clients' = [clients EXCEPT ![c] = q]
    BY <1>4 DEF Connect
  <2>2. q.first = 0 /\ q.cursor = 0 /\ q.pushed = <<>> /\ q.old = {}
    BY DEF NoClient
  <2> HIDE DEF q
  <2>3. /\ clients[c].first = 0 /\ clients[c].cursor = 0
        /\ clients[c].pushed = <<>> /\ clients[c].old = {}
    BY <2>1 DEF LogInv, CursorInv
  <2>4. clients'[c] = q /\ \A d \in Clients \ {c} : clients'[d] = clients[d]
    BY <1>1, <2>1
  <2>5. \A d \in Clients :
          /\ clients'[d].first = clients[d].first
          /\ clients'[d].cursor = clients[d].cursor
          /\ clients'[d].pushed = clients[d].pushed
          /\ clients'[d].old = clients[d].old
          /\ clients'[d].pc \in {"none", "opening"} =>
                 clients[d].pc \in {"none", "opening"}
    BY <2>1, <2>2, <2>3, <2>4
  <2>6. QED
    BY <2>1, <2>5, SameLog
<1>5. ASSUME NEW c \in Clients, Receive(c) \/ Disconnect(c)
      PROVE  LogInv'
  <2>1. UNCHANGED logVars /\ clients[c].pc = "streaming"
    BY <1>5 DEF Receive, Disconnect
  <2>2. /\ \A d \in Clients \ {c} : clients'[d] = clients[d]
        /\ clients'[c].first = clients[c].first
        /\ clients'[c].cursor = clients[c].cursor
        /\ clients'[c].pushed = clients[c].pushed
        /\ clients'[c].old = clients[c].old
        /\ clients'[c].pc \in {"streaming", "gone"}
    BY <1>1, <1>5, <2>1 DEF Receive, Disconnect, Client
  <2>3. QED
    BY <2>1, <2>2, SameLog
<1>6. QED
  BY <1>2, <1>3, <1>4, <1>5 DEF PublishStep

LEMMA LogInvStep ==
    ASSUME StreamTypeOK, StreamTypeOK', LogInv, [Next]_vars
    PROVE  LogInv'
<1>1. faults' = faults
  BY StreamFrame
<1>2. CASE StreamNext
  BY <1>1, <1>2, OthersKeepLog, CursorKeeps, PushKeeps, WritersKeep
    DEF StreamNext, ClientStep
<1>3. CASE UNCHANGED streamVars
  BY <1>1, <1>3, SameLog DEF streamVars, logVars
<1>4. QED
  BY <1>2, <1>3, StreamFrame

StreamInv == StreamTypeOK /\ MapInv /\ LogInv

LEMMA StreamInvHolds == Spec => []StreamInv
<1>1. Init => StreamInv
  BY StreamInitInv DEF StreamInv
<1>2. StreamInv /\ [Next]_vars => StreamInv'
  BY StreamTypeStep, MapInvStep, LogInvStep DEF StreamInv
<1>3. QED
  BY <1>1, <1>2, PTL DEF Spec

(* Under each id of the map is the client that registered under it, and it  *)
(* is still connected, so no event goes to a closed channel; a client that  *)
(* is connected is in the map, unless two registered in one tick.           *)
THEOREM EventsReachClients == Spec => []MapIsExact
<1>1. StreamInv => MapIsExact
  BY DEF StreamInv, MapInv
<1>2. QED
  BY <1>1, StreamInvHolds, PTL

(* However rows are written, made visible and cleaned up, and whatever is   *)
(* read in between, a client is shown each row once and in order, no row of *)
(* its span is left out, and none from before it came, with the exceptions  *)
(* that StreamExact names.                                                  *)
THEOREM LogRowsAreShownOnce == Spec => []LogsShown
<1>1. StreamInv => LogsShown
  BY DEF StreamInv, LogInv
<1>2. QED
  BY <1>1, StreamInvHolds, PTL

=============================================================================
