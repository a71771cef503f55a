-------------------------------- MODULE Router ------------------------------
(***************************************************************************)
(* Which command a message runs, and whether its author may: the router of *)
(* internal/handler and the checker of internal/permission.                *)
(*                                                                         *)
(* A word stands for what is left of a text when mention tags, a leading   *)
(* slash and the arguments are taken off.  A permission level is a record  *)
(* for the three modes it can be written in: "admin" is [mode |-> "least", *)
(* of |-> {"admin"}], "admin_exact" has the mode "exact", "owner,member"   *)
(* the mode "list"; AnyLevel is the empty string.                          *)
(***************************************************************************)
EXTENDS Naturals, Sequences, FiniteSets, SequencesExt

CONSTANTS
    Commands,    \* records [name, aliases, level]
    Words,       \* what a message may begin with: names, aliases, others
    Configs,     \* settings permissions may have: functions from words
    NoCommand

Rank == [owner |-> 0, admin |-> 1, member |-> 2, public |-> 3]
Roles == {"owner", "admin", "member", ""}   \* "" outside groups
LevelItems == DOMAIN Rank \cup {"owner_exact", "unknown"}
Levels == [mode : {"least", "exact"}, of : {{i} : i \in LevelItems}]
          \cup [mode : {"list"}, of : SUBSET LevelItems]
AnyLevel == [mode |-> "least", of |-> {"public"}]

ASSUME RouterAssumption ==
    /\ \A c \in Commands :
         c.name \in Words /\ c.aliases \in Seq(Words) /\ c.level \in Levels
    /\ \A f \in Configs :
         DOMAIN f \subseteq Words /\ \A w \in DOMAIN f : f[w] \in Levels
    /\ NoCommand \notin Words /\ NoCommand \notin Commands

VARIABLES
    commands,    \* by name: the command, or NoCommand
    aliases,     \* by alias: a name, or NoCommand
    permissions, \* the checker's levels, by name or alias
    clash        \* auxiliary: a name or an alias was registered again

routerVars == <<commands, aliases, permissions, clash>>

CommandOr == Commands \cup {NoCommand}

RouterTypeOK ==
    /\ commands \in [Words -> CommandOr]
    /\ aliases \in [Words -> Words \cup {NoCommand}]
    /\ DOMAIN permissions \subseteq Words
    /\ \A w \in DOMAIN permissions : permissions[w] \in Levels
    /\ clash \in BOOLEAN

-----------------------------------------------------------------------------
(* The checker. *)

\* isValidLevel
Valid(level) ==
    CASE level.mode = "list" -> "unknown" \notin level.of
      [] OTHER -> level.of \subseteq DOMAIN Rank

\* NewChecker: an entry that is not valid lets everyone.
Normalized(config) ==
    [w \in DOMAIN config |-> IF Valid(config[w]) THEN config[w] ELSE AnyLevel]

\* The names of a command, the first before the others, that have an entry.
Names(c) == <<c.name>> \o c.aliases
Listed(c) == {i \in DOMAIN Names(c) : Names(c)[i] \in DOMAIN permissions}

\* The level of a command: its entry, the first alias's that has one, or its own.
Required(c) ==
    IF Listed(c) = {} THEN c.level ELSE permissions[Names(c)[Min(Listed(c))]]

\* Mutant: the smallest rank is taken for the least restrictive.
AllowedUpsideDown(level, role) ==
    LET base == CHOOSE b \in level.of : TRUE IN
    CASE level.mode = "list" -> role \in level.of
      [] OTHER -> role = "" \/ Rank[role] >= Rank[base]

\* Check, once the level is known.
Allowed(level, role) ==
    LET base == CHOOSE b \in level.of : TRUE IN
    IF level.mode = "list"
    THEN role \in level.of \/ (role \notin DOMAIN Rank /\ "public" \in level.of)
    ELSE \/ base \notin DOMAIN Rank
         \/ Rank[base] >= Rank["public"]
         \/ /\ role \in DOMAIN Rank
            /\ IF level.mode = "exact" THEN Rank[role] = Rank[base]
               ELSE Rank[role] <= Rank[base]

-----------------------------------------------------------------------------
(* The router. *)

Register(c) ==
    /\ commands' = [commands EXCEPT ![c.name] = c]
    /\ aliases' = [w \in Words |->
            IF w \in ToSet(c.aliases) THEN c.name ELSE aliases[w]]
    /\ clash' = (clash \/ commands[c.name] # NoCommand
                       \/ \E w \in ToSet(c.aliases) : aliases[w] # NoCommand)
    /\ UNCHANGED permissions

Unregister(w) ==
    /\ commands[w] # NoCommand
    /\ aliases' = [a \in Words |->
            IF a \in ToSet(commands[w].aliases) THEN NoCommand ELSE aliases[a]]
    /\ commands' = [commands EXCEPT ![w] = NoCommand]
    /\ UNCHANGED <<permissions, clash>>

\* Resolve: a name, or an alias of a name that is there.
Resolve(w) ==
    CASE commands[w] # NoCommand -> commands[w]
      [] commands[w] = NoCommand /\ aliases[w] # NoCommand ->
            commands[aliases[w]]
      [] OTHER -> NoCommand

RouterInit ==
    /\ commands = [w \in Words |-> NoCommand]
    /\ aliases = [w \in Words |-> NoCommand]
    /\ \E f \in Configs : permissions = Normalized(f)
    /\ clash = FALSE

-----------------------------------------------------------------------------
(* What the comments promise.                                              *)

\* The roles a level admits: permission.go:16, where public is everyone, and
\* the three modes of permission.go:82.
Admits(level) ==
    IF "public" \in level.of THEN Roles
    ELSE IF level.mode = "list" THEN level.of \cap {"owner", "admin", "member"}
    ELSE CASE "owner" \in level.of -> {"owner"}
           [] "admin" \in level.of ->
                 IF level.mode = "exact" THEN {"admin"} ELSE {"owner", "admin"}
           [] "member" \in level.of ->
                 IF level.mode = "exact" THEN {"member"}
                 ELSE {"owner", "admin", "member"}
           [] OTHER -> Roles

\* permission.go:46, config.example.yaml:52: without an entry, everyone.
Documented(c) == IF Listed(c) = {} THEN AnyLevel ELSE Required(c)

\* Two refusals the comments do not know: a command without an entry asks for
\* its own level, and public in a list lets in only who has no role.
Unlisted(c, role) == Listed(c) = {} /\ role \notin Admits(c.level)
NotInTheList(c, role) ==
    LET level == Required(c) IN
    level.mode = "list" /\ role \notin level.of \cup {""}

\* The words a command answers to.
Answers(c, w) == w = c.name \/ w \in ToSet(c.aliases)

=============================================================================
