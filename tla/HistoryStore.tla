---------------------------- MODULE HistoryStore ----------------------------
(***************************************************************************)
(* The SQLite history (src/src/storage/history_store.cpp) over the starts  *)
(* of the server (src/src/main.cpp): which conversation a process writes   *)
(* to and what it loads.  Several processes may be alive at once: httplib  *)
(* sets SO_REUSEPORT, so a second server on the port stays up as well.     *)
(*                                                                         *)
(* A conversation id is made of std::chrono::steady_clock in milliseconds, *)
(* which begins at 0 when the machine boots; created_at is the wall clock  *)
(* in seconds, which is never set back here.  Who starts a server, when,   *)
(* and with which options is the environment.                              *)
(***************************************************************************)
EXTENDS Integers, Sequences, FiniteSets

CONSTANTS
  Procs,        \* processes that may be alive at once
  MaxClock,     \* bound: both clocks stop here
  MaxStarts,    \* bound: starts of the server
  MaxRows,      \* bound: messages stored
  Limit         \* the window get_recent is asked for (20 in the code)

ASSUME HistoryStoreAssumption ==
  /\ MaxClock \in Nat
  /\ MaxStarts \in Nat
  /\ MaxRows \in Nat
  /\ Limit \in Nat \ {0}

VARIABLES
  convs,    \* rows of the table conversations, in the order of their INSERTs
  rows,     \* rows of the table messages: the conversation_id of each
  steady,   \* steady_clock, in milliseconds
  wall,     \* system_clock, in seconds
  starts,   \* starts of the server so far
  procs,    \* the processes
  env       \* what the surroundings may do; it never changes

vars == <<convs, rows, steady, wall, starts, procs, env>>

Environment ==
  [reboots     : BOOLEAN,  \* may the machine boot again?
   apart       : {"any", "millisecond", "second"},
                           \* how far are two conversations made apart at least?
   insertFails : BOOLEAN]  \* may INSERT INTO conversations fail (SQLITE_BUSY, ...)?

Clock == 0 .. MaxClock

Proc == [pc     : {"down", "select", "create", "load", "listen", "up"},
         new    : BOOLEAN,                 \* --new-conversation
         conv   : Clock,                   \* conv_id
         found  : Nat,                     \* history: rows when conv_id was chosen
         loaded : SUBSET (1 .. MaxRows)]   \* the rows load_history got

Down == [pc |-> "down", new |-> FALSE, conv |-> 0, found |-> 0, loaded |-> {}]

TypeOK ==
  /\ convs \in Seq([id : Clock, created : Clock])
  /\ rows \in Seq(Clock) /\ Len(rows) <= MaxRows
  /\ steady \in Clock /\ wall \in Clock
  /\ starts \in 0 .. MaxStarts
  /\ procs \in [Procs -> Proc]
  /\ \A p \in Procs : Cardinality(procs[p].loaded) <= Limit
  /\ env \in Environment

Init ==
  /\ convs = << >>
  /\ rows = << >>
  /\ steady = 0 /\ wall = 0
  /\ starts = 0
  /\ procs = [p \in Procs |-> Down]
  /\ env \in Environment

At(p, pc) == procs[p].pc = pc

-----------------------------------------------------------------------------
(* The tables *)

Ids == {convs[i].id : i \in 1 .. Len(convs)}

\* Mutant of GenerateId: the wall clock, in seconds.
GenerateIdSeconds == wall

\* generate_id
GenerateId == steady

\* Mutant of CreateConversation: the statement is prepared, not stepped.
CreateNothing == UNCHANGED convs

\* create_conversation: the id is the PRIMARY KEY, and nobody looks at what
\* sqlite3_step returns.
CreateConversation ==
  \/ /\ GenerateId \notin Ids
     /\ convs' = Append(convs, [id |-> GenerateId, created |-> wall])
  \/ /\ GenerateId \in Ids \/ env.insertFails
     /\ UNCHANGED convs

\* Mutant of MostRecent: without ORDER BY created_at DESC.
FirstConversation == IF convs = << >> THEN {} ELSE {convs[1].id}

\* The SELECT of get_or_create_conversation: among equal seconds any row.
MostRecent ==
  {convs[i].id : i \in {j \in 1 .. Len(convs) :
     \A k \in 1 .. Len(convs) : convs[k].created <= convs[j].created}}

RowsOf(conv) == {i \in 1 .. Len(rows) : rows[i] = conv}

\* Mutant of GetRecent: without LIMIT.
GetAll(conv) == RowsOf(conv)

\* get_recent: the last Limit rows of the conversation.
GetRecent(conv) ==
  {i \in RowsOf(conv) : Cardinality({k \in RowsOf(conv) : k >= i}) <= Limit}

-----------------------------------------------------------------------------
(* Processes *)

\* main() up to the choice of the conversation.
Start(p, new) ==
  /\ At(p, "down")
  /\ starts < MaxStarts
  /\ starts' = starts + 1
  /\ procs' = [procs EXCEPT ![p].pc = IF new THEN "create" ELSE "select", ![p].new = new]
  /\ UNCHANGED <<convs, rows, steady, wall, env>>

\* get_or_create_conversation looks for a conversation; another process may
\* create one between this and the INSERT.
Select(p) ==
  /\ At(p, "select")
  /\ \/ /\ MostRecent = {}
        /\ procs' = [procs EXCEPT ![p].pc = "create"]
     \/ \E conv \in MostRecent :
          procs' = [procs EXCEPT ![p].pc = "load", ![p].conv = conv,
                                 ![p].found = Len(rows)]
  /\ UNCHANGED <<convs, rows, steady, wall, starts, env>>

\* create_conversation.  Where conversations are made apart, time goes on
\* before the next one.
Create(p) ==
  /\ At(p, "create")
  /\ env.apart # "any" => steady < MaxClock
  /\ env.apart = "second" => wall < MaxClock
  /\ CreateConversation
  /\ procs' = [procs EXCEPT ![p].pc = "load", ![p].conv = GenerateId,
                            ![p].found = Len(rows)]
  /\ steady' = IF env.apart = "any" THEN steady ELSE steady + 1
  /\ wall' = IF env.apart = "second" THEN wall + 1 ELSE wall
  /\ UNCHANGED <<rows, starts, env>>

\* set_history_store loads the history of the conversation.
LoadHistory(p) ==
  /\ At(p, "load")
  /\ procs' = [procs EXCEPT ![p].pc = "listen", ![p].loaded = GetRecent(procs[p].conv)]
  /\ UNCHANGED <<convs, rows, steady, wall, starts, env>>

\* listen() serves until the process is killed, whoever else listens on the
\* port; or it fails, as the port belongs to another program or user, and main
\* returns.
Listen(p) ==
  /\ At(p, "listen")
  /\ \/ procs' = [procs EXCEPT ![p].pc = "up"]
     \/ procs' = [procs EXCEPT ![p] = Down]
  /\ UNCHANGED <<convs, rows, steady, wall, starts, env>>

\* add_message, for the conversation of the process.
AddMessage(p) ==
  /\ At(p, "up")
  /\ Len(rows) < MaxRows
  /\ rows' = Append(rows, procs[p].conv)
  /\ UNCHANGED <<convs, steady, wall, starts, procs, env>>

\* The process is killed, at any point: each INSERT was committed on its own.
Stop(p) ==
  /\ ~At(p, "down")
  /\ procs' = [procs EXCEPT ![p] = Down]
  /\ UNCHANGED <<convs, rows, steady, wall, starts, env>>

\* Time passes: steady_clock always, the wall clock perhaps to the next second.
Tick ==
  /\ steady < MaxClock
  /\ steady' = steady + 1
  /\ wall' \in {wall} \cup (IF wall < MaxClock THEN {wall + 1} ELSE {})
  /\ UNCHANGED <<convs, rows, starts, procs, env>>

\* The machine boots: steady_clock begins again.
Reboot ==
  /\ env.reboots
  /\ steady' = 0
  /\ wall < MaxClock /\ wall' = wall + 1
  /\ procs' = [p \in Procs |-> Down]
  /\ UNCHANGED <<convs, rows, starts, env>>

\* The clocks stand at their bound.
Stopped == steady = MaxClock /\ (\A p \in Procs : At(p, "down")) /\ UNCHANGED vars

Step(p) ==
  \/ \E new \in BOOLEAN : Start(p, new)
  \/ Select(p) \/ Create(p) \/ LoadHistory(p) \/ Listen(p) \/ AddMessage(p) \/ Stop(p)

Next ==
  \/ \E p \in Procs : Step(p)
  \/ Tick
  \/ Reboot
  \/ Stopped

Spec == Init /\ [][Next]_vars

-----------------------------------------------------------------------------
(* Properties *)

\* Processes started with --new-conversation have loaded what was stored after
\* they made their conversation.
LoadFresh ==
  \A p \in Procs : procs[p].new => \A i \in procs[p].loaded : i > procs[p].found

\* "Start a fresh conversation (ignores history)" (README.md): a process
\* started with --new-conversation loads no message that was there before it
\* made its conversation, even if its INSERT fails, another start falls in the
\* same second, or other servers write.  It takes conversations made a
\* millisecond apart, and a machine that does not boot again: steady_clock then
\* makes an old id a second time, the INSERT fails unnoticed, and the old
\* conversation is continued.
NewIsFresh == ~env.reboots /\ env.apart # "any" => LoadFresh

\* The FOREIGN KEY of the schema, which SQLite does not enforce by default:
\* every message belongs to a conversation of the table, where the next
\* process can find it, although an id may be made twice, also by two servers
\* that found no conversation at once.  It takes INSERTs that work:
\* create_conversation does not look.
MessagesReachable ==
  ~env.insertFails => \A i \in 1 .. Len(rows) : rows[i] \in Ids

\* Whoever continues a conversation with this step takes that of the last INSERT.
TakesLast ==
  \A p \in Procs : At(p, "select") /\ procs'[p].pc = "load"
                     => procs'[p].conv = convs[Len(convs)].id

\* "Get the most recent conversation ID" (history_store.h): without
\* --new-conversation a process continues the conversation whose INSERT was the
\* last, whichever processes made the others: servers that are still up, starts
\* that failed to listen, starts whose INSERT failed.  It takes conversations
\* made in different seconds: those of one second are equal to the SELECT.
ContinuesLatest == [][env.apart = "second" => TakesLast]_vars

=============================================================================
