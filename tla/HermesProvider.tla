---------------------------- MODULE HermesProvider ----------------------------
(***************************************************************************)
(* The Hermes memory provider (integrations/hermes): the persona it loads  *)
(* at session start, background recall, and the save-nudge.                *)
(*                                                                         *)
(* The host's turn loop calls the provider's hooks from one thread: per    *)
(* turn on_turn_start, prefetch, tool calls, sync_turn, and queue_prefetch *)
(* to warm the next turn.  The threads queue_prefetch starts run beside it *)
(* and end in any order; a recall takes up to the HTTP timeout (6 s),      *)
(* prefetch waits for the newest thread for 3 s.                           *)
(*                                                                         *)
(* What a recall found is known by the token it was queued with; token 0   *)
(* stands for the empty string.  Since one thread queues, the newest token *)
(* is the length of the list of queries asked, and the thread handle       *)
(* belongs to it.                                                          *)
(***************************************************************************)
EXTENDS Naturals, Sequences

CONSTANTS
    MaxTurn,   \* bound: turns of the session
    Cadence,   \* DAIMON_NUDGE_CADENCE; 0: no quiet nudge
    Library    \* system kinds the server has a record of; none if it is down

ASSUME MaxTurnAssumption == MaxTurn \in Nat
ASSUME CadenceAssumption == Cadence \in Nat

VARIABLES
    host,        \* where the host's turn loop is
    turn,        \* number of the current turn
    blank,       \* is there no message, or a blank one?
    asked,       \* for each token, the turn whose message is its query
    running,     \* tokens whose thread is still at work
    stash,       \* _prefetch_result: the token whose hits it holds
    gaveUp,      \* history: did the join of this prefetch time out?
    lastServed,  \* history: the last token whose hits were injected
    pending,     \* _nudge_pending
    quiet,       \* _nudge_quiet
    saved,       \* _nudge_saved
    outcome,     \* history: what became of the saves of this turn
    sinceSave,   \* history: turns since a record was stored by a tool call
    silent,      \* history: turns since a record was stored or a nudge left
    refused,     \* history: those of them whose saves all failed
    block        \* kinds in _system_block

hostVars == <<host, turn, blank>>
recallVars == <<asked, running, stash, gaveUp, lastServed>>
nudgeVars == <<pending, quiet, saved, outcome, sinceSave, silent, refused>>
vars == <<hostVars, recallVars, nudgeVars, block>>

SystemKind == {"persona", "protocol"}

ASSUME LibraryAssumption == Library \subseteq SystemKind

Newest == Len(asked)

TypeOK ==
    /\ host \in {"new", "idle", "join", "take", "turn", "warm"}
    /\ turn \in 0..MaxTurn
    /\ blank \in BOOLEAN /\ gaveUp \in BOOLEAN
    /\ saved \in BOOLEAN /\ outcome \in {"none", "refused", "stored"}
    /\ asked \in Seq(1..MaxTurn)
    /\ running \subseteq 1..Newest
    /\ stash \in 0..Newest /\ lastServed \in 0..Newest
    /\ pending \in {"none", "signal", "quiet"}
    /\ Cadence > 0 => quiet < Cadence
    /\ quiet \in Nat /\ sinceSave \in Nat /\ silent \in Nat /\ refused \in Nat
    /\ block \subseteq SystemKind

Init ==
    /\ host = "new" /\ turn = 0 /\ blank = TRUE
    /\ asked = <<>> /\ running = {} /\ stash = 0
    /\ gaveUp = FALSE /\ lastServed = 0
    /\ pending = "none" /\ quiet = 0 /\ saved = FALSE
    /\ outcome = "none" /\ sinceSave = 0 /\ silent = 0 /\ refused = 0
    /\ block = {}

-----------------------------------------------------------------------------
\* _DaimonClient.recall: no request is made for a blank query without a
\* namespace prefix; hits are what the server would answer.
ClientRecall(query, prefix, hits) ==
    IF query = "" /\ prefix = "" THEN {} ELSE hits

\* initialize() and _load_system_block(): one recall per system kind.
Initialize ==
    /\ host = "new"
    /\ block' = UNION {ClientRecall("", "", Library \cap {k}) : k \in SystemKind}
    /\ host' = "idle"
    /\ UNCHANGED <<turn, blank, recallVars, nudgeVars>>

\* queue_prefetch for the message of turn n.
Queue(n) ==
    /\ asked' = Append(asked, n)
    /\ running' = running \cup {Newest + 1}

\* MUTANT of OnTurnStart: the turn's own message is not warmed.
OnTurnStart_NoWarm(b) ==
    /\ host = "idle"
    /\ turn < MaxTurn
    /\ turn' = turn + 1
    /\ blank' = b
    /\ host' = "join"
    /\ UNCHANGED <<recallVars, nudgeVars, block>>

OnTurnStart(b) ==
    /\ host = "idle"
    /\ turn < MaxTurn
    /\ turn' = turn + 1
    /\ blank' = b
    /\ IF b THEN UNCHANGED <<asked, running>> ELSE Queue(turn + 1)
    /\ host' = "join"
    /\ UNCHANGED <<stash, gaveUp, lastServed, nudgeVars, block>>

\* prefetch: join(timeout=3.0), which gives up if the newest thread is at work.
Join ==
    /\ host = "join"
    /\ gaveUp' = (Newest \in running)
    /\ host' = "take"
    /\ UNCHANGED <<turn, blank, asked, running, stash, lastServed, nudgeVars, block>>

\* prefetch: the stash, and the nudge with it, are injected and cleared.
Take ==
    /\ host = "take"
    /\ lastServed' = IF stash = 0 THEN lastServed ELSE stash
    /\ stash' = 0
    /\ pending' = "none"
    /\ host' = "turn"
    /\ gaveUp' = FALSE
    /\ UNCHANGED <<turn, blank, asked, running, quiet, saved, outcome,
                   sinceSave, silent, refused, block>>

\* MUTANT of Work: a thread commits whatever was queued after it.
Work_AnyToken(k) ==
    /\ running' = running \ {k}
    /\ stash' \in {0, k}
    /\ UNCHANGED <<asked, gaveUp, lastServed, hostVars, nudgeVars, block>>

\* The thread of token k has its answer (k) or none (0), and only the newest
\* commits it.
Work(k) ==
    /\ running' = running \ {k}
    /\ stash' \in IF k = Newest THEN {0, k} ELSE {stash}
    /\ UNCHANGED <<asked, gaveUp, lastServed, hostVars, nudgeVars, block>>

\* handle_tool_call("daimon_remember"): the flag is set before the store, which
\* may be refused or fail.
Remember ==
    /\ host = "turn"
    /\ saved' = TRUE
    /\ outcome' \in {"stored", IF outcome = "stored" THEN "stored" ELSE "refused"}
    /\ UNCHANGED <<hostVars, recallVars, pending, quiet, sinceSave, silent, refused,
                   block>>

\* What the turn leaves in the histories.
Count(heard) ==
    /\ outcome' = "none"
    /\ sinceSave' = IF outcome = "stored" THEN 0 ELSE sinceSave + 1
    /\ silent' = IF heard \/ outcome = "stored" THEN 0 ELSE silent + 1
    /\ refused' = IF heard \/ outcome = "stored" THEN 0
                  ELSE IF outcome = "refused" THEN refused + 1 ELSE refused

\* sync_turn of a turn with a save: it is covered, whatever became of the save.
CoveredTurn ==
    /\ saved
    /\ saved' = FALSE
    /\ quiet' = 0
    /\ UNCHANGED pending
    /\ Count(FALSE)

\* A save signal in the text leaves a nudge for the next prefetch.
SignalTurn ==
    /\ ~saved
    /\ pending' = "signal"
    /\ UNCHANGED <<saved, quiet>>
    /\ Count(TRUE)

Due == Cadence > 0 /\ quiet + 1 >= Cadence

\* So does a stretch of Cadence quiet turns.
QuietTurn ==
    /\ ~saved
    /\ quiet' = IF Due THEN 0 ELSE quiet + 1
    /\ pending' = IF Due THEN "quiet" ELSE pending
    /\ UNCHANGED saved
    /\ Count(Due)

EndTurn ==
    /\ host = "turn"
    /\ host' = "warm"
    /\ UNCHANGED <<turn, blank, recallVars, block>>

\* MUTANT of SyncTurn: a save does not reset the count of quiet turns.
SyncTurn_KeepsQuiet ==
    /\ EndTurn
    /\ \/ saved /\ saved' = FALSE /\ UNCHANGED <<quiet, pending>> /\ Count(FALSE)
       \/ SignalTurn
       \/ QuietTurn

\* MUTANT of SyncTurn: the quiet nudge does not start a new count.
SyncTurn_NoReset ==
    /\ EndTurn
    /\ \/ CoveredTurn
       \/ SignalTurn
       \/ /\ ~saved
          /\ quiet' = quiet + 1
          /\ pending' = IF Due THEN "quiet" ELSE pending
          /\ UNCHANGED saved
          /\ Count(Due)

\* MUTANT of SyncTurn: only a save that succeeded is forgotten after its turn.
SyncTurn_StaysRefused ==
    /\ EndTurn
    /\ \/ /\ saved
          /\ saved' = (outcome # "stored")
          /\ quiet' = 0
          /\ UNCHANGED pending
          /\ Count(FALSE)
       \/ SignalTurn
       \/ QuietTurn

SyncTurn == EndTurn /\ (CoveredTurn \/ SignalTurn \/ QuietTurn)

\* The host warms the next turn with this turn's message.
WarmNext ==
    /\ host = "warm"
    /\ IF blank THEN UNCHANGED <<asked, running>> ELSE Queue(turn)
    /\ host' = "idle"
    /\ blank' = TRUE
    /\ UNCHANGED <<turn, stash, gaveUp, lastServed, nudgeVars, block>>

\* What the host's thread does, and what the threads it started do.
Turn ==
    \/ Initialize \/ Join \/ Take \/ Remember \/ SyncTurn \/ WarmNext
    \/ \E b \in BOOLEAN : OnTurnStart(b)

Recalls == \E k \in running : Work(k)

Next == Turn \/ Recalls

Spec == Init /\ [][Next]_vars

-----------------------------------------------------------------------------
Serves == host = "take" /\ host' = "turn" /\ stash # 0

\* Recall never goes back: no hits are injected twice, and none after hits that
\* were asked for later, however slow the threads are.
ServedInOrder == [][Serves => stash > lastServed]_vars

\* When prefetch did not give up on its thread, what it injects was recalled for
\* the message of this very turn, and not by the warm-up of an earlier one.
JoinedIsCurrent ==
    [][(Serves /\ ~blank /\ ~gaveUp) => asked[stash] = turn]_vars

\* The quiet nudge says "Cadence turns since your last save": no record was
\* stored by a tool call in that many turns.
QuietNudgeIsTrue ==
    [][(pending # "quiet" /\ pending' = "quiet") => sinceSave' >= Cadence]_vars

\* A save that fails buys no more silence than a save: until a record is stored
\* or a nudge is left, fewer than Cadence turns pass, and at most Cadence more
\* for each turn whose saves were refused or lost (handle_tool_call takes the
\* turn for covered before it knows).
SilenceBounded == Cadence > 0 => silent < Cadence * (refused + 1)

\* A session starts with the persona and the protocols the server has in its
\* instruction layer.
SystemKindsLoad == host # "new" => block = Library
=============================================================================
