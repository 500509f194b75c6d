---------------------------- MODULE HermesSession ----------------------------
(***************************************************************************)
(* The Hermes provider over a whole session: beside the turns and recalls  *)
(* of HermesProvider, the writes of the host's own memory that the         *)
(* provider mirrors, each on a thread of its own, and the two ends: of a   *)
(* session (the process may go on with another) and of the provider.       *)
(*                                                                         *)
(* A write takes as long as its HTTP request, which may exceed the 5 s a   *)
(* drain waits for each thread.  Writes are numbered in the order they     *)
(* are started; nothing here depends on what they hold.  The threads are   *)
(* daemon threads: what is still in flight when the process ends is lost.  *)
(***************************************************************************)
EXTENDS HermesProvider

CONSTANT MaxWrite   \* bound: mirrored writes

ASSUME MaxWriteAssumption == MaxWrite \in Nat

VARIABLES
    life,      \* is the host in its turns, in on_session_end, in shutdown?
    started,   \* number of mirrored writes so far
    writing,   \* those whose thread is at work
    listed,    \* _write_threads
    toJoin,    \* what the loop of _drain_writes has still before it
    overdue    \* history: those this drain has given up on

writeVars == <<life, started, writing, listed, toJoin, overdue>>
sessionVars == <<vars, writeVars>>

SessionTypeOK ==
    /\ TypeOK
    /\ life \in {"turns", "ending", "stopping", "drained", "closed"}
    /\ started \in 0..MaxWrite
    /\ writing \subseteq 1..started
    /\ listed \subseteq 1..started
    /\ toJoin \subseteq listed
    /\ overdue \subseteq listed

SessionInit ==
    /\ Init
    /\ life = "turns" /\ started = 0
    /\ writing = {} /\ listed = {} /\ toJoin = {} /\ overdue = {}

-----------------------------------------------------------------------------
\* A turn of the host, while it is not busy ending the session.
HostTurn ==
    /\ life = "turns"
    /\ Turn
    /\ UNCHANGED writeVars

\* on_memory_write of an add or a replace with a text: _spawn_write.  (Any other
\* call does nothing.)
OnMemoryWrite ==
    /\ life = "turns" /\ host = "turn"
    /\ started < MaxWrite
    /\ started' = started + 1
    /\ writing' = writing \cup {started + 1}
    /\ listed' = listed \cup {started + 1}
    /\ UNCHANGED <<vars, life, toJoin, overdue>>

\* The request is answered, refused, or fails: _work only logs.
WriteEnds(w) ==
    /\ writing' = writing \ {w}
    /\ UNCHANGED <<vars, life, started, listed, toJoin, overdue>>

\* on_session_end, shutdown: the loop runs over a copy of the list.
BeginDrain(end) ==
    /\ life = "turns" /\ host = "idle"
    /\ life' = end
    /\ toJoin' = listed
    /\ overdue' = {}
    /\ UNCHANGED <<vars, started, writing, listed>>

Draining == life \in {"ending", "stopping"}

\* MUTANT of JoinWrite: join() without a timeout.
JoinWrite_NoTimeout(w) ==
    /\ Draining
    /\ w \in toJoin /\ \A x \in toJoin : w <= x
    /\ w \notin writing
    /\ toJoin' = toJoin \ {w}
    /\ UNCHANGED <<vars, life, started, writing, listed, overdue>>

\* join(timeout=5.0) on the next thread: it has ended, or the drain gives up.
JoinWrite(w) ==
    /\ Draining
    /\ w \in toJoin /\ \A x \in toJoin : w <= x
    /\ toJoin' = toJoin \ {w}
    /\ overdue' = IF w \in writing THEN overdue \cup {w} ELSE overdue
    /\ UNCHANGED <<vars, life, started, writing, listed>>

\* MUTANT of EndDrain: every thread the loop has seen is forgotten.
EndDrain_Forgets ==
    /\ Draining /\ toJoin = {}
    /\ listed' = {} /\ overdue' = {}
    /\ life' = IF life = "ending" THEN "turns" ELSE "drained"
    /\ UNCHANGED <<vars, started, writing, toJoin>>

\* The threads still alive stay listed.
EndDrain ==
    /\ Draining /\ toJoin = {}
    /\ listed' = listed \cap writing
    /\ overdue' = IF life = "ending" THEN {} ELSE overdue \cap listed'
    /\ life' = IF life = "ending" THEN "turns" ELSE "drained"
    /\ UNCHANGED <<vars, started, writing, toJoin>>

\* shutdown closes the client; a write in flight loses its connection.
Close ==
    /\ life = "drained"
    /\ life' = "closed"
    /\ UNCHANGED <<vars, started, writing, listed, toJoin, overdue>>

Drain == EndDrain \/ \E w \in toJoin : JoinWrite(w)

SessionNext ==
    \/ HostTurn \/ OnMemoryWrite
    \/ Recalls /\ UNCHANGED writeVars
    \/ \E w \in writing : WriteEnds(w)
    \/ BeginDrain("ending") \/ BeginDrain("stopping")
    \/ Drain \/ Close

SessionSpec == SessionInit /\ [][SessionNext]_sessionVars

\* The host's one thread goes on as long as it has something to do by itself: it
\* is in prefetch, or ending.  Nothing is assumed of the recalls and the writes.
HostStep == (HostTurn /\ (Join \/ Take)) \/ Drain \/ Close

FairSession == SessionSpec /\ WF_sessionVars(HostStep)

-----------------------------------------------------------------------------
\* The client is closed under no write in flight but those the last drain waited
\* its full time for, those an earlier one had given up on included.
CloseSparesWrites ==
    [][(life # "closed" /\ life' = "closed") => writing \subseteq overdue]_sessionVars

Busy == host \in {"join", "take"} \/ life \in {"ending", "stopping", "drained"}

\* Neither a recall nor a write that hangs forever holds up the host: prefetch
\* returns, and so do on_session_end and shutdown.
HostNeverHangs == Busy ~> ~Busy
=============================================================================
