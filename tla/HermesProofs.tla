----------------------------- MODULE HermesProofs -----------------------------
(***************************************************************************)
(* Theorems about HermesSession, for any number of turns and writes, any   *)
(* cadence, and recalls and writes as slow as they like.                   *)
(*                                                                         *)
(* The argument.  Recalls: a token that is in the stash or was served has  *)
(* no thread any more, and only the newest token can enter the stash, so   *)
(* what enters is newer than all that was served; when the newest thread   *)
(* has ended, the stash holds its answer or nothing.  Nudges: turns since  *)
(* a save are at least the quiet ones counted, and the silent turns are    *)
(* those counted now, and at most Cadence for each turn whose saves were   *)
(* refused.  Writes: a thread at work is listed, and while a drain is on,  *)
(* it is still to be joined or was given up on.                            *)
(***************************************************************************)
EXTENDS HermesSession, TLAPS

RecallInv ==
    /\ host \in {"join", "take", "turn", "warm"} => turn > 0
    /\ stash \notin running /\ lastServed \notin running
    /\ stash # 0 => lastServed < stash
    /\ Newest \notin running => stash \in {0, Newest}
    /\ (host \in {"join", "take"} /\ ~blank) => Newest > 0 /\ asked[Newest] = turn
    /\ (host = "take" /\ ~gaveUp) => Newest \notin running

NudgeInv ==
    /\ quiet <= sinceSave
    /\ saved <=> outcome # "none"
    /\ Cadence > 0 => silent <= quiet + Cadence * refused

WriteInv ==
    /\ writing \subseteq listed
    /\ Draining => writing \subseteq overdue \cup toJoin
    /\ life = "drained" => writing \subseteq overdue

HInv == SessionTypeOK /\ RecallInv /\ NudgeInv /\ WriteInv

-----------------------------------------------------------------------------
\* One more query is asked, for the message of turn n.
LEMMA QueueGrows ==
    ASSUME asked \in Seq(1..MaxTurn), running \subseteq 1..Newest,
           NEW n \in 1..MaxTurn, Queue(n)
    PROVE  /\ asked' \in Seq(1..MaxTurn)
           /\ Newest \in Nat /\ Newest' = Newest + 1
           /\ asked'[Newest'] = n
           /\ running' = running \cup {Newest'}
           /\ running' \subseteq 1..Newest'
<1>1. Newest \in Nat /\ asked' = Append(asked, n)
  BY DEF Queue, Newest
<1>2. asked' \in Seq(1..MaxTurn) /\ Len(asked') = Len(asked) + 1
      /\ asked'[Len(asked) + 1] = n
  BY <1>1
<1>3. Newest' = Newest + 1 /\ asked'[Newest'] = n
  BY <1>2 DEF Newest
<1>4. running' = running \cup {Newest'}
  BY <1>3 DEF Queue
<1> QED BY <1>1, <1>2, <1>3, <1>4

\* What the host's thread does keeps the types.
LEMMA TurnTypes ==
    ASSUME TypeOK, RecallInv, Turn
    PROVE  TypeOK'
<1> USE MaxTurnAssumption, CadenceAssumption DEF TypeOK
<1>1. Newest \in Nat
  BY DEF Newest
<1>2. CASE Initialize
  <2>1. \A k \in SystemKind : ClientRecall("", "", Library \cap {k}) = {}
    BY DEF ClientRecall
  <2>2. block' = {}
    BY <1>2, <2>1 DEF Initialize
  <2> QED BY <1>2, <2>2 DEF Initialize, recallVars, nudgeVars, Newest
<1>3. CASE Join
  BY <1>3 DEF Join, nudgeVars, Newest
<1>4. CASE Take
  <2>1. Newest' = Newest /\ running' = running /\ asked' = asked
    BY <1>4 DEF Take, Newest
  <2>2. stash' \in 0..Newest /\ lastServed' \in 0..Newest
    BY <1>1, <1>4 DEF Take
  <2> QED BY <1>4, <2>1, <2>2 DEF Take
<1>5. CASE Remember
  BY <1>5 DEF Remember, hostVars, recallVars, Newest
<1>6. CASE SyncTurn
  <2>1. ASSUME NEW heard \in BOOLEAN, Count(heard)
        PROVE  /\ outcome' = "none" /\ sinceSave' \in Nat
               /\ silent' \in Nat /\ refused' \in Nat
    BY <2>1 DEF Count
  <2>2. Due \in BOOLEAN
    BY DEF Due
  <2>3. /\ outcome' = "none" /\ sinceSave' \in Nat
        /\ silent' \in Nat /\ refused' \in Nat
    BY <1>6, <2>1, <2>2 DEF SyncTurn, CoveredTurn, SignalTurn, QuietTurn
  <2>4. /\ saved' \in BOOLEAN /\ pending' \in {"none", "signal", "quiet"}
        /\ quiet' \in Nat /\ (Cadence > 0 => quiet' < Cadence)
    <3>1. CASE CoveredTurn
      BY <3>1 DEF CoveredTurn
    <3>2. CASE SignalTurn
      BY <3>2 DEF SignalTurn
    <3>3. CASE QuietTurn
      <4>1. saved' = saved /\ pending' \in {pending, "quiet"}
        BY <3>3 DEF QuietTurn
      <4>2. quiet' \in Nat /\ (Cadence > 0 => quiet' < Cadence)
        BY <3>3 DEF QuietTurn, Due
      <4> QED BY <4>1, <4>2
    <3> QED BY <1>6, <3>1, <3>2, <3>3 DEF SyncTurn
  <2> QED BY <1>6, <2>3, <2>4 DEF SyncTurn, EndTurn, recallVars, Newest
<1>7. CASE WarmNext
  <2>1. CASE UNCHANGED <<asked, running>>
    BY <1>7, <2>1 DEF WarmNext, nudgeVars, Newest
  <2>2. CASE Queue(turn)
    <3>1. turn \in 1..MaxTurn
      BY <1>7 DEF WarmNext, RecallInv
    <3> QED BY <1>7, <2>2, <3>1, QueueGrows DEF WarmNext, nudgeVars
  <2> QED BY <1>7, <2>1, <2>2 DEF WarmNext
<1>8. ASSUME NEW b \in BOOLEAN, OnTurnStart(b)
      PROVE  TypeOK'
  <2>1. turn + 1 \in 1..MaxTurn
    BY <1>8 DEF OnTurnStart
  <2>2. CASE UNCHANGED <<asked, running>>
    BY <1>8, <2>1, <2>2 DEF OnTurnStart, nudgeVars, Newest
  <2>3. CASE Queue(turn + 1)
    BY <1>8, <2>1, <2>3, QueueGrows DEF OnTurnStart, nudgeVars
  <2> QED BY <1>8, <2>2, <2>3 DEF OnTurnStart
<1> QED BY <1>2, <1>3, <1>4, <1>5, <1>6, <1>7, <1>8 DEF Turn

\* So does a recall thread.
LEMMA WorkTypes ==
    ASSUME TypeOK, NEW k \in running, Work(k)
    PROVE  TypeOK'
BY DEF TypeOK, Work, hostVars, nudgeVars, Newest

-----------------------------------------------------------------------------
\* The host's thread keeps the newest token with the newest query, and the stash unserved.
LEMMA TurnRecalls ==
    ASSUME TypeOK, RecallInv, Turn
    PROVE  RecallInv'
<1> USE MaxTurnAssumption DEF TypeOK, RecallInv
<1>1. Newest \in Nat
  BY DEF Newest
<1>2. CASE Initialize
  BY <1>2 DEF Initialize, recallVars, Newest
<1>3. CASE Join
  BY <1>3 DEF Join, Newest
<1>4. CASE Take
  BY <1>1, <1>4 DEF Take, Newest
<1>5. CASE Remember
  BY <1>5 DEF Remember, hostVars, recallVars, Newest
<1>6. CASE SyncTurn
  BY <1>6 DEF SyncTurn, EndTurn, recallVars, Newest
<1>7. CASE WarmNext
  <2>1. CASE UNCHANGED <<asked, running>>
    BY <1>7, <2>1 DEF WarmNext, Newest
  <2>2. CASE Queue(turn)
    <3>1. turn \in 1..MaxTurn
      BY <1>7 DEF WarmNext
    <3> QED BY <1>7, <2>2, <3>1, QueueGrows DEF WarmNext
  <2> QED BY <1>7, <2>1, <2>2 DEF WarmNext
<1>8. ASSUME NEW b \in BOOLEAN, OnTurnStart(b)
      PROVE  RecallInv'
  <2>1. turn + 1 \in 1..MaxTurn
    BY <1>8 DEF OnTurnStart
  <2>2. CASE b
    BY <1>8, <2>1, <2>2 DEF OnTurnStart, Newest
  <2>3. CASE ~b
    <3>1. /\ Newest' = Newest + 1 /\ asked'[Newest'] = turn + 1
          /\ running' = running \cup {Newest'}
      BY <1>8, <2>1, <2>3, QueueGrows DEF OnTurnStart
    <3> QED BY <1>1, <1>8, <2>1, <3>1 DEF OnTurnStart
  <2> QED BY <2>2, <2>3
<1> QED BY <1>2, <1>3, <1>4, <1>5, <1>6, <1>7, <1>8 DEF Turn

\* Only the newest thread commits, and what it commits is its own token.
LEMMA WorkRecalls ==
    ASSUME TypeOK, RecallInv, NEW k \in running, Work(k)
    PROVE  RecallInv'
<1>1. Newest \in Nat /\ Newest' = Newest /\ k \in 1..Newest
  BY DEF TypeOK, Work, Newest
<1>2. CASE k = Newest
  BY <1>1, <1>2 DEF TypeOK, RecallInv, Work, hostVars
<1>3. CASE k # Newest
  BY <1>1, <1>3 DEF TypeOK, RecallInv, Work, hostVars
<1> QED BY <1>2, <1>3

-----------------------------------------------------------------------------
\* The host's thread keeps count: silence is paid for by refused turns.
LEMMA TurnNudges ==
    ASSUME TypeOK, NudgeInv, Turn
    PROVE  NudgeInv'
<1> USE CadenceAssumption DEF TypeOK, NudgeInv
<1>1. CASE UNCHANGED <<quiet, saved, outcome, sinceSave, silent, refused>>
  BY <1>1
<1>2. CASE Remember
  BY <1>2 DEF Remember
<1>3. CASE SyncTurn
  <2>1. Cadence * refused \in Nat /\ Cadence * (refused + 1) = Cadence * refused + Cadence
    BY SMT
  <2>2. CASE CoveredTurn
    <3>1. saved /\ outcome # "none" /\ quiet' = 0 /\ ~saved' /\ outcome' = "none"
      BY <2>2 DEF CoveredTurn, Count
    <3>2. sinceSave' \in Nat
      BY <2>2 DEF CoveredTurn, Count
    <3>3. CASE outcome = "stored"
      <4>1. silent' = 0 /\ refused' = 0
        BY <2>2, <3>3 DEF CoveredTurn, Count
      <4> QED BY <3>1, <3>2, <4>1
    <3>4. CASE outcome = "refused"
      <4>1. silent' = silent + 1 /\ refused' = refused + 1
        BY <2>2, <3>4 DEF CoveredTurn, Count
      <4>2. Cadence > 0 => silent <= quiet + Cadence * refused /\ quiet < Cadence
        OBVIOUS
      <4>3. Cadence > 0 => silent + 1 <= 0 + Cadence * (refused + 1)
        BY <2>1, <4>2
      <4> QED BY <3>1, <3>2, <4>1, <4>3
    <3> QED BY <3>1, <3>3, <3>4
  <2>3. CASE SignalTurn
    BY <2>3 DEF SignalTurn, Count
  <2>4. CASE QuietTurn
    <3>1. ~saved /\ outcome = "none" /\ ~saved' /\ outcome' = "none"
      BY <2>4 DEF QuietTurn, Count
    <3>2. sinceSave' = sinceSave + 1
      BY <2>4, <3>1 DEF QuietTurn, Count
    <3>3. CASE Due
      <4>1. quiet' = 0 /\ silent' = 0 /\ refused' = 0
        BY <2>4, <3>3 DEF QuietTurn, Count
      <4> QED BY <3>1, <3>2, <4>1
    <3>4. CASE ~Due
      <4>1. quiet' = quiet + 1 /\ silent' = silent + 1 /\ refused' = refused
        BY <2>4, <3>1, <3>4 DEF QuietTurn, Count
      <4>2. Cadence > 0 => silent + 1 <= (quiet + 1) + Cadence * refused
        BY <2>1
      <4> QED BY <3>1, <3>2, <4>1, <4>2
    <3> QED BY <3>3, <3>4
  <2> QED BY <1>3, <2>2, <2>3, <2>4 DEF SyncTurn
<1> QED BY <1>1, <1>2, <1>3
        DEF Turn, Initialize, Join, Take, WarmNext, OnTurnStart, nudgeVars

-----------------------------------------------------------------------------
\* The steps of the writes and of the two ends.
WriteStep ==
    \/ OnMemoryWrite
    \/ \E w \in writing : WriteEnds(w)
    \/ BeginDrain("ending") \/ BeginDrain("stopping")
    \/ Drain \/ Close

\* A step of the mirrored writes keeps their invariant and leaves the turns alone.
LEMMA WriteSteps ==
    ASSUME SessionTypeOK, WriteInv, WriteStep
    PROVE  SessionTypeOK' /\ WriteInv' /\ UNCHANGED vars
<1> USE MaxWriteAssumption DEF SessionTypeOK
<1>0. TypeOK /\ UNCHANGED vars => TypeOK'
  BY DEF TypeOK, vars, hostVars, recallVars, nudgeVars, Newest
<1>1. CASE OnMemoryWrite
  BY <1>0, <1>1 DEF OnMemoryWrite, WriteInv, Draining
<1>2. ASSUME NEW w \in writing, WriteEnds(w)
      PROVE  SessionTypeOK' /\ WriteInv' /\ UNCHANGED vars
  BY <1>0, <1>2 DEF WriteEnds, WriteInv, Draining
<1>3. CASE BeginDrain("ending") \/ BeginDrain("stopping")
  BY <1>0, <1>3 DEF BeginDrain, WriteInv, Draining
<1>4. CASE EndDrain
  BY <1>0, <1>4 DEF EndDrain, WriteInv, Draining
<1>5. ASSUME NEW w \in toJoin, JoinWrite(w)
      PROVE  SessionTypeOK' /\ WriteInv' /\ UNCHANGED vars
  BY <1>0, <1>5 DEF JoinWrite, WriteInv, Draining
<1>6. CASE Close
  BY <1>0, <1>6 DEF Close, WriteInv, Draining
<1> QED BY <1>1, <1>2, <1>3, <1>4, <1>5, <1>6 DEF WriteStep, Drain

-----------------------------------------------------------------------------
\* The invariant holds over a whole session.
LEMMA HInvariance == SessionSpec => []HInv
<1>1. SessionInit => HInv
  <2> SUFFICES ASSUME SessionInit
               PROVE  HInv
    OBVIOUS
  <2>1. asked = <<>> /\ Newest = 0 /\ asked \in Seq(1..MaxTurn)
    BY DEF SessionInit, Init, Newest
  <2>2. SessionTypeOK
    <3>1. /\ turn \in 0..MaxTurn /\ started \in 0..MaxWrite
          /\ quiet \in Nat /\ sinceSave \in Nat /\ silent \in Nat /\ refused \in Nat
          /\ stash \in 0..Newest /\ lastServed \in 0..Newest
          /\ Cadence > 0 => quiet < Cadence
      BY <2>1, MaxTurnAssumption, MaxWriteAssumption, CadenceAssumption
         DEF SessionInit, Init
    <3>2. /\ host \in {"new", "idle", "join", "take", "turn", "warm"}
          /\ pending \in {"none", "signal", "quiet"}
          /\ outcome \in {"none", "refused", "stored"}
          /\ life \in {"turns", "ending", "stopping", "drained", "closed"}
      BY DEF SessionInit, Init
    <3>3. /\ blank \in BOOLEAN /\ gaveUp \in BOOLEAN /\ saved \in BOOLEAN
          /\ running \subseteq 1..Newest /\ block \subseteq SystemKind
          /\ writing \subseteq 1..started /\ listed \subseteq 1..started
          /\ toJoin \subseteq listed /\ overdue \subseteq listed
      BY DEF SessionInit, Init
    <3> QED BY <2>1, <3>1, <3>2, <3>3 DEF SessionTypeOK, TypeOK
  <2>3. Cadence * refused = 0
    BY CadenceAssumption DEF SessionInit, Init
  <2>4. RecallInv /\ NudgeInv /\ WriteInv
    BY <2>1, <2>3, CadenceAssumption
       DEF SessionInit, Init, RecallInv, NudgeInv, WriteInv, Draining
  <2> QED BY <2>2, <2>4 DEF HInv
<1>2. HInv /\ [SessionNext]_sessionVars => HInv'
  <2> SUFFICES ASSUME HInv, [SessionNext]_sessionVars
               PROVE  HInv'
    OBVIOUS
  <2>1. CASE UNCHANGED sessionVars
    BY <2>1 DEF sessionVars, vars, writeVars, hostVars, recallVars, nudgeVars, HInv,
         SessionTypeOK, TypeOK, Newest, RecallInv, NudgeInv, WriteInv, Draining
  <2>2. CASE HostTurn
    <3>1. TypeOK' /\ RecallInv' /\ NudgeInv'
      BY <2>2, TurnTypes, TurnRecalls, TurnNudges DEF HostTurn, HInv, SessionTypeOK
    <3> QED BY <2>2, <3>1
            DEF HostTurn, HInv, SessionTypeOK, WriteInv, Draining, writeVars
  <2>3. CASE Recalls /\ UNCHANGED writeVars
    <3>1. PICK k \in running : Work(k)
      BY <2>3 DEF Recalls
    <3>2. TypeOK' /\ RecallInv'
      BY <3>1, WorkTypes, WorkRecalls DEF HInv, SessionTypeOK
    <3>3. NudgeInv'
      BY <3>1 DEF Work, nudgeVars, HInv, NudgeInv
    <3> QED BY <2>3, <3>2, <3>3
            DEF HInv, SessionTypeOK, WriteInv, Draining, writeVars
  <2>4. CASE WriteStep
    <3>1. SessionTypeOK' /\ WriteInv' /\ UNCHANGED vars
      BY <2>4, WriteSteps DEF HInv
    <3> QED BY <3>1 DEF HInv, RecallInv, NudgeInv, Newest, vars, hostVars, recallVars,
                        nudgeVars
  <2> QED BY <2>1, <2>2, <2>3, <2>4 DEF SessionNext, WriteStep
<1> QED BY <1>1, <1>2, PTL DEF SessionSpec

\* Every variable of the provider keeps its type, and a count of quiet turns that
\* reached the cadence has started anew.
THEOREM SessionTypes == SessionSpec => []SessionTypeOK
<1>1. HInv => SessionTypeOK
  BY DEF HInv
<1> QED BY <1>1, HInvariance, PTL

\* A save that was refused or lost buys at most one more cadence of silence.
THEOREM SilenceEnds == SessionSpec => []SilenceBounded
<1>1. HInv => SilenceBounded
  <2> SUFFICES ASSUME HInv, Cadence > 0
               PROVE  silent < Cadence * (refused + 1)
    BY DEF SilenceBounded
  <2>1. /\ silent \in Nat /\ quiet \in Nat /\ refused \in Nat
        /\ quiet < Cadence /\ silent <= quiet + Cadence * refused
    BY DEF HInv, SessionTypeOK, TypeOK, NudgeInv
  <2>2. Cadence * refused \in Nat /\ Cadence * (refused + 1) = Cadence * refused + Cadence
    BY <2>1, CadenceAssumption
  <2> QED BY <2>1, <2>2, CadenceAssumption
<1> QED BY <1>1, HInvariance, PTL

\* Steps of the writes and of the ends serve no recall and leave no nudge.
LEMMA OnlyTurnsTell ==
    ASSUME HInv, [SessionNext]_sessionVars
    PROVE  \/ Turn
           \/ UNCHANGED <<host, pending>>
<1>1. CASE UNCHANGED sessionVars
  BY <1>1 DEF sessionVars, vars, hostVars, nudgeVars
<1>2. CASE WriteStep
  BY <1>2, WriteSteps DEF HInv, vars, hostVars, nudgeVars
<1>3. CASE Recalls
  BY <1>3 DEF Recalls, Work, hostVars, nudgeVars
<1> QED BY <1>1, <1>2, <1>3 DEF SessionNext, HostTurn, WriteStep

\* No hits are injected twice, and none after hits asked for later.
THEOREM RecallNeverGoesBack == SessionSpec => ServedInOrder
<1>1. HInv /\ [SessionNext]_sessionVars => (Serves => stash > lastServed)
  BY DEF HInv, SessionTypeOK, TypeOK, RecallInv, Serves, Newest
<1> QED BY <1>1, HInvariance, PTL DEF SessionSpec, ServedInOrder

\* What prefetch waited for is recalled for the message of this turn.
THEOREM WaitedForIsCurrent == SessionSpec => JoinedIsCurrent
<1>1. HInv => ((host = "take" /\ stash # 0 /\ ~blank /\ ~gaveUp) => asked[stash] = turn)
  BY DEF HInv, RecallInv
<1>2. HInv /\ [SessionNext]_sessionVars
        => ((Serves /\ ~blank /\ ~gaveUp) => asked[stash] = turn)
  BY <1>1 DEF Serves
<1> QED BY <1>2, HInvariance, PTL DEF SessionSpec, JoinedIsCurrent

\* The quiet nudge tells the truth.
THEOREM QuietNudgeHolds == SessionSpec => QuietNudgeIsTrue
<1>1. HInv /\ [SessionNext]_sessionVars
        => ((pending # "quiet" /\ pending' = "quiet") => sinceSave' >= Cadence)
  <2> SUFFICES ASSUME HInv, [SessionNext]_sessionVars,
                      pending # "quiet", pending' = "quiet"
               PROVE  sinceSave' >= Cadence
    OBVIOUS
  <2>1. Turn
    BY OnlyTurnsTell
  <2>2. QuietTurn /\ Due
    BY <2>1 DEF Turn, Initialize, Join, Take, Remember, WarmNext, OnTurnStart,
         SyncTurn, CoveredTurn, SignalTurn, QuietTurn, nudgeVars
  <2>3. sinceSave' = sinceSave + 1
    BY <2>2 DEF QuietTurn, Count, HInv, NudgeInv
  <2> QED BY <2>2, <2>3, CadenceAssumption
          DEF Due, HInv, SessionTypeOK, TypeOK, NudgeInv
<1> QED BY <1>1, HInvariance, PTL DEF SessionSpec, QuietNudgeIsTrue

\* The client is closed under no write but those the last drain gave up on.
THEOREM CloseWaits == SessionSpec => CloseSparesWrites
<1>1. HInv /\ [SessionNext]_sessionVars
        => ((life # "closed" /\ life' = "closed") => writing \subseteq overdue)
  <2> SUFFICES ASSUME HInv, [SessionNext]_sessionVars, life # "closed", life' = "closed"
               PROVE  writing \subseteq overdue
    OBVIOUS
  <2>1. Close
    BY DEF SessionNext, sessionVars, HostTurn, OnMemoryWrite, WriteEnds, BeginDrain,
         Drain, EndDrain, JoinWrite, writeVars
  <2> QED BY <2>1 DEF Close, HInv, WriteInv
<1> QED BY <1>1, HInvariance, PTL DEF SessionSpec, CloseSparesWrites
=============================================================================
