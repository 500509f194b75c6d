----------------------------- MODULE SearchIndex -----------------------------
(***************************************************************************)
(* What the semantic index promises the readers of the store, with no      *)
(* queue, process, call or crash in it.                                    *)
(*                                                                         *)
(* The store's transactions make records live and retract them; from then  *)
(* on the index is due to look at them.  It changes what can be found of a *)
(* record only while the record is due, as often and in whichever way it   *)
(* likes, but it is done with a record only when the record is found       *)
(* exactly if it is live.  A record the index gives up on stays due.       *)
(*                                                                         *)
(* Indexer is shown to implement this.                                     *)
(***************************************************************************)
CONSTANT Record

VARIABLES
    live,       \* the records readers should find
    retracted,  \* those they should no longer find
    found,      \* those they do find
    due         \* those the index may still be wrong about

searchVars == <<live, retracted, found, due>>

Init ==
    /\ live = {} /\ retracted = {}
    /\ found = {} /\ due = {}

-----------------------------------------------------------------------------
\* A transaction commits: new records, the live ones it retracts, and perhaps
\* others it asks the index to look at again.
Commit(new, gone, more) ==
    /\ new \cap (live \cup retracted) = {}
    /\ gone \subseteq live
    /\ more \subseteq live \cup retracted
    /\ live' = (live \cup new) \ gone
    /\ retracted' = retracted \cup gone
    /\ due' = due \cup new \cup gone \cup more
    /\ UNCHANGED found

\* The index works on r, rightly or wrongly.
Work(r) ==
    /\ found' \in {found \cup {r}, found \ {r}}
    /\ UNCHANGED <<live, retracted, due>>

\* The index is done with r.
Settle(r) ==
    /\ r \in found <=> r \in live
    /\ due' = due \ {r}
    /\ UNCHANGED <<live, retracted, found>>

Next ==
    \/ \E new, gone, more \in SUBSET Record : Commit(new, gone, more)
    \/ \E r \in due : Work(r) \/ Settle(r)

Spec == Init /\ [][Next]_searchVars

-----------------------------------------------------------------------------
\* What is found of the records that are not due is right: the live ones are
\* found, the retracted ones are not, and nothing else is found at all.
Faithful ==
    /\ \A r \in (live \cup retracted) \ due : r \in found <=> r \in live
    /\ found \cup due \subseteq live \cup retracted
=============================================================================
