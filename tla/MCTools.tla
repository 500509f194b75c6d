------------------------------- MODULE MCTools -------------------------------
(* Tools on a small instance: two records, out of requests of each durable     *)
(* bucket, and of one whose namespace looks like other parts of an address.   *)
EXTENDS Tools, TLC

CONSTANTS t1, t2, r1, r2

MCOutboxId == 1..3
MCUuid == {t1, t2, r1, r2}
MCSegment == Root \cup MCUuid \cup {"coding", "decisions", "lessons",
                  "incidents", "workstream", "persona", "protocol", "preferences",
                  "decision", "notes"}
MCComponent == MCSegment \cup MemoryKind \cup {""}

Post(t, ns, kind, title, args, imp) ==
    [tool |-> "post", tenant |-> t, namespace |-> ns, kind |-> kind, title |-> title,
     body |-> "given", args |-> args, importance |-> imp, confidence |-> 100]

Decision == {"context", "rationale"}
Persona == {"identity", "voice", "boundaries"}

\* A decision of little importance among the user's own, in a namespace that
\* contains a kind, a UUID and a durable root; a persona from the remember tool
\* and from the wizard; a namespace that is a root alone; an importance out of
\* range; a guided call.
MCRequest ==
    {Post(t1, <<"user", "decision", r1>>, "decision", "a", Decision, 0),
     [Post(t1, <<"agent", "persona">>, "persona", "Operator Persona", Persona, 356)
        EXCEPT !.tool = "remember"],
     [tool |-> "persona", tenant |-> t1],
     Post(t1, <<"user">>, "decision", "a", Decision, 0),
     Post(t1, <<"agent", "persona">>, "decision", "c", Decision, 200),
     [tool |-> "log_decision", tenant |-> t1, namespace |-> <<"">>, title |-> "a",
      body |-> "", args |-> Decision, importance |-> 100]}

MCNamespace == {<<"user", "decision", r1>>, <<"agent", "persona">>,
                <<"resources", "coding", "decisions">>, <<"user">>}
MCTitle == {<<"decision", "a">>, <<"decision", "c">>, <<"persona", "Operator Persona">>}
MCUpdateTitle == {<<"persona", "Operator Persona">>}
MCBody == {"given", "answers", "derived"}

Ask(query, prefix, kind, limit, since) ==
    [tenant |-> t1, query |-> query, prefix |-> prefix, kind |-> kind,
     limit |-> limit, since |-> since]

MCQuery == {Ask("words", <<>>, "decision", 2, 0), Ask("words", <<"agent">>, "any", 1, 11),
            Ask("blank", <<"resources">>, "decision", 0, 0)}

\* One before the second query's time, in the second that the semantic arm takes
\* for it, and one after it.
MCCreatedAt == (r1 :> 8) @@ (r2 :> 12)

MCUriOrder == (r1 :> 2) @@ (r2 :> 1)

\* The view: no action reads answer, and every action sets it.
Observed == <<records, namespaces, outbox, columns, indexVars, recall>>

\* A bound: no step is taken after an answer.  Every step forgets it, so it leads
\* where the same step led before the recall began.
NotAnswered == recall.stage # "done"

\* A bound: r1 is stored first, as its created_at says.
CreatedInOrder == Exists(r2) => Exists(r1)
=============================================================================
