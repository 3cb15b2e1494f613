---------------------------- MODULE MCBackground ----------------------------
(***************************************************************************)
(* Background on small instances.  In each behaviour one part moves, with  *)
(* the starts and stops of the replicas.                                   *)
(***************************************************************************)
EXTENDS Background

CONSTANTS p1, p2, a1, a2

MCReplicas == {p1, p2}
MCWorkers == {p1, p2}
MCHost == [w \in MCWorkers |-> w]
MCAgents == {a1}
MCAdmins == {a1, a2}
MCAt == [a \in MCAdmins |-> IF a = a1 THEN p1 ELSE p2]
MCJobs == 1..2
MCDocs == 1..3
MCRows == 1..2
MCAlike == <<{1, 2}, {2, 3}>>
MCArchives == {[zip |-> FALSE, entries |-> <<>>],
               [zip |-> TRUE, entries |-> <<"doc", "path">>],
               [zip |-> TRUE, entries |-> <<"blank", "doc", "broken">>],
               [zip |-> TRUE, entries |-> <<"doc", "doc", "doc", "doc">>]}
Set(t, g, m) == [type |-> t, set |-> [guard |-> g, mode |-> m]]
MCPatches == {Set("reference", FALSE, "append_only"), Set("other", TRUE, None)}
MCParts == {"import", "queue", "conf", "pol"}
MCImport == {"import"}
MCConf == {"conf"}
MCPol == {"pol"}
=============================================================================
