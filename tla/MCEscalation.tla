---------------------------- MODULE MCEscalation ----------------------------
(***************************************************************************)
(* A server with the default working directory and sandbox, and agents     *)
(* that propose one action of each fate.                                   *)
(***************************************************************************)
EXTENDS Escalation

MCCwd == <<"srv">>
MCSandboxRoot == <<"tmp", "interlock", "sandbox">>
MCInvalidPatterns == {}

Absolute(names) == [absolute |-> TRUE, names |-> names]
Transfer(cents) == [tool |-> "transfer", cents |-> cents]
Inspect == [tool |-> "inspect", resource |-> "db_schema"]
OnTable(keyword, table) ==
  [tool |-> "db", sql |-> [single |-> TRUE, keyword |-> keyword,
                           named |-> <<table>>, touched |-> {table}]]
DropUsers == OnTable("DROP", "users")
DeleteSessions == OnTable("DELETE", "sessions")
\* Beneath an approved root, and outside the sandbox root: rules.md:62.
WriteDemo ==
  [tool |-> "fs_write", path |-> Absolute(<<"tmp", "demo", "report">>)]

MCHits == [p \in {"DROP"} |-> {DropUsers}]

\* One transfer of either amount fits the cap, two do not.  An expiry of 0 is
\* never reached, since every context carries epoch 0.
AgentPolicy ==
  [DenyAll EXCEPT
     !.tools = {"db", "transfer", "fs_write", "inspect"},
     !.roots = { Absolute(<<"tmp", "demo">>) },
     !.dbOps = {"SELECT", "DELETE"}, !.dbTables = {"sessions"},
     !.cap = 70, !.forbidden = {"DROP"}, !.expires = 0]
\* The other run was given less.
MCPolicies == {AgentPolicy, [AgentPolicy EXCEPT !.tools = {"db"}]}
OnePolicy == {AgentPolicy}

MixedActions == {Inspect, DropUsers, DeleteSessions, Transfer(60)}
SpendActions == {Transfer(60), WriteDemo}
AllActions == MixedActions \union SpendActions
=============================================================================
