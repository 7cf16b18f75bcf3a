------------------------------ MODULE MCEngine ------------------------------
(***************************************************************************)
(* The review of two drafts over a small universe of actions and contexts. *)
(***************************************************************************)
EXTENDS PolicyReview

MCCwd == <<"srv">>
MCSandboxRoot == <<"tmp", "interlock", "sandbox">>

Sql(single, keyword, named, touched) ==
  [tool |-> "db",
   sql |-> [single |-> single, keyword |-> keyword, named |-> named,
            touched |-> touched]]
OnTable(keyword, table) == Sql(TRUE, keyword, <<table>>, {table})

\* Among them a query of one table that joins another, one whose FROM stands
\* in a string literal, and a deletion with a subquery.
DbActions ==
  { OnTable(k, t) : k \in {"SELECT", "EXPLAIN", "DELETE", "DROP", "WITH"},
                    t \in {"sessions", "users"} }
  \union { Sql(TRUE, "SELECT", <<>>, {}), Sql(TRUE, NoName, <<>>, {}),
           Sql(FALSE, "SELECT", <<"sessions">>, {"sessions"}),
           Sql(TRUE, "SELECT", <<"sessions">>, {"sessions", "users"}),
           Sql(TRUE, "SELECT", <<"sessions", "users">>, {"users"}),
           Sql(TRUE, "DELETE", <<"sessions">>, {"sessions", "users"}) }

Relative(names) == [absolute |-> FALSE, names |-> names]
Absolute(names) == [absolute |-> TRUE, names |-> names]
FsActions ==
  [tool : {"fs_write"},
   path : { Relative(<<"notes", "todo">>), Relative(<<"notes", "..", "todo">>),
            Absolute(Append(MCSandboxRoot, "todo")) }]

Transfer(cents) == [tool |-> "transfer", cents |-> cents]
Inspect(resource) == [tool |-> "inspect", resource |-> resource]
GitHubActions ==
  [tool : {"github"}, operation : {"read_issue", "merge_pull_request"},
   repository : {"acme/shop"}]

MCActions ==
  DbActions \union FsActions \union { Transfer(n) : n \in 0..2 }
    \union { Inspect("ledger"), Inspect("db_schema") } \union GitHubActions

MCInvalidPatterns == {"("}
MCHits == [p \in {"DROP", "ledger"} |->
             IF p = "DROP" THEN { a \in DbActions : a.sql.keyword = "DROP" }
                           ELSE { Inspect("ledger") }]
MCPatterns == MCInvalidPatterns \union DOMAIN MCHits

MCContexts ==
  { DefaultContext,
    [DefaultContext EXCEPT !.environment = "production", !.criticality = 2,
                           !.epoch = 5],
    [DefaultContext EXCEPT !.agent = "ci-agent", !.spent = 1] }

\* Two drafts: one that scopes no identity, one that scopes three lists.
WideDraft ==
  [DenyAll EXCEPT
     !.tools = {"db", "fs_write", "transfer"},
     !.roots = { Relative(<<"notes">>), Absolute(MCSandboxRoot) },
     !.dbOps = {"SELECT", "DELETE", "DROP", "EXPLAIN", "WITH"},
     !.dbTables = {"sessions", "users"},
     !.cap = 2]
ScopedDraft ==
  [DenyAll EXCEPT
     !.tools = {"inspect", "github"},
     !.agents = {"local-demo-agent", "ci-agent"},
     !.environments = {"local", "production"},
     !.githubOps = {"read_issue", "merge_pull_request"}]
MCDrafts == {WideDraft, ScopedDraft}

MCOtherAssets == {"other-sandbox"}
MCExpiries == {4}
MCGrants ==
  [f \in {"tools", "roots", "dbOps", "dbTables", "agents", "environments", "githubOps"} |->
     IF f = "tools" THEN Tools ELSE WideDraft[f] \union ScopedDraft[f]]

MCTraces ==
  LET step(safe, action) ==
        [safe |-> safe, action |-> action, context |-> DefaultContext]
  IN  { << step(TRUE, Inspect("db_schema")), step(FALSE, OnTable("DROP", "users")) >>,
        << step(TRUE, OnTable("SELECT", "sessions")), step(FALSE, Transfer(2)),
           step(FALSE, Inspect("ledger")) >> }
=============================================================================
