------------------------------ MODULE MCToolshed ------------------------------
(* A small toolshed: a destructive request that a lax rules edition caches, a *)
(* shell command, and a request whose server has no adapter.                  *)
EXTENDS Toolshed, TLC

CONSTANTS c1, c2

MCRequests == {"merge", "shell", "ghost"}
MCServers == {"github", "nowhere"}
MCMinions == {"reviewer", "writer"}

MCMinionOf == [r \in MCRequests |-> IF r = "shell" THEN "writer" ELSE "reviewer"]
MCServerOf == [r \in MCRequests |-> IF r = "ghost" THEN "nowhere" ELSE "github"]
MCToolOf == [r \in MCRequests |-> r]
MCPathsOf == [r \in MCRequests |-> IF r = "shell" THEN {"/repo/a"} ELSE {}]

MCAgents == [minion : MCMinions \cup {"orchestrator"}, schema : {TRUE}]
MCRegistry == {<<MCServerOf[r], r>> : r \in MCRequests}

\* The default entry makes the destructive tool cacheable, which the validator
\* does not see.
Initial ==
  [NoRules EXCEPT
     !.allowlists = [m \in MCMinions |-> {<<MCServerOf[r], r>> : r \in
                       {x \in MCRequests : MCMinionOf[x] = m}}],
     !.pathScopes = [m \in {"writer"} |->
       [mode |-> "allowlist", paths |-> {"/repo/a"}, denies |-> FALSE, deny |-> {}]],
     !.shell = [m \in {"writer"} |-> [allow |-> {"shell"}, deny |-> {}]],
     !.destructive = {[tool |-> <<"github", "merge">>, matching |-> {"merge"}]},
     !.basePaths = {"/repo/a"},
     !.pathChecked = {"shell"},
     !.cachePolicy = "default" :> TRUE,
     !.intents = "change" :> <<"reviewer", "writer">>,
     !.intentsFile = TRUE]

\* Nobody may merge any more, it is no destructive action, and shell commands
\* are denied.
Tightened ==
  [Initial EXCEPT !.allowlists["reviewer"] = {<<"nowhere", "ghost">>},
                  !.destructive = {}, !.shell["writer"].deny = {"shell"}]

\* The destructive tool is named as cacheable, and a tool is granted that no
\* server has.
Refused ==
  [Initial EXCEPT !.cachePolicy = "merge" :> TRUE,
                  !.allowlists["writer"] = @ \cup {<<"github", "delete">>}]

\* governance.yaml is empty while an editor rewrites it: the allowlists stay,
\* the destructive actions are gone, and that validates.
Emptied ==
  [NoRules EXCEPT !.allowlists = Initial.allowlists, !.shell = Initial.shell,
                  !.intents = Initial.intents, !.intentsFile = TRUE]

MCEditions == {"initial", "tightened", "refused", "emptied"}

MCRulebook ==
  ("initial" :> Initial) @@ ("tightened" :> Tightened) @@ ("refused" :> Refused)
    @@ ("emptied" :> Emptied)

Symmetry == Permutations(Calls)
===============================================================================
