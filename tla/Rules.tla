--------------------------------- MODULE Rules ---------------------------------
(***************************************************************************)
(* The rules of the toolshed: how config.ts reads allowlists.yaml and      *)
(* governance.yaml, what they permit, and what config-validation.ts, which *)
(* checks them against the agents, the tool registry and the intents,      *)
(* accepts.                                                                *)
(*                                                                         *)
(* An edition is what the files may contain at some moment.  Patterns and  *)
(* paths are the sets of what they match.                                  *)
(***************************************************************************)
EXTENDS Sequences

CONSTANTS
  Requests,        \* (minion, tool, params, correlation) that may be called
  ShellRequests,   \* the requests that are shell.execute calls
  PathsOf,         \* [Requests -> the paths among its path parameters]
  MinionOf,        \* [Requests -> minion types]
  Servers,         \* server aliases
  ServerOf,        \* [Requests -> Servers]
  ToolOf,          \* [Requests -> tool names]
  Agents,          \* agents/*.md: [minion, schema (its output schema exists)]
  Registry,        \* tool-registry.yaml: <<server, tool>> pairs
  IntentEnum,      \* the intents of schemas/intent.json
  Editions,        \* what the files may contain, by name
  Rulebook         \* [Editions -> the files' contents, see NoRules]

ASSUME RulesAssumption ==
  /\ ShellRequests \subseteq Requests
  /\ ServerOf \in [Requests -> Servers]
  /\ DOMAIN Rulebook = Editions
  /\ \A e \in Editions :
       Rulebook[e].cachePolicy \in [DOMAIN Rulebook[e].cachePolicy -> BOOLEAN]
  /\ DOMAIN MinionOf = Requests /\ DOMAIN ToolOf = Requests

\* What the loaders make of files that are empty or not there.
NoRules ==
  [parses |-> TRUE, allowlists |-> <<>>, pathScopes |-> <<>>, shell |-> <<>>,
   destructive |-> {}, basePaths |-> {"/repo"}, deniedPaths |-> {".env"},
   pathChecked |-> {}, cachePolicy |-> <<>>, intents |-> <<>>,
   intentsFile |-> FALSE]

Exempted == {"orchestrator"}

-------------------------------------------------------------------------------
(***************************************************************************)
(* config.ts.                                                              *)
(***************************************************************************)
ToolPair(r) == <<ServerOf[r], ToolOf[r]>>

IsToolAllowed(f, r) ==
  /\ MinionOf[r] \in DOMAIN f.allowlists
  /\ ToolPair(r) \in f.allowlists[MinionOf[r]]

\* Deny patterns win over allow patterns; a minion without an entry has no shell.
IsShellCommandAllowed(f, r) ==
  r \in ShellRequests =>
    /\ MinionOf[r] \in DOMAIN f.shell
    /\ r \in f.shell[MinionOf[r]].allow \ f.shell[MinionOf[r]].deny

\* The minion's own deny patterns replace the workspace's.
DeniedPaths(f, minion) ==
  IF minion \in DOMAIN f.pathScopes /\ f.pathScopes[minion].denies
    THEN f.pathScopes[minion].deny ELSE f.deniedPaths

\* Every path parameter lies in the workspace, in the minion's own paths if it
\* has a list, and matches no deny pattern.
IsPathAllowed(f, r) ==
  ToolOf[r] \in f.pathChecked =>
    \A p \in PathsOf[r] :
      /\ p \in f.basePaths \ DeniedPaths(f, MinionOf[r])
      /\ MinionOf[r] \in DOMAIN f.pathScopes
           /\ f.pathScopes[MinionOf[r]].mode = "allowlist"
         => p \in f.pathScopes[MinionOf[r]].paths

Permitted(e, r) ==
  LET f == Rulebook[e]
  IN  IsToolAllowed(f, r) /\ IsShellCommandAllowed(f, r) /\ IsPathAllowed(f, r)

\* An entry may be about calls with certain parameters only.
IsDestructive(e, r) ==
  \E action \in Rulebook[e].destructive :
    action.tool = ToolPair(r) /\ r \in action.matching

\* cache_policy[tool], or else its default entry, which is FALSE where the file
\* has none.
IsCacheable(e, r) ==
  LET policy == Rulebook[e].cachePolicy
  IN  IF ToolOf[r] \in DOMAIN policy THEN policy[ToolOf[r]]
      ELSE "default" \in DOMAIN policy /\ policy["default"]

-------------------------------------------------------------------------------
(***************************************************************************)
(* config-validation.ts: the checks, of which any may reject the files.    *)
(***************************************************************************)
AgentsAllowed(f) ==
  \A a \in Agents : a.minion \notin Exempted => a.minion \in DOMAIN f.allowlists

ScopesMatch(f) == DOMAIN f.pathScopes \subseteq DOMAIN f.allowlists

SchemasExist == \A a \in Agents : a.schema

GrantsRegistered(f) ==
  \A minion \in DOMAIN f.allowlists : f.allowlists[minion] \subseteq Registry

DestructiveRegistered(f) == \A action \in f.destructive : action.tool \in Registry

\* Under any server: path checks go by the tool's name alone.
PathCheckedRegistered(f) == f.pathChecked \subseteq {pair[2] : pair \in Registry}

\* By name; what the default entry says of a destructive tool is not looked at.
NoDestructiveCached(f) ==
  \A action \in f.destructive :
    action.tool[2] \in DOMAIN f.cachePolicy => ~f.cachePolicy[action.tool[2]]

\* Only warned about while there is no intents.yaml.
IntentsCovered(f) == f.intentsFile => IntentEnum \subseteq DOMAIN f.intents

StepsAllowed(f) ==
  f.intentsFile => \A i \in DOMAIN f.intents : \A n \in DOMAIN f.intents[i] :
    f.intents[i][n] \in DOMAIN f.allowlists \cup Exempted

\* validateConfigAtRoot; a file that does not parse makes it throw.
Valid(e) ==
  LET f == Rulebook[e]
  IN  /\ f.parses
      /\ AgentsAllowed(f) /\ ScopesMatch(f) /\ SchemasExist /\ GrantsRegistered(f)
      /\ DestructiveRegistered(f) /\ PathCheckedRegistered(f)
      /\ NoDestructiveCached(f) /\ IntentsCovered(f) /\ StepsAllowed(f)
===============================================================================
