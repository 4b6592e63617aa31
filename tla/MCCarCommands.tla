--------------------------- MODULE MCCarCommands ---------------------------
EXTENDS CarCommands

Plain(topics, several, deploys) ==
    [topics |-> topics, several |-> several, deploys |-> deploys,
     tool |-> "none", ruff |-> FALSE, fixes |-> FALSE, target |-> "python"]

(* One or two topics, with or without wording of size and of a deployment.  *)
MCTopics ==
    {t \in SUBSET {"documentation", "bugfix", "refactoring", "security",
                   "public_api", "dependency_change", "docker"} :
        Cardinality(t) <= 2}

ToolTask ==
    [topics : {{"bugfix"}, {"bugfix", "security"}}, several : {FALSE},
     deploys : BOOLEAN, tool : {"format", "lint"}, ruff : BOOLEAN,
     fixes : {TRUE}, target : {"none", "escaping", "other", "python"}]

MCTasks == {Plain(t, s, d) : t \in MCTopics, s, d \in BOOLEAN} \cup ToolTask

MCCaseTexts == {Plain({"bugfix"}, FALSE, FALSE), Plain({"security"}, FALSE, FALSE)}
=============================================================================
