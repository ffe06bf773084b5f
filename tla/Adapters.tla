------------------------------- MODULE Adapters -------------------------------
(***************************************************************************)
(* What the two command adapters derive from a task: the command, the key  *)
(* that correlates it to its review, and the Phase I policy each enforces  *)
(* before it asks the gate (agents/codegen/nmap_adapter.py,                *)
(* msf_adapter.py, base.py).  An argv keeps the tokens a check looks at:   *)
(* the tool, the script selector or module, and the targets.               *)
(***************************************************************************)
EXTENDS SafetyGate, SequencesExt

CONSTANTS
    Rhosts,             \* [sets of targets -> the token RHOSTS=a,b for them]
    RejectedTargets,    \* [adapters -> target strings whose syntax each refuses]
    NoCommand           \* plan() raised

nmap == "nmap"
msf == "msf-aux"
AdapterNames == {nmap, msf}

\* A target that nmap would read as a second script selector never reaches
\* argv (nmap_adapter.py:167).
ASSUME AdapterAssumption == "--script" \in RejectedTargets[nmap]

-----------------------------------------------------------------------------
(* Planning a command *)

ValidTargets(adapter, scope) == scope # {} /\ scope \cap RejectedTargets[adapter] = {}

CommandOf(adapter, argv, task, id, techniques, tactics, runtime) ==
    [adapter_name |-> adapter, argv |-> argv \o SetToSeq(task.target_scope),
     target_scope |-> task.target_scope, techniques |-> techniques, tactics |-> tactics,
     runtime |-> runtime, task_id |-> id]

\* The nmap adapter picks the script categories by what the intent mentions.
NmapPlan(task, id) ==
    IF "vuln" \in task.intent
    THEN CommandOf(nmap, <<"nmap", "--script", "default,vuln,vulners">>, task, id,
                   {"T1595.002", "T1046"}, {"reconnaissance", "discovery"}, 300)
    ELSE IF task.intent \cap {"service", "version"} # {}
    THEN CommandOf(nmap, <<"nmap", "--script", "default">>, task, id,
                   {"T1046"}, {"discovery"}, 300)
    ELSE CommandOf(nmap, <<"nmap", "--script", "default">>, task, id,
                   {"T1595.001", "T1018"}, {"reconnaissance", "discovery"}, 300)

Mentions(intent, words) == intent \cap words # {}

\* The scanner category of the first keyword the intent mentions.
SelectModule(intent) ==
    IF Mentions(intent, {"smb", "445", "netbios"}) THEN "smb"
    ELSE IF Mentions(intent, {"rdp", "3389"}) THEN "rdp"
    ELSE IF Mentions(intent, {"ssh"}) THEN "ssh"
    ELSE IF Mentions(intent, {"ftp"}) THEN "ftp"
    ELSE IF Mentions(intent, {"snmp"}) THEN "snmp"
    ELSE IF Mentions(intent, {"http", "web"}) THEN "http"
    ELSE IF Mentions(intent, {"telnet"}) THEN "telnet"
    ELSE IF Mentions(intent, {"mssql", "ms-sql"}) THEN "mssql"
    ELSE IF Mentions(intent, {"mysql"}) THEN "mysql"
    ELSE IF Mentions(intent, {"postgres"}) THEN "postgres"
    ELSE "portscan"

ModuleTechniques(module) ==
    CASE module = "portscan" -> {"T1595.001", "T1018"}
      [] module = "smb"      -> {"T1135", "T1046"}
      [] module = "rdp"      -> {"T1021.001", "T1046"}
      [] module = "ssh"      -> {"T1021.004", "T1046"}
      [] module = "http"     -> {"T1071.001", "T1046"}
      [] OTHER               -> {"T1046"}

ModuleTactics(module) ==
    IF module = "portscan" THEN {"reconnaissance", "discovery"} ELSE {"discovery"}

\* The targets of a metasploit command are one RHOSTS=a,b token, which does
\* not parse as an address.
MsfPlan(task, id) ==
    LET module == SelectModule(task.intent)
    IN  [adapter_name |-> msf,
         argv |-> <<"msf-aux", "run", module, Rhosts[task.target_scope]>>,
         target_scope |-> task.target_scope, techniques |-> ModuleTechniques(module),
         tactics |-> ModuleTactics(module), runtime |-> 180, task_id |-> id]

\* adapter.plan(task): raises on a target it refuses.
PlanCommand(adapter, task, id) ==
    IF ~ValidTargets(adapter, task.target_scope) THEN NoCommand
    ELSE IF adapter = nmap THEN NmapPlan(task, id)
    ELSE MsfPlan(task, id)

-----------------------------------------------------------------------------
(* Key and policy *)

\* _command_key hashes adapter, argv and env, and not the task id: two tasks
\* with the same command line share a key.
CommandKey(cmd, env) == <<cmd.adapter_name, cmd.argv, env>>

ALLOWED_NSE_CATEGORIES ==
    {"safe", "default", "discovery", "version", "vuln", "vulners"}

Categories(selector) ==
    IF selector = "default,vuln,vulners" THEN {"default", "vuln", "vulners"} ELSE {selector}

ALLOWED_SCANNER_CATEGORIES ==
    {"smb", "smtp", "snmp", "ssh", "telnet", "ftp", "http", "vnc", "rdp", "discovery",
     "portscan", "netbios", "mysql", "postgres", "mssql", "oracle", "rsync", "dns", "ntp"}

NmapPolicy(cmd) ==
    \A i \in 1 .. Len(cmd.argv) - 1 :
        cmd.argv[i] = "--script" => Categories(cmd.argv[i + 1]) \subseteq ALLOWED_NSE_CATEGORIES

\* A module is written as its category, so _validate_module's checks of its
\* path (syntax, prefix, prohibited names) are left out: each path that
\* _select_module returns passes them.
MsfPolicy(cmd) ==
    /\ Len(cmd.argv) >= 3 /\ cmd.argv[2] = "run"
    /\ cmd.argv[3] \in ALLOWED_SCANNER_CATEGORIES

\* _enforce_phase1_policy, which execute() calls before the gate.
PolicyAllows(cmd, env) ==
    /\ env = CALDERA_ONLY
    /\ IMPACT \notin cmd.tactics
    /\ IF cmd.adapter_name = nmap THEN NmapPolicy(cmd) ELSE MsfPolicy(cmd)
=============================================================================
