-------------------------------- MODULE Classify --------------------------------
(***************************************************************************)
(* src/pipeline/classify.rs: the OCSF class of an alert and the severity of *)
(* a rule level.                                                            *)
(*                                                                         *)
(* A decoder name and a location are only looked at for what they contain   *)
(* or end in, so both are kept as a set of marks: "zeek" for a name that    *)
(* contains zeek, "=sshd" for the name sshd, "@access_log" for a location.  *)
(* Of the name of a category one word is kept.                              *)
(***************************************************************************)
EXTENDS Naturals, SequencesExt

Rule(class, category, name, groups, marks) ==
  [class |-> class, category |-> category, name |-> name, groups |-> groups, marks |-> marks]

\* Two conditions are conjunctions; each becomes a group of its own.
CloudAuth(groups, marks) ==
  /\ "cloudtrail" \in marks
  /\ groups \cap {"authentication", "aws_iam", "aws-iam"} # {}

SysmonProcess(groups) ==
  /\ "sysmon" \in groups
  /\ groups \cap {"sysmon_file", "sysmon_network_connection",
                  "sysmon_dns_query", "sysmon_registry"} = {}

Derived(groups, marks) ==
  groups
    \cup (IF CloudAuth(groups, marks) THEN {"&cloud_auth"} ELSE {})
    \cup (IF SysmonProcess(groups) THEN {"&sysmon_process"} ELSE {})

CloudRules == <<
  Rule(4001, 4, "network", {"amazon-vpcflow", "aws_vpcflow"}, {"vpcflow", "vpc-flow"}),
  Rule(2002, 2, "findings", {"amazon-guardduty", "aws-guardduty"}, {"guardduty", "guard-duty"}),
  Rule(2002, 2, "findings", {"aws_inspector", "aws_macie"}, {}),
  Rule(2003, 2, "findings", {"aws_config"}, {}),
  Rule(4002, 4, "network", {"aws_waf"}, {}),
  Rule(4002, 4, "network", {"aws_alb", "aws_elb"}, {}),
  Rule(4002, 4, "network", {"aws_s3", "s3"}, {}),
  Rule(3002, 3, "identity", {"okta", "azure-ad", "azure_ad", "onelogin"},
       {"okta", "azure-ad", "azure_ad", "azure-active", "onelogin"}),
  Rule(4001, 4, "network", {"zeek", "bro"}, {"zeek", "bro-ids"}),
  Rule(3002, 3, "identity", {"&cloud_auth"}, {}) >>

HostRules == <<
  Rule(1001, 1, "system", {"syscheck", "syscheck_file", "sysmon_file", "fim_config"}, {}),
  Rule(1006, 1, "system", {"sysmon_process", "process_creation", "process_activity",
                           "execve", "audit_command", "&sysmon_process"}, {}),
  Rule(2002, 2, "findings", {"vulnerability-detector", "vulnerability", "vuls"}, {"vulnerability"}),
  Rule(2003, 2, "findings", {"oscap", "sca", "ciscat"}, {}),
  Rule(2002, 2, "findings", {"ms-graph"}, {"ms-graph", "ms_graph"}),
  Rule(3001, 3, "identity", {"adduser", "addgroup", "userdel", "groupdel", "usermod",
                             "account_changed", "user_management", "group_management"}, {}),
  Rule(3002, 3, "identity", {"authentication", "authentication_failed",
                             "authentication_success", "pam", "sudo", "su", "sshd",
                             "win_authentication", "windows_logon"},
       {"=pam", "=sudo", "=su", "=sshd", "auth"}) >>

NetworkRules == <<
  Rule(4003, 4, "network", {"dns", "sysmon_dns_query"}, {"dns", "named"}),
  Rule(4004, 4, "network", {"dhcp"}, {"dhcp"}),
  Rule(4002, 4, "network", {"WAF", "Cloudflare", "cloudflare"}, {"cloudflare"}),
  Rule(4002, 4, "network", {"web", "web-log", "web_accesslog", "web_attack", "apache",
                            "nginx", "iis", "squid", "haproxy"},
       {"apache", "nginx", "iis", "squid", "@access.log", "@access_log"}),
  Rule(4001, 4, "network", {"firewall", "iptables", "ids", "suricata", "snort", "paloalto",
                            "fortigate", "cisco", "pfsense", "checkpoint", "juniper",
                            "netscreen", "sysmon_network_connection"},
       {"fortigate", "paloalto", "cisco", "pfsense", "checkpoint", "iptables",
        "suricata", "snort", "netfilter"}) >>

DefaultRule == Rule(2004, 2, "findings", {}, {})

Rules == CloudRules \o HostRules \o NetworkRules

\* The first rule that matches wins.
ClassifyEvent(groups, marks) ==
  LET matching == {k \in DOMAIN Rules : \/ Rules[k].groups \cap Derived(groups, marks) # {}
                                        \/ Rules[k].marks \cap marks # {}}
  IN  IF matching = {} THEN DefaultRule ELSE Rules[Min(matching)]

\* Every group and mark a rule asks for.
RuleGroups == UNION {r.groups : r \in ToSet(Rules)} \ {"&cloud_auth", "&sysmon_process"}
RuleMarks == UNION {r.marks : r \in ToSet(Rules)} \cup {"cloudtrail"}

\* OCSF severities: 0 unknown, 1 informational, 2 low, 3 medium, 4 high, 5 critical.
Severity == 0 .. 5

MapSeverity(level) ==
  CASE level = 0 -> 0
    [] level \in 1 .. 3 -> 1
    [] level \in 4 .. 6 -> 2
    [] level \in 7 .. 9 -> 3
    [] level \in 10 .. 12 -> 4
    [] OTHER -> 5
=============================================================================
