------------------------------ MODULE MCTransform ------------------------------
(***************************************************************************)
(* The calls of Transform that TLC tries: fields that compete for a column, *)
(* rule groups and decoders, the words the code compares, and the labels    *)
(* that change a severity.                                                  *)
(***************************************************************************)
EXTENDS Transform

Ext == {"site", "zone"}

Plain(word) == [word |-> word, groups |-> {}, marks |-> {}, level |-> 3, score |-> 0]
NoMapping == <<>>
With(alerts, mappings) == {[alert |-> a, mapping |-> m] : a \in alerts, m \in mappings}

\* The fields that can fill a column, with what must be there for them to.
AppNameField ==
  {<<s, "app_name">> : s \in {"data", "vulnerability", "win", "dpkg", "predecoder", "sca", "docker"}}
    \cup {<<"office365", "Workload">>, <<"office365", "ClientAppName">>, <<"ms-graph", "serviceSource">>}
StatusField ==
  {<<s, "status">> : s \in {"data", "vulnerability", "dpkg", "sca", "office365", "ms-graph"}}
    \cup {<<"aws", "ConsoleLogin">>, <<"aws", "errorMessage">>, <<"aws s3", "error_code">>}
UserField ==
  {<<s, "actor_user">> : s \in {"data", "win name", "win sid", "office365", "gcp"}}
    \cup {<<"aws", "UserName">>, <<"aws", "sessionIssuer">>}
ActionField ==
  {<<s, "action">> : s \in {"data", "aws", "aws finding", "aws alb", "office365", "gcp", "docker"}}
OtherField ==
  {<<s, "domain">> : s \in {"data", "aws", "aws finding", "aws s3", "aws config", "gcp"}}
    \cup {<<s, "file_name">> : s \in {"data", "syscheck", "audit", "plain"}}
    \cup {<<s, "process_id">> : s \in {"data", "win"}}
    \cup {<<s, "rule_name">> : s \in {"aws waf", "aws hub", "ms-graph"}}

SourceOf(f) ==
  CASE f[1] = "aws finding" -> "guardduty" [] f[1] = "aws s3" -> "s3_server_access"
    [] f[1] = "aws config" -> "config" [] f[1] = "aws alb" -> "alb"
    [] f[1] = "aws waf" -> "waf" [] f[1] = "aws hub" -> "securityhub" [] OTHER -> "cloudtrail"

\* Fields f and g, the first of them decisive for aws.source.
Competing(f, g, w) ==
  Plain((f :> w) @@ (g :> (IF g[2] = "process_id" THEN "number" ELSE "text"))
          @@ (<<"vulnerability", "cve">> :> "text") @@ (<<"aws", "source">> :> SourceOf(f)))

Pairs(S, w) == {Competing(f, g, w) : f \in S, g \in S}

ColumnAlert ==
  Pairs(AppNameField, "text") \cup Pairs(StatusField, "text") \cup Pairs(UserField, "text")
    \cup Pairs(ActionField, "deny") \cup Pairs(OtherField, "number") \cup Pairs(OtherField, "text")

\* Two fields for one column, for two, for one that is no column; one that
\* has a column of its own already.
SiteA == <<"site", "a">>
SiteB == <<"site", "b">>
SiteMapping ==
  {(SiteA :> "app_name") @@ (SiteB :> "app_name"),
   (SiteA :> "app_name") @@ (SiteB :> "status"),
   (SiteA :> "process_id") @@ (SiteB :> "site"),
   (<<"data", "app_name">> :> "status") @@ (<<"syscheck", "file_name">> :> "zone") @@ (SiteB :> "domain")}
SiteWords == {<<>>, SiteA :> "text", SiteB :> "number",
              (SiteA :> "number") @@ (SiteB :> "text")}
SiteAlert ==
  {Plain(w @@ (f :> "text") @@ (<<"syscheck", "file_name">> :> "text")) :
     w \in SiteWords, f \in {<<"data", "app_name">>, <<"win", "process_id">>, <<"sca", "status">>}}

\* Every group and mark of classify.rs, with the groups that decide the rest.
DecidingGroup ==
  SuccessGroup \cup FailureGroup
    \cup UNION {a.groups : a \in ToSet(AccountArms \o ProcessArms)}
    \cup {"logoff", "logout", "dns_response", "dns_traffic", "sysmon", "aws_iam", "aws-iam"}
Grouped(groups, marks) ==
  [word |-> <<>>, groups |-> groups, marks |-> marks, level |-> 3, score |-> 0]
\* A decoder whose whole name is compared has no other mark.
ExactName == {"=pam", "=sudo", "=su", "=sshd"}
TwoMarks ==
  {{m, n} : m \in RuleMarks \ ExactName, n \in RuleMarks \ ExactName} \cup {{m} : m \in ExactName}
ClassAlert ==
  {Grouped({g, h}, {}) : g \in RuleGroups \cup DecidingGroup, h \in DecidingGroup}
    \cup {Grouped({g}, {m}) : g \in {"sudo", "aws_iam", "sysmon", "dhcp"}, m \in RuleMarks}
    \cup {Grouped({}, marks) : marks \in TwoMarks}

\* The words that the activities and the outcomes are made of.
ActionWord ==
  OpenWord \cup RefuseWord \cup CloseWord
    \cup {"reset", "rst", "fail", "failed", "error", "response", "answer", "traffic",
          "release", "nak", "renew", "request", "odd"}
WordAlert ==
  {[Grouped({g}, {}) EXCEPT !.word = <<"data", "action">> :> w] :
     g \in {"firewall", "dns", "dhcp", "sshd"}, w \in ActionWord}
    \cup {[Grouped({"syscheck"}, {}) EXCEPT !.word = <<"syscheck", "event">> :> w] :
            w \in {"modified", "deleted", "moved", "odd"}}
    \cup {[Grouped({"web"}, {}) EXCEPT !.word = <<"data", "http_method">> :> w] :
            w \in {"get", "put", "post", "delete", "connect", "options", "head", "odd"}}
    \cup {[Grouped({g}, {}) EXCEPT !.word = <<"data", "status">> :> w] :
            g \in {"vuls", "sshd", "firewall"},
            w \in {"error", "success", "resolved", "benign", "archived", "deleted", "odd"}}
    \cup {[Grouped({"firewall", g}, {}) EXCEPT
              !.word = (<<"data", "action">> :> v) @@ (<<f, "status">> :> w)] :
            g \in {"pam_success", "pam_failure", "ids"}, f \in {"data", "sca"},
            v \in {"deny", "allow", "failed", "odd"}, w \in {"success", "failure"}}
    \cup {[Grouped({"firewall", g}, {}) EXCEPT !.word = <<"data", "action">> :> w] :
            g \in {"pam_success", "pam_failure"}, w \in {"deny", "allow", "failed", "odd"}}

\* One or two labels, of sections that follow each other.
Label ==
  {<<f, w>> : f \in {<<"vulnerability", "severity">>, <<"ms-graph", "severity">>,
                     <<"gcp", "severity">>, <<"docker", "level">>,
                     <<"aws", "severity">>, <<"aws hub", "severity">>},
              w \in {"critical", "low", "error", "odd"}}
SeverityAlert ==
  {[word |-> (a[1] :> a[2]) @@ (b[1] :> b[2]) @@ (<<"aws", "source">> :> s)
               @@ (<<"vulnerability", "cve">> :> "text"),
    groups |-> c[1], marks |-> {}, level |-> c[2], score |-> 85] :
     a \in Label, b \in Label, s \in {"guardduty", "macie", "securityhub"},
     c \in {<<{"vuls"}, 0>>, <<{"web"}, 8>>}}

\* Every documented docker.level, and another one, at every rule level.
DockerAlert ==
  {[word |-> <<"docker", "level">> :> w, groups |-> {}, marks |-> {}, level |-> n, score |-> 0] :
     w \in {"error", "warning", "info", "odd"}, n \in 0 .. 15}

Calls ==
  With(ColumnAlert \cup ClassAlert \cup WordAlert \cup SeverityAlert \cup DockerAlert, {NoMapping})
    \cup With(SiteAlert, SiteMapping)
=============================================================================
