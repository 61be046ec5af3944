------------------------------- MODULE Transform -------------------------------
(***************************************************************************)
(* transform() of src/pipeline/transform.rs: one alert becomes one row.     *)
(*                                                                         *)
(* The function runs through the sections of an alert in a fixed order; a   *)
(* section gives a column a value only if it has none, and may change the   *)
(* severity.  The mappings of field_mappings.toml come last, in the order   *)
(* of a HashMap, which differs from process to process.  Class, status,     *)
(* severity and activity are then decided from what was found.              *)
(*                                                                         *)
(* A field of the alert is <<section, name>>, present if its text is not    *)
(* empty (nor "-", for the error code of S3); a column holds the field its  *)
(* value was taken from.  What a field says matters only where the code     *)
(* compares it: that is the field's word.  The arrays of field_paths.rs     *)
(* stand as one field per column.  Extensions are kept for the custom       *)
(* targets; the fixed ones are written under keys of their own.             *)
(***************************************************************************)
EXTENDS Classify, Validator, FiniteSets

CONSTANTS
  Call,       \* the calls: an alert (word, of each field present, groups,
              \* marks, level, score) and a mapping from fields to targets
  ExtKey      \* the targets that are no typed column

\* STANDARD_OCSF_TARGETS; the column of "category" is app_category.
NumericTarget == {"src_port", "dst_port", "nat_src_port", "nat_dst_port",
                  "http_status", "process_id", "bytes_in", "bytes_out"}
TextTarget == {"src_ip", "dst_ip", "nat_src_ip", "nat_dst_ip", "network_protocol",
               "actor_user", "target_user", "domain", "url", "http_method",
               "app_name", "src_hostname", "dst_hostname", "file_name",
               "process_name", "interface_in", "interface_out", "rule_name",
               "category", "action", "status"}
Target == NumericTarget \cup TextTarget
Column == Target \cup {"finding_title"}

ASSUME ExtKeyAssumption == ExtKey \cap Target = {}

\* What a column can hold instead of a field: nothing, or a status that the
\* code makes.
None == <<"none", "none">>
Success == <<"group", "success">>
Failure == <<"group", "failure">>

\* A section takes "failure" from these, whatever they say.  A mapping takes
\* what they say, and has another name for them.
Failing == {<<"aws", "errorMessage">>, <<"aws s3", "error_code">>}

ASSUME CallAssumption ==
  \A c \in Call :
    /\ DOMAIN c.alert.word \cap {None, Success, Failure} = {}
    /\ DOMAIN c.mapping \cap (Failing \cup {None, Success, Failure}) = {}
    /\ \A f \in DOMAIN c.mapping : c.mapping[f] \in Target \cup ExtKey

VARIABLES
  pc,       \* "idle", "sections", "overlay", "decide", "done"
  alert, mapping,
  at,       \* the section in turn
  col,      \* col[c]: the field column c was filled from
  sev,      \* sev_id; its label goes with it
  todo,     \* the mapped fields not looked at yet
  ext,      \* extensions
  row,      \* the OcsfRecord
  earlier   \* the row an earlier process made of the same alert

vars == <<pc, alert, mapping, at, col, sev, todo, ext, row, earlier>>

NoAlert == [word |-> <<>>, groups |-> {}, marks |-> {}, level |-> 0, score |-> 0]
NoRow == [class |-> 0]

NoColumn == [c \in Column |-> None]
NoExtension == [k \in ExtKey |-> None]

Init ==
  /\ pc = "idle" /\ alert = NoAlert /\ mapping = <<>>
  /\ at = 1 /\ col = NoColumn /\ sev = 0
  /\ todo = {} /\ ext = NoExtension
  /\ row = NoRow /\ earlier = NoRow

Has(f) == f \in DOMAIN alert.word
NoWord == "no word"
Word(f) == IF Has(f) THEN alert.word[f] ELSE NoWord

\* first_port and parse() leave a numeric column at 0 unless they get a number.
Usable(c, f) == Has(f) /\ (c \in NumericTarget => Word(f) = "number")

FirstUsable(c, fields) ==
  LET usable == {k \in DOMAIN fields : Usable(c, fields[k])}
  IN  IF usable = {} THEN None ELSE fields[Min(usable)]

-----------------------------------------------------------------------------
(* The sections: which fields fill a column, first one first, and the       *)
(* severity afterwards.                                                     *)

\* (mutant) A label the table does not have counts as informational.
LabelledOrInfo(f, severityOf, severity) ==
  IF Has(f) THEN IF Word(f) \in DOMAIN severityOf THEN severityOf[Word(f)] ELSE 1 ELSE severity

\* A label the table does not have changes nothing.
Labelled(f, severityOf, severity) ==
  IF Word(f) \in DOMAIN severityOf THEN severityOf[Word(f)] ELSE severity

ScannerLabel ==
  [w \in {"critical", "high", "medium", "moderate", "low", "informational", "info", "none"} |->
     CASE w = "critical" -> 5 [] w = "high" -> 4 [] w \in {"medium", "moderate"} -> 3
       [] w = "low" -> 2 [] OTHER -> 1]
HubLabel == Restrict(ScannerLabel, {"critical", "high", "medium", "low", "informational"})
GraphLabel == Restrict(ScannerLabel, {"high", "medium", "low", "informational"})
GcpLabel ==
  [w \in {"emergency", "alert", "critical", "error", "warning", "notice", "info", "debug"} |->
     CASE w \in {"emergency", "alert", "critical"} -> 5 [] w = "error" -> 4
       [] w = "warning" -> 3 [] w = "notice" -> 2 [] OTHER -> 1]

\* (mutant) GuardDuty's highest band is taken for OCSF's Fatal.
GuardDutyBandFatal(score) ==
  CASE score >= 80 -> 6 [] score \in 70 .. 79 -> 4 [] score \in 40 .. 69 -> 3
    [] score \in 10 .. 39 -> 2 [] OTHER -> 1

\* GuardDuty's score, in tenths; what is not a number counts as 0.
GuardDutyBand(score) ==
  CASE score >= 80 -> 5 [] score \in 70 .. 79 -> 4 [] score \in 40 .. 69 -> 3
    [] score \in 10 .. 39 -> 2 [] OTHER -> 1

Section(fills, severity) == [fills |-> fills, severity |-> severity]

\* first_str, first_port and first_u64 on the paths of each column.
Data == Section([c \in Target |-> << <<"data", c>> >>], sev)

HasCve == Has(<<"vulnerability", "cve">>)

\* All of it only with a CVE.
Vulnerability ==
  Section([c \in {"url", "app_name", "status"} |->
             IF HasCve THEN << <<"vulnerability", c>> >> ELSE <<>>], sev)

Windows ==
  Section([c \in {"app_name", "process_id", "process_name", "actor_user", "target_user"} |->
             IF c \in {"actor_user", "target_user"}
               THEN << <<"win name", c>>, <<"win sid", c>> >>
               ELSE << <<"win", c>> >>], sev)

Dpkg == Section([c \in {"app_name", "status"} |-> << <<"dpkg", c>> >>], sev)

\* The top-level sections syscheck and predecoder.
TopLevel ==
  Section([c \in {"file_name", "src_hostname", "app_name"} |->
             << <<IF c = "file_name" THEN "syscheck" ELSE "predecoder", c>> >>], sev)

\* sca, audit.directory, and then data.file and data.title.
Checks ==
  Section([c \in {"finding_title", "status", "app_name", "file_name"} |->
             CASE c = "file_name" -> << <<"audit", c>>, <<"plain", c>> >>
               [] c = "finding_title" -> << <<"sca", c>>, <<"plain", c>> >>
               [] OTHER -> << <<"sca", c>> >>], sev)

Aws ==
  Section([c \in {"src_ip", "actor_user", "domain", "action", "category",
                  "dst_hostname", "url", "status"} |->
             CASE c = "actor_user" -> << <<"aws", "UserName">>, <<"aws", "arn">>,
                                         <<"aws", "sessionIssuer">> >>
               [] c = "status" -> << <<"aws", "ConsoleLogin">>, <<"aws", "UserAuthentication">>,
                                     <<"aws", "responseElements.status">>,
                                     <<"aws", "errorMessage">> >>
               [] OTHER -> << <<"aws", c>> >>], sev)

GuardDutySeverity == IF Has(<<"aws", "severity">>) THEN GuardDutyBand(alert.score) ELSE sev

Source == Word(<<"aws", "source">>)

\* The match on aws.source.
AwsSource ==
  CASE Source \in {"guardduty", "inspector", "macie"} ->
         Section([c \in {"rule_name", "category", "domain", "action", "src_hostname"} |->
                    << <<"aws finding", c>> >>],
                 IF Source = "guardduty" THEN GuardDutySeverity
                   ELSE Labelled(<<"aws", "severity">>, ScannerLabel, sev))
    [] Source = "waf" -> Section([c \in {"rule_name"} |-> << <<"aws waf", c>> >>], sev)
    [] Source = "alb" -> Section([c \in {"action"} |-> << <<"aws alb", c>> >>], sev)
    [] Source = "s3_server_access" ->
         Section([c \in {"domain", "status"} |->
                    << <<"aws s3", IF c = "status" THEN "error_code" ELSE c>> >>], sev)
    [] Source = "config" ->
         Section([c \in {"domain", "rule_name"} |-> << <<"aws config", c>> >>], sev)
    [] Source = "securityhub" ->
         Section([c \in {"rule_name", "category"} |-> << <<"aws hub", c>> >>],
                 Labelled(<<"aws hub", "severity">>, HubLabel, sev))
    [] OTHER -> Section(<<>>, sev)

Office365 ==
  Section([c \in {"src_ip", "actor_user", "app_name", "domain", "action", "status"} |->
             IF c = "app_name"
               THEN << <<"office365", "Workload">>, <<"office365", "ApplicationDisplayName">>,
                       <<"office365", "ClientAppName">> >>
               ELSE << <<"office365", c>> >>], sev)

Gcp ==
  Section([c \in {"actor_user", "src_ip", "action", "url", "domain"} |->
             IF c = "src_ip" THEN << <<"gcp", "callerIp">>, <<"gcp", "sourceIP">> >>
                             ELSE << <<"gcp", c>> >>],
          Labelled(<<"gcp", "severity">>, GcpLabel, sev))

\* Any other level counts as "info".
DockerLevel ==
  CASE Word(<<"docker", "level">>) = "error" -> 4
    [] Word(<<"docker", "level">>) \in {"warning", "warn"} -> 3
    [] OTHER -> 1

\* The code takes the level of docker only if it raises the severity.
DockerSeverity ==
  IF Has(<<"docker", "level">>) /\ sev < DockerLevel THEN DockerLevel ELSE sev

Docker ==
  Section([c \in {"action", "category", "app_name"} |-> << <<"docker", c>> >>], DockerSeverity)

MsGraph ==
  Section([c \in {"rule_name", "category", "status", "app_name", "dst_hostname"} |->
             IF c = "app_name"
               THEN << <<"ms-graph", "detectionSource">>, <<"ms-graph", "serviceSource">> >>
               ELSE << <<"ms-graph", c>> >>],
          Labelled(<<"ms-graph", "severity">>, GraphLabel, sev))

Sections == <<Data, Vulnerability, Windows, Dpkg, TopLevel, Checks, Aws, AwsSource,
              Office365, Gcp, Docker, MsGraph>>

Fields(section, c) == IF c \in DOMAIN section.fills THEN section.fills[c] ELSE <<>>

-----------------------------------------------------------------------------
(* Extract: one section.                                                    *)

\* A call of transform() begins: no column has a value yet.
Enter ==
  /\ pc' = "sections" /\ at' = 1
  /\ col' = NoColumn
  /\ sev' = MapSeverity(alert'.level)
  /\ ext' = NoExtension
  /\ todo' = {} /\ row' = NoRow

Begin ==
  /\ pc = "idle"
  /\ \E c \in Call : alert' = c.alert /\ mapping' = c.mapping
  /\ Enter
  /\ UNCHANGED earlier

FilledFrom(section) ==
  [c \in Column |->
     IF col[c] # None THEN col[c] ELSE FirstUsable(c, Fields(section, c))]

ExtractSection ==
  /\ pc = "sections"
  /\ at <= Len(Sections)
  /\ col' = FilledFrom(Sections[at])
  /\ sev' = Sections[at].severity
  /\ at' = at + 1
  /\ UNCHANGED <<pc, alert, mapping, todo, ext, row, earlier>>

StartOverlay ==
  /\ pc = "sections"
  /\ at > Len(Sections)
  /\ todo' = DOMAIN mapping
  /\ pc' = "overlay"
  /\ UNCHANGED <<alert, mapping, at, col, sev, ext, row, earlier>>

-----------------------------------------------------------------------------
(* The custom mapping overlay.                                              *)

\* get_data_field looks in data only.
InData(f) == f[1] \notin {"syscheck", "predecoder"}

\* (mutant) A field without a value ends the loop.
LeftAfterBreak(f) == IF Has(f) /\ InData(f) THEN todo \ {f} ELSE {}

LeftAfter(f) == todo \ {f}

\* (mutant) A mapping replaces what the sections found.
OverlaidAlways(c, f) == IF Usable(c, f) THEN f ELSE col[c]

Overlaid(c, f) == IF col[c] = None /\ Usable(c, f) THEN f ELSE col[c]

MapField ==
  /\ pc = "overlay"
  /\ \E f \in todo :
       /\ todo' = LeftAfter(f)
       /\ IF ~ (Has(f) /\ InData(f)) THEN UNCHANGED <<col, ext>>
          ELSE IF mapping[f] \in Target
            THEN /\ col' = [col EXCEPT ![mapping[f]] = Overlaid(mapping[f], f)]
                 /\ UNCHANGED ext
            ELSE /\ ext' = [ext EXCEPT ![mapping[f]] = f]
                 /\ UNCHANGED col
  /\ UNCHANGED <<pc, alert, mapping, at, sev, row, earlier>>

EndOverlay ==
  /\ pc = "overlay"
  /\ todo = {}
  /\ pc' = "decide"
  /\ UNCHANGED <<alert, mapping, at, col, sev, todo, ext, row, earlier>>

-----------------------------------------------------------------------------
(* Class, status, severity, activity.                                       *)

AnyGroup(s) == alert.groups \cap s # {}

SuccessGroup == {"authentication_success", "win_authentication_success", "pam_success", "sudo"}
FailureGroup == {"authentication_failed", "authentication_failure",
                 "win_authentication_failed", "pam_failure", "invalid_login",
                 "multiple_authentication_failures"}

\* The status a row gets when no field and no mapping had one.
BackfilledStatus(class, columns) ==
  IF columns["status"] # None THEN columns["status"]
  ELSE IF AnyGroup(SuccessGroup) THEN Success
  ELSE IF AnyGroup(FailureGroup) THEN Failure
  ELSE IF class = 4001 THEN columns["action"] ELSE None

\* What a column says: a status made by the code, or the word of the field.
Says(f) ==
  CASE f = Success -> "success" [] f \in Failing \cup {Failure} -> "failure" [] OTHER -> Word(f)

\* For a vulnerability the label of the scanner replaces the severity.
FinalSeverity(class, severity) ==
  IF class = 2002 /\ HasCve
    THEN Labelled(<<"vulnerability", "severity">>, ScannerLabel, severity) ELSE severity

OpenWord == {"allow", "allowed", "permit", "pass", "accept", "accepted", "open"}
RefuseWord == {"deny", "denied", "block", "blocked", "drop", "dropped", "reject",
               "rejected", "refuse", "refused"}
CloseWord == {"close", "closed", "end", "finish", "finished", "timeout", "timed_out"}

NetworkActivity(w) ==
  CASE w \in OpenWord -> 1 [] w \in CloseWord -> 2 [] w \in {"reset", "rst"} -> 3
    [] w \in {"fail", "failed", "error"} -> 4 [] w \in RefuseWord -> 5 [] OTHER -> 6

FileActivity(w) ==
  CASE w \in {"modified", "changed"} -> 3 [] w \in {"deleted", "removed"} -> 4
    [] w \in {"renamed", "moved"} -> 5 [] OTHER -> 1

HttpActivity(w) ==
  CASE w = "get" -> 1 [] w = "put" -> 2 [] w = "post" -> 3 [] w = "delete" -> 4
    [] w = "connect" -> 5 [] w = "options" -> 6 [] w = "head" -> 7 [] OTHER -> 99

\* The first arm one of whose groups the alert has, otherwise 1.
ByGroup(arms) ==
  LET applying == {k \in DOMAIN arms : AnyGroup(arms[k].groups)}
  IN  IF applying = {} THEN 1 ELSE arms[Min(applying)].activity

Arm(groups, activity) == [groups |-> groups, activity |-> activity]

\* (mutant) A changed group is given an activity OCSF does not have.
AccountArmsOld ==
  <<Arm({"userdel"}, 2), Arm({"groupdel"}, 8), Arm({"addgroup"}, 7), Arm({"groupmod"}, 6),
    Arm({"usermod", "account_changed"}, 3), Arm({"passwd", "password_changed"}, 12)>>

AccountArms ==
  <<Arm({"userdel"}, 2), Arm({"groupdel"}, 8), Arm({"addgroup"}, 7), Arm({"groupmod"}, 9),
    Arm({"usermod", "account_changed"}, 3), Arm({"passwd", "password_changed"}, 12)>>

ProcessArms ==
  <<Arm({"process_stopped", "process_terminated", "sysmon_process_terminate"}, 2)>>

DnsActivity(w) ==
  IF AnyGroup({"dns_response"}) \/ w \in {"response", "answer"} THEN 2
  ELSE IF AnyGroup({"dns_traffic"}) \/ w = "traffic" THEN 3 ELSE 1

DhcpActivity(w) ==
  CASE w = "release" -> 3 [] w \in {"nak", "nack", "error"} -> 4
    [] w \in {"request", "renew", "rebind"} -> 2 [] OTHER -> 1

Activity(class, columns) ==
  CASE class = 1001 -> FileActivity(Word(<<"syscheck", "event">>))
    [] class = 1006 -> ByGroup(ProcessArms)
    [] class = 3001 -> ByGroup(AccountArms)
    [] class = 3002 -> ByGroup(<<Arm({"logoff", "logout"}, 2)>>)
    [] class = 4001 -> NetworkActivity(Word(columns["action"]))
    [] class = 4002 -> HttpActivity(Word(columns["http_method"]))
    [] class = 4003 -> DnsActivity(Word(columns["action"]))
    [] class = 4004 -> DhcpActivity(Word(columns["action"]))
    [] OTHER -> 1

\* (mutant) A denied connection counts as a success.
OutcomeIdSwapped(w) ==
  CASE w = NoWord -> 0
    [] w \in {"success", "allow", "allowed", "pass", "passed", "accepted", "denied"} -> 1
    [] w \in {"failure", "fail", "failed", "deny", "block", "blocked", "drop",
              "dropped", "reject", "rejected"} -> 2
    [] OTHER -> 99

OutcomeId(w) ==
  CASE w = NoWord -> 0
    [] w \in {"success", "allow", "allowed", "pass", "passed", "accepted"} -> 1
    [] w \in {"failure", "fail", "failed", "deny", "denied", "block", "blocked",
              "drop", "dropped", "reject", "rejected"} -> 2
    [] OTHER -> 99

FindingStatusId(w) ==
  CASE w \in {"in_progress", "in progress", "investigating"} -> 2
    [] w \in {"suppressed", "benign", "false_positive"} -> 3
    [] w \in {"resolved", "closed", "remediated"} -> 4
    [] w = "archived" -> 5 [] w = "deleted" -> 6 [] OTHER -> 1

\* Authentication knows one more word for a failure.
StatusId(class, w) ==
  IF class \in {2002, 2003, 2004} THEN FindingStatusId(w)
  ELSE IF class = 3002 /\ w = "error" THEN 2 ELSE OutcomeId(w)

MakeRow(rule, columns, severity, extensions) ==
  LET status == BackfilledStatus(rule.class, columns)
      activity == Activity(rule.class, columns)
  IN  [class |-> rule.class, category |-> rule.category, category_name |-> rule.name,
       activity |-> activity, type |-> rule.class * 100 + activity,
       severity |-> FinalSeverity(rule.class, severity),
       status_id |-> StatusId(rule.class, Says(status)),
       columns |-> [columns EXCEPT !["status"] = status],
       extensions |-> extensions]

Decide ==
  /\ pc = "decide"
  /\ row' = MakeRow(ClassifyEvent(alert.groups, alert.marks), col, sev, ext)
  /\ pc' = "done"
  /\ UNCHANGED <<alert, mapping, at, col, sev, todo, ext, earlier>>

-----------------------------------------------------------------------------
(* Around the call: the same line is transformed again after a crash, by a  *)
(* process whose HashMap has another order; and the next line comes.        *)

Replay ==
  /\ pc = "done" /\ earlier = NoRow
  /\ UNCHANGED <<alert, mapping>>
  /\ Enter
  /\ earlier' = row

NextLine ==
  /\ pc = "done"
  /\ pc' = "idle" /\ alert' = NoAlert /\ mapping' = <<>>
  /\ at' = 1 /\ col' = NoColumn /\ sev' = 0
  /\ todo' = {} /\ ext' = NoExtension
  /\ row' = NoRow /\ earlier' = NoRow

Next ==
  \/ Begin \/ ExtractSection \/ StartOverlay \/ MapField \/ EndOverlay
  \/ Decide \/ Replay \/ NextLine

Spec == Init /\ [][Next]_vars

-----------------------------------------------------------------------------
TypeOK ==
  /\ pc \in {"idle", "sections", "overlay", "decide", "done"}
  /\ \A f \in DOMAIN mapping : mapping[f] \in Target \cup ExtKey
  /\ at \in 1 .. Len(Sections) + 1
  /\ col \in [Column -> DOMAIN alert.word \cup {None}]
  /\ sev \in Severity
  /\ todo \subseteq DOMAIN mapping
  /\ ext \in [ExtKey -> DOMAIN mapping \cup {None}]

\* The tables of classify.rs, of the activities and of the validator agree:
\* no alert, whatever its groups, decoder and fields, makes a row that
\* check_and_warn would complain of (but for a missing time).
RowsAreValid == pc = "done" => Violations(row) = {}

\* A line that is transformed again after a crash gives the row it gave
\* before, in whatever order the mappings are visited, unless two of them
\* have one target.
ReplayGivesSameRow ==
  pc = "done" /\ earlier # NoRow /\ IsInjective(mapping) => row = earlier

\* What the first section to find anything for column c finds.
Native(c) ==
  LET Finds(k) == FirstUsable(c, Fields(Sections[k], c))
      finding == {k \in 1 .. Len(Sections) : Finds(k) # None}
  IN  IF finding = {} THEN None ELSE Finds(Min(finding))

MappedTo(c) ==
  {f \in DOMAIN mapping : mapping[f] = c /\ c \in Target /\ InData(f) /\ Usable(c, f)}

\* What the sections find has precedence over every mapping, and an earlier
\* section over a later one; a mapping fills what is left, and only that.
ColumnsByPrecedence ==
  pc = "decide" =>
    \A c \in Column :
      IF Native(c) # None \/ MappedTo(c) = {} THEN col[c] = Native(c)
      ELSE col[c] \in MappedTo(c)

Known(f, severityOf) == Word(f) \in DOMAIN severityOf

\* The severity that the rule level, the AWS sources and GCP come to.
OfAws ==
  CASE Source = "guardduty" /\ Has(<<"aws", "severity">>) -> GuardDutyBand(alert.score)
    [] Source \in {"inspector", "macie"} /\ Known(<<"aws", "severity">>, ScannerLabel) ->
         ScannerLabel[Word(<<"aws", "severity">>)]
    [] Source = "securityhub" /\ Known(<<"aws hub", "severity">>, HubLabel) ->
         HubLabel[Word(<<"aws hub", "severity">>)]
    [] OTHER -> MapSeverity(alert.level)
OfGcp ==
  IF Known(<<"gcp", "severity">>, GcpLabel) THEN GcpLabel[Word(<<"gcp", "severity">>)] ELSE OfAws

DockerWord == {"error", "warning", "warn", "info"}

\* Labels override the rule level and each other: the scanner of a
\* vulnerability, then MS Graph, docker, GCP, the AWS source; a label that its
\* table does not have overrides nothing (GuardDuty has a number; what is none
\* counts as 0).  The documentation lets docker.level override the rule level;
\* the code takes it only if it is higher.  So of docker this is said where the
\* two agree: a documented level that is not below what it should override, and
\* any other level, which makes Informational of Unknown and no other change.
SeverityByPrecedence ==
  LET vuln == <<"vulnerability", "severity">>
      graph == <<"ms-graph", "severity">>
      docker == <<"docker", "level">>
  IN  pc = "done" =>
        IF row.class = 2002 /\ HasCve /\ Known(vuln, ScannerLabel)
          THEN row.severity = ScannerLabel[Word(vuln)]
        ELSE IF Known(graph, GraphLabel) THEN row.severity = GraphLabel[Word(graph)]
        ELSE IF ~ Has(docker) THEN row.severity = OfGcp
        ELSE IF Word(docker) \in DockerWord THEN
          DockerLevel >= OfGcp => row.severity = DockerLevel
        ELSE row.severity = Max({OfGcp, 1})

\* The alert says how it came out: a field or a mapping fills the status, or a
\* group does.
Told(groups) == Native("status") # None \/ MappedTo("status") # {} \/ AnyGroup(groups)

\* A row contradicts itself only where the alert does.  A connection that was
\* refused or failed is a success, and one that was opened a failure, only if
\* the alert says so beside its action (a field for the status or a rule group;
\* the code looks at both before the action).  An authentication is a success or
\* a failure only if the alert says so, and what only its groups say is not
\* lost: the documented queries for failed logons count the status_id.
OutcomesAgree ==
  pc = "done" =>
    /\ row.class = 4001 =>
         /\ row.activity \in {4, 5} /\ row.status_id = 1 => Told(SuccessGroup)
         /\ row.activity = 1 /\ row.status_id = 2 => Told(FailureGroup)
    /\ row.class = 3002 =>
         /\ row.status_id = 1 => Told(SuccessGroup)
         /\ row.status_id = 2 => Told(FailureGroup)
         /\ AnyGroup(SuccessGroup) /\ ~ Told({}) => row.status_id = 1
         /\ AnyGroup(FailureGroup) /\ ~ Told(SuccessGroup) => row.status_id = 2
=============================================================================
