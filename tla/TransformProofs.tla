---------------------------- MODULE TransformProofs ----------------------------
(***************************************************************************)
(* The invariants of Transform for every set of calls: any alert, with any  *)
(* words in its fields, any groups and any mapping.                         *)
(*                                                                         *)
(* Two arguments.  The tables: every rule of classify.rs has a class and    *)
(* its category, every activity is one of its class, so a row passes the    *)
(* validator.  And the course of a call: what a section finds depends on    *)
(* the alert alone, so IInv can say, at each point of the call, which       *)
(* section filled a column, what the mappings may still fill, and which     *)
(* label decides the severity.                                              *)
(***************************************************************************)
EXTENDS Transform, FiniteSetTheorems, SequenceTheorems, WellFoundedInduction, TLAPS

(* The smallest and the greatest of some numbers.                           *)

\* A set of numbers has a smallest one.
LEMMA LeastExists ==
  ASSUME NEW S, S \subseteq Nat, S # {}
  PROVE  \E m \in S : \A k \in S : m <= k
<1> DEFINE R == OpToRel(<, Nat)
<1>1. IsWellFoundedOn(R, Nat)
  BY NatLessThanWellFounded, Zenon
<1>2. \A k, n \in Nat : k < n => <<k, n>> \in R
  BY DEF OpToRel
<1> HIDE DEF R
<1>3. PICK m \in S : \A k \in S : ~ (<<k, m>> \in R)
  BY <1>1, WFMin, Zenon
<1>4. \A k \in S : ~ k < m
  BY <1>2, <1>3
<1> QED
  BY <1>4

\* Min takes that one.
LEMMA MinIsLeast ==
  ASSUME NEW S, S \subseteq Nat, S # {}
  PROVE  Min(S) \in S /\ \A k \in S : Min(S) <= k
BY LeastExists DEF Min

\* The one below which there is none is the smallest.
LEMMA MinIs ==
  ASSUME NEW S, S \subseteq Nat, NEW m \in S, \A k \in S : m <= k
  PROVE  Min(S) = m
<1>1. PICK n : n = Min(S)
  OBVIOUS
<1>2. n \in S /\ n <= m
  BY <1>1, MinIsLeast
<1>3. n = m
  BY <1>2
<1> QED
  BY <1>1, <1>3

\* Max of two numbers is the greater one.
LEMMA MaxOfTwo ==
  ASSUME NEW m \in Nat, NEW n \in Nat
  PROVE  Max({m, n}) = IF m < n THEN n ELSE m
<1>1. PICK x : x = Max({m, n})
  OBVIOUS
<1>2. \E y \in {m, n} : \A z \in {m, n} : y >= z
  <2>1. CASE m < n
    BY <2>1
  <2>2. CASE ~ m < n
    BY <2>2
  <2> QED
    BY <2>1, <2>2
<1>3. x \in {m, n} /\ x >= m /\ x >= n
  BY <1>1, <1>2 DEF Max
<1> QED
  BY <1>1, <1>3

-----------------------------------------------------------------------------
(* The rules of classify.rs, the activities and the validator.              *)

KnownClass == {1001, 1006, 2002, 2003, 2004, 3001, 3002, 4001, 4002, 4003, 4004}

\* A class OCSF has, its category and the name of that.
RuleOK(rule) ==
  rule.class \in KnownClass /\ <<rule.category, rule.name>> = ExpectedCategory(rule.class)

\* The classes of the rules, as Rule makes them.
LEMMA RuleIsOK ==
  ASSUME NEW groups, NEW marks
  PROVE  /\ RuleOK(Rule(1001, 1, "system", groups, marks))
         /\ RuleOK(Rule(1006, 1, "system", groups, marks))
         /\ RuleOK(Rule(2002, 2, "findings", groups, marks))
         /\ RuleOK(Rule(2003, 2, "findings", groups, marks))
         /\ RuleOK(Rule(2004, 2, "findings", groups, marks))
         /\ RuleOK(Rule(3001, 3, "identity", groups, marks))
         /\ RuleOK(Rule(3002, 3, "identity", groups, marks))
         /\ RuleOK(Rule(4001, 4, "network", groups, marks))
         /\ RuleOK(Rule(4002, 4, "network", groups, marks))
         /\ RuleOK(Rule(4003, 4, "network", groups, marks))
         /\ RuleOK(Rule(4004, 4, "network", groups, marks))
<1>1. /\ 1001 \div 1000 = 1 /\ 1006 \div 1000 = 1 /\ 2002 \div 1000 = 2 /\ 2003 \div 1000 = 2
      /\ 2004 \div 1000 = 2 /\ 3001 \div 1000 = 3 /\ 3002 \div 1000 = 3 /\ 4001 \div 1000 = 4
      /\ 4002 \div 1000 = 4 /\ 4003 \div 1000 = 4 /\ 4004 \div 1000 = 4
  OBVIOUS
<1> QED
  BY <1>1 DEF RuleOK, Rule, KnownClass, ExpectedCategory

\* The three tables of classify.rs hold such rules only.
LEMMA RulesOfParts ==
  /\ \A k \in DOMAIN CloudRules : RuleOK(CloudRules[k])
  /\ \A k \in DOMAIN HostRules : RuleOK(HostRules[k])
  /\ \A k \in DOMAIN NetworkRules : RuleOK(NetworkRules[k])
<1>2. \A k \in DOMAIN CloudRules : RuleOK(CloudRules[k])
  BY RuleIsOK DEF CloudRules
<1>3. \A k \in DOMAIN HostRules : RuleOK(HostRules[k])
  BY RuleIsOK DEF HostRules
<1>4. \A k \in DOMAIN NetworkRules : RuleOK(NetworkRules[k])
  BY RuleIsOK DEF NetworkRules
<1> QED
  BY <1>2, <1>3, <1>4

\* So does Rules, their concatenation.
LEMMA RulesOK == DOMAIN Rules \subseteq Nat /\ \A k \in DOMAIN Rules : RuleOK(Rules[k])
<1> DEFINE OKs == {rule \in ToSet(CloudRules) \cup ToSet(HostRules) \cup ToSet(NetworkRules) :
                   RuleOK(rule)}
<1>1. /\ \A k \in DOMAIN CloudRules : CloudRules[k] \in OKs
      /\ \A k \in DOMAIN HostRules : HostRules[k] \in OKs
      /\ \A k \in DOMAIN NetworkRules : NetworkRules[k] \in OKs
  BY RulesOfParts DEF ToSet
<1>2. /\ DOMAIN CloudRules = 1 .. 10 /\ DOMAIN HostRules = 1 .. 7 /\ DOMAIN NetworkRules = 1 .. 5
      /\ CloudRules = [k \in 1 .. 10 |-> CloudRules[k]] /\ Len(CloudRules) = 10
      /\ HostRules = [k \in 1 .. 7 |-> HostRules[k]] /\ Len(HostRules) = 7
      /\ NetworkRules = [k \in 1 .. 5 |-> NetworkRules[k]] /\ Len(NetworkRules) = 5
  BY DEF CloudRules, HostRules, NetworkRules
<1> HIDE DEF OKs
<1>3. CloudRules \in Seq(OKs) /\ HostRules \in Seq(OKs) /\ NetworkRules \in Seq(OKs)
  BY <1>1, <1>2
<1>4. Rules \in Seq(OKs)
  BY <1>3, ConcatProperties DEF Rules
<1>5. \A k \in DOMAIN Rules : k \in Nat /\ Rules[k] \in OKs
  BY <1>4
<1> QED
  BY <1>5 DEF OKs

\* Whatever the groups and marks, the class is one of eleven and the category
\* is its own.
LEMMA ClassifyOK ==
  ASSUME NEW groups, NEW marks
  PROVE  RuleOK(ClassifyEvent(groups, marks))
<1> DEFINE matching == {k \in DOMAIN Rules : \/ Rules[k].groups \cap Derived(groups, marks) # {}
                                            \/ Rules[k].marks \cap marks # {}}
<1>1. CASE matching = {}
  BY <1>1, RuleIsOK DEF ClassifyEvent, DefaultRule
<1>2. CASE matching # {}
  <2>1. Min(matching) \in DOMAIN Rules
    BY <1>2, RulesOK, MinIsLeast
  <2> QED
    BY <1>2, <2>1, RulesOK DEF ClassifyEvent
<1> QED
  BY <1>1, <1>2

\* ByGroup gives 1 or the activity of one of its arms.
LEMMA ByGroupValue ==
  ASSUME NEW arms, DOMAIN arms \subseteq Nat
  PROVE  ByGroup(arms) = 1 \/ \E k \in DOMAIN arms : ByGroup(arms) = arms[k].activity
<1> DEFINE applying == {k \in DOMAIN arms : AnyGroup(arms[k].groups)}
<1>1. CASE applying # {}
  <2>1. Min(applying) \in DOMAIN arms
    BY <1>1, MinIsLeast
  <2> QED
    BY <1>1, <2>1 DEF ByGroup
<1> QED
  BY <1>1 DEF ByGroup

\* What the groups make of an account change.
LEMMA AccountActivity == ByGroup(AccountArms) \in {1, 2, 3, 7, 8, 9, 12}
<1>1. DOMAIN AccountArms \subseteq Nat
      /\ \A k \in DOMAIN AccountArms : AccountArms[k].activity \in {1, 2, 3, 7, 8, 9, 12}
  BY DEF AccountArms, Arm
<1> QED
  BY <1>1, ByGroupValue

\* What the groups make of a process and of a session.
LEMMA EndActivity ==
  ByGroup(ProcessArms) \in {1, 2} /\ ByGroup(<<Arm({"logoff", "logout"}, 2)>>) \in {1, 2}
<1>1. DOMAIN ProcessArms \subseteq Nat /\ \A k \in DOMAIN ProcessArms : ProcessArms[k].activity = 2
  BY DEF ProcessArms, Arm
<1>2. ASSUME NEW arms, arms = <<Arm({"logoff", "logout"}, 2)>>
      PROVE  DOMAIN arms \subseteq Nat /\ \A k \in DOMAIN arms : arms[k].activity = 2
  BY <1>2 DEF Arm
<1> QED
  BY <1>1, <1>2, ByGroupValue

\* Every activity is one of its class, whatever the action says.
LEMMA ActivityOK ==
  ASSUME NEW class \in KnownClass, NEW columns
  PROVE  /\ Activity(class, columns) \in ValidActivityIds(class)
         /\ Activity(class, columns) \in Nat
<1>1. \A w : FileActivity(w) \in {1, 3, 4, 5}
  BY DEF FileActivity
<1>2. \A w : NetworkActivity(w) \in {1, 2, 3, 4, 5, 6}
  BY DEF NetworkActivity
<1>3. \A w : HttpActivity(w) \in {1, 2, 3, 4, 5, 6, 7, 99}
  BY DEF HttpActivity
<1>4. \A w : DnsActivity(w) \in {1, 2, 3} /\ DhcpActivity(w) \in {1, 2, 3, 4}
  BY DEF DnsActivity, DhcpActivity
<1> QED
  BY <1>1, <1>2, <1>3, <1>4, AccountActivity, EndActivity DEF Activity, ValidActivityIds, KnownClass

\* The tables of the three files agree.
LEMMA MadeRowsAreValid ==
  ASSUME NEW groups, NEW marks, NEW columns, NEW severity \in Severity, NEW extensions
  PROVE  Violations(MakeRow(ClassifyEvent(groups, marks), columns, severity, extensions)) = {}
<1> DEFINE rule == ClassifyEvent(groups, marks)
           made == MakeRow(rule, columns, severity, extensions)
<1>1. rule.class \in KnownClass /\ <<rule.category, rule.name>> = ExpectedCategory(rule.class)
  BY ClassifyOK DEF RuleOK
<1>2. FinalSeverity(rule.class, severity) \in Severity
  BY DEF FinalSeverity, Labelled, ScannerLabel, Severity
<1>3. /\ made.class = rule.class /\ made.category = rule.category
      /\ made.category_name = rule.name
      /\ made.activity = Activity(rule.class, columns)
      /\ made.type = rule.class * 100 + Activity(rule.class, columns)
      /\ made.severity = FinalSeverity(rule.class, severity)
  BY DEF MakeRow
<1> HIDE DEF made, rule
<1>4. made.class \in ValidClassUids
  BY <1>1, <1>3 DEF KnownClass, ValidClassUids
<1>5. made.severity \in ValidSeverityIds
  BY <1>2, <1>3 DEF Severity, ValidSeverityIds
<1>6. made.activity \in ValidActivityIds(made.class)
  BY <1>1, <1>3, ActivityOK
<1>7. /\ made.type = made.class * 100 + made.activity
      /\ <<made.category, made.category_name>> = ExpectedCategory(made.class)
  BY <1>1, <1>3
<1> QED
  BY <1>4, <1>5, <1>6, <1>7 DEF Violations, made, rule

-----------------------------------------------------------------------------
(* The sections: their fields depend on the alert alone.                    *)

Step == 1 .. 12

\* The sections one by one.
LEMMA SectionsAre ==
  /\ Len(Sections) = 12
  /\ Sections[1] = Data /\ Sections[2] = Vulnerability /\ Sections[3] = Windows
  /\ Sections[4] = Dpkg /\ Sections[5] = TopLevel /\ Sections[6] = Checks
  /\ Sections[7] = Aws /\ Sections[8] = AwsSource /\ Sections[9] = Office365
  /\ Sections[10] = Gcp /\ Sections[11] = Docker /\ Sections[12] = MsGraph
BY DEF Sections

\* What Section puts together.
LEMMA SectionParts ==
  ASSUME NEW fills, NEW severity
  PROVE  Section(fills, severity).fills = fills /\ Section(fills, severity).severity = severity
BY DEF Section

\* The fields of a section are a sequence, and none of those of the action is
\* one that is taken for a failure.
ListsOK(section) ==
  /\ \A c : DOMAIN Fields(section, c) \subseteq Nat
  /\ \A j \in DOMAIN Fields(section, "action") : Fields(section, "action")[j] \notin Failing

\* Lists of no, one and up to four fields have positions that are numbers.
LEMMA ListOfNone ==
  ASSUME NEW list, list = <<>>
  PROVE  DOMAIN list = {}
OBVIOUS

\* (one field)
LEMMA ListOfOne ==
  ASSUME NEW list, NEW f, list = <<f>>
  PROVE  DOMAIN list \subseteq Nat /\ \A j \in DOMAIN list : list[j] = f
OBVIOUS

\* (two to four fields)
LEMMA ListOfMore ==
  ASSUME NEW list, NEW f, NEW g, NEW h, NEW i,
         list = <<f, g>> \/ list = <<f, g, h>> \/ list = <<f, g, h, i>>
  PROVE  DOMAIN list \subseteq Nat
<1>1. CASE list = <<f, g>>
  BY <1>1
<1>2. CASE list = <<f, g, h>>
  BY <1>2
<1>3. CASE list = <<f, g, h, i>>
  BY <1>3
<1> QED
  BY <1>1, <1>2, <1>3

\* At most four fields, written down one by one.
ShortList(list) ==
  \E f, g, h, i : list \in {<<>>, <<f>>, <<f, g>>, <<f, g, h>>, <<f, g, h, i>>}

\* Whichever of these it is, its positions are numbers.
LEMMA ShortLists ==
  ASSUME NEW list, ShortList(list)
  PROVE  DOMAIN list \subseteq Nat
<1>1. PICK f, g, h, i : \/ list = <<>> \/ list = <<f>> \/ list = <<f, g>>
                       \/ list = <<f, g, h>> \/ list = <<f, g, h, i>>
  BY DEF ShortList
<1>2. CASE list = <<>>
  <2>1. DOMAIN list = {}
    BY <1>2, ListOfNone
  <2> QED
    BY <2>1
<1>3. CASE list = <<f>>
  BY <1>3, ListOfOne
<1>4. CASE list = <<f, g>> \/ list = <<f, g, h>> \/ list = <<f, g, h, i>>
  BY <1>4, ListOfMore
<1> QED
  BY <1>1, <1>2, <1>3, <1>4

\* A section whose columns have such lists, and at most one field for the action.
LEMMA ListsOfFills ==
  ASSUME NEW fills, NEW severity,
         \A c \in DOMAIN fills : ShortList(fills[c]),
         "action" \in DOMAIN fills =>
           \E s : s # "aws s3" /\ fills["action"] = << <<s, "action">> >>
  PROVE  ListsOK(Section(fills, severity))
<1> DEFINE section == Section(fills, severity)
<1>1. \A c : Fields(section, c) = IF c \in DOMAIN fills THEN fills[c] ELSE <<>>
  BY DEF Fields, Section
<1>2. \A c : ShortList(Fields(section, c))
  <2>1. ShortList(<<>>)
    BY DEF ShortList
  <2> QED
    BY <1>1, <2>1
<1>3. \A c : DOMAIN Fields(section, c) \subseteq Nat
  BY <1>2, ShortLists
<1>4. CASE "action" \in DOMAIN fills
  <2>1. PICK s : s # "aws s3" /\ fills["action"] = << <<s, "action">> >>
    BY <1>4
  <2>2. <<s, "action">> \notin Failing
    BY <2>1 DEF Failing
  <2>3. Fields(section, "action") = << <<s, "action">> >>
    BY <1>1, <1>4, <2>1
  <2>4. \A j \in DOMAIN Fields(section, "action") : Fields(section, "action")[j] = <<s, "action">>
    BY <2>3, ListOfOne
  <2> QED
    BY <1>3, <2>2, <2>4 DEF ListsOK
<1>5. CASE "action" \notin DOMAIN fills
  <2>1. Fields(section, "action") = <<>>
    BY <1>1, <1>5
  <2>2. DOMAIN Fields(section, "action") = {}
    BY <2>1, ListOfNone
  <2> QED
    BY <1>3, <2>2 DEF ListsOK
<1> QED
  BY <1>4, <1>5

\* Every section of transform() is one.
LEMMA ListsAreOK == \A k \in Step : ListsOK(Sections[k])
<1>1. ListsOK(Data)
  BY ListsOfFills DEF ShortList, Data, Target, TextTarget
<1>2. ListsOK(Vulnerability)
  BY ListsOfFills DEF ShortList, Vulnerability
<1>3. ListsOK(Windows) /\ ListsOK(Dpkg) /\ ListsOK(TopLevel) /\ ListsOK(Checks)
  BY ListsOfFills DEF ShortList, Windows, Dpkg, TopLevel, Checks
<1>4. ListsOK(Aws)
  BY ListsOfFills DEF ShortList, Aws
<1>5. ListsOK(AwsSource)
  <2>1. CASE Source \in {"guardduty", "inspector", "macie"}
    BY <2>1, ListsOfFills DEF ShortList, AwsSource
  <2>2. CASE Source \in {"waf", "alb", "config", "securityhub"}
    BY <2>2, ListsOfFills DEF ShortList, AwsSource
  <2>3. CASE Source = "s3_server_access"
    BY <2>3, ListsOfFills DEF ShortList, AwsSource
  <2>4. CASE Source \notin {"guardduty", "inspector", "macie", "waf", "alb", "config",
                            "securityhub", "s3_server_access"}
    <3>1. PICK none : none = <<>>
      OBVIOUS
    <3>2. AwsSource = Section(none, sev)
      BY <2>4, <3>1 DEF AwsSource
    <3>3. DOMAIN none = {}
      BY <3>1, ListOfNone
    <3> QED
      BY <3>2, <3>3, ListsOfFills
  <2> QED
    BY <2>1, <2>2, <2>3, <2>4
<1>6. ListsOK(Office365) /\ ListsOK(Gcp) /\ ListsOK(Docker) /\ ListsOK(MsGraph)
  BY ListsOfFills DEF ShortList, Office365, Gcp, Docker, MsGraph
<1> QED
  BY <1>1, <1>2, <1>3, <1>4, <1>5, <1>6, SectionsAre DEF Step

\* Which fields a section looks at depends on the alert alone.
LEMMA FillsStay ==
  ASSUME alert' = alert
  PROVE  \A k \in Step : Sections'[k].fills = Sections[k].fills
<1>0. \A f : Has(f)' = Has(f) /\ Word(f)' = Word(f)
  BY DEF Has, Word
<1>1. Data'.fills = Data.fills
  BY DEF Data, Section
<1>2. Vulnerability'.fills = Vulnerability.fills
  BY <1>0 DEF Vulnerability, Section, HasCve
<1>3. Windows'.fills = Windows.fills /\ Dpkg'.fills = Dpkg.fills /\ TopLevel'.fills = TopLevel.fills
      /\ Checks'.fills = Checks.fills
  BY DEF Windows, Dpkg, TopLevel, Checks, Section
<1>4. Aws'.fills = Aws.fills /\ Office365'.fills = Office365.fills /\ Gcp'.fills = Gcp.fills
  BY DEF Aws, Office365, Gcp, Section
<1>5. Docker'.fills = Docker.fills /\ MsGraph'.fills = MsGraph.fills
  BY DEF Docker, MsGraph, Section
<1>6. AwsSource'.fills = AwsSource.fills
  <2>1. Source' = Source
    BY <1>0 DEF Source
  <2> QED
    BY <2>1 DEF AwsSource, Section
<1>7. /\ Sections'[1] = Data' /\ Sections'[2] = Vulnerability' /\ Sections'[3] = Windows'
      /\ Sections'[4] = Dpkg' /\ Sections'[5] = TopLevel' /\ Sections'[6] = Checks'
      /\ Sections'[7] = Aws' /\ Sections'[8] = AwsSource' /\ Sections'[9] = Office365'
      /\ Sections'[10] = Gcp' /\ Sections'[11] = Docker' /\ Sections'[12] = MsGraph'
  BY DEF Sections
<1> QED
  BY <1>1, <1>2, <1>3, <1>4, <1>5, <1>6, <1>7, SectionsAre DEF Step

\* What section k finds for column c.
Finds(k, c) == FirstUsable(c, Fields(Sections[k], c))

\* FirstUsable gives None or one of the fields, which the alert then has.
LEMMA FirstUsableValue ==
  ASSUME NEW c, NEW fields, DOMAIN fields \subseteq Nat
  PROVE  \/ FirstUsable(c, fields) = None
         \/ \E k \in DOMAIN fields : FirstUsable(c, fields) = fields[k] /\ Usable(c, fields[k])
<1> DEFINE usable == {k \in DOMAIN fields : Usable(c, fields[k])}
<1>1. CASE usable # {}
  <2>1. Min(usable) \in usable
    BY <1>1, MinIsLeast
  <2> QED
    BY <1>1, <2>1 DEF FirstUsable
<1> QED
  BY <1>1 DEF FirstUsable

\* A section finds a field of the alert or nothing, and for the action none that
\* is taken for a failure.
LEMMA FindsValue ==
  ASSUME NEW k \in Step, NEW c
  PROVE  /\ Finds(k, c) \in DOMAIN alert.word \cup {None}
         /\ Finds(k, "action") \notin Failing
<1>1. Finds(k, c) \in DOMAIN alert.word \cup {None}
  BY ListsAreOK, FirstUsableValue DEF ListsOK, Finds, Usable, Has
<1>2. Finds(k, "action") \notin Failing
  <2>1. None \notin Failing
    BY DEF None, Failing
  <2> QED
    BY <2>1, ListsAreOK, FirstUsableValue DEF ListsOK, Finds
<1> QED
  BY <1>1, <1>2

\* What a section finds depends on the alert alone.
LEMMA FindsStay ==
  ASSUME alert' = alert, NEW k \in Step, NEW c
  PROVE  Finds(k, c)' = Finds(k, c)
<1>1. Sections'[k].fills = Sections[k].fills
  BY FillsStay
<1>2. \A f : Usable(c, f)' <=> Usable(c, f)
  BY DEF Usable, Has, Word
<1> QED
  BY <1>1, <1>2 DEF Finds, FirstUsable, Fields

-----------------------------------------------------------------------------
(* The invariant.                                                           *)

\* Of the call in hand, what CallAssumption says of every call.
CallOK ==
  /\ DOMAIN alert.word \cap {None, Success, Failure} = {}
  /\ DOMAIN mapping \cap (Failing \cup {None, Success, Failure}) = {}
  /\ \A f \in DOMAIN mapping : mapping[f] \in Target \cup ExtKey

Raised == IF Has(<<"docker", "level">>) THEN Max({OfGcp, DockerLevel}) ELSE OfGcp

OfGraph ==
  IF Known(<<"ms-graph", "severity">>, GraphLabel)
    THEN GraphLabel[Word(<<"ms-graph", "severity">>)] ELSE Raised

\* The severity before section n.
SeverityAt(n) ==
  IF n <= 8 THEN MapSeverity(alert.level) ELSE IF n <= 10 THEN OfAws
  ELSE IF n = 11 THEN OfGcp ELSE IF n = 12 THEN Raised ELSE OfGraph

\* The first of the sections 1 .. n to find anything for column c filled it.
SoFar(c, n) ==
  \/ col[c] = None /\ \A k \in 1 .. n : Finds(k, c) = None
  \/ \E k \in 1 .. n : /\ col[c] = Finds(k, c) /\ Finds(k, c) # None
                       /\ \A j \in 1 .. k - 1 : Finds(j, c) = None

SectionsInv ==
  pc = "sections" =>
    /\ sev = SeverityAt(at)
    /\ \A c \in Column : SoFar(c, at - 1)
    /\ ext = NoExtension

\* The mapped fields whose value goes to extension k.
ExtFor(k) == {f \in DOMAIN mapping : mapping[f] = k /\ Has(f) /\ InData(f)}

\* What the sections left empty is filled from a mapping that was looked at,
\* or no mapping that was looked at has anything for it.
OverlayInv ==
  pc \in {"overlay", "decide", "done"} =>
    /\ sev = OfGraph
    /\ \A c \in Column :
         IF Native(c) # None THEN col[c] = Native(c)
         ELSE \/ col[c] \in MappedTo(c)
              \/ col[c] = None /\ MappedTo(c) \subseteq todo
    /\ \A k \in ExtKey :
         \/ ext[k] \in ExtFor(k)
         \/ ext[k] = None /\ ExtFor(k) \subseteq todo

DecideInv ==
  /\ pc \in {"decide", "done"} => todo = {}
  /\ pc = "done" => row = MakeRow(ClassifyEvent(alert.groups, alert.marks), col, sev, ext)

\* The columns, the extensions and the row of the call in hand, if no two of
\* its mappings have one target.
Only(S) == CHOOSE f \in S : TRUE
FinalColumn(c) ==
  IF Native(c) # None THEN Native(c) ELSE IF MappedTo(c) = {} THEN None ELSE Only(MappedTo(c))
FinalExtension(k) == IF ExtFor(k) = {} THEN None ELSE Only(ExtFor(k))
FinalColumns == [c \in Column |-> FinalColumn(c)]
FinalExtensions == [k \in ExtKey |-> FinalExtension(k)]
FinalRow ==
  MakeRow(ClassifyEvent(alert.groups, alert.marks), FinalColumns, OfGraph, FinalExtensions)

EarlierInv ==
  /\ pc = "idle" => earlier = NoRow
  /\ earlier # NoRow /\ IsInjective(mapping) => earlier = FinalRow

IInv == TypeOK /\ CallOK /\ SectionsInv /\ OverlayInv /\ DecideInv /\ EarlierInv
-----------------------------------------------------------------------------
(* What depends on the alert and the mapping alone stays.                   *)

\* So do the words, the labels and the severities they lead to.
LEMMA AlertStays ==
  ASSUME alert' = alert
  PROVE  /\ \A f : (Has(f)' <=> Has(f)) /\ Word(f)' = Word(f)
         /\ \A c, f : Usable(c, f)' <=> Usable(c, f)
         /\ OfGraph' = OfGraph /\ \A n \in 1 .. 13 : SeverityAt(n)' = SeverityAt(n)
         /\ HasCve' <=> HasCve
<1>1. \A f : (Has(f)' <=> Has(f)) /\ Word(f)' = Word(f)
  BY DEF Has, Word
<1>2. \A c, f : Usable(c, f)' <=> Usable(c, f)
  BY <1>1 DEF Usable
<1>3. Source' = Source /\ \A f, severityOf : Known(f, severityOf)' <=> Known(f, severityOf)
  BY <1>1 DEF Source, Known
<1>4. OfAws' = OfAws
  BY <1>1, <1>3 DEF OfAws
<1>5. OfGcp' = OfGcp
  BY <1>1, <1>3, <1>4 DEF OfGcp
<1>6. DockerLevel' = DockerLevel
  BY <1>1 DEF DockerLevel
<1>7. Raised' = Raised
  BY <1>1, <1>5, <1>6 DEF Raised
<1>8. OfGraph' = OfGraph
  BY <1>1, <1>3, <1>7 DEF OfGraph
<1>9. \A n \in 1 .. 13 : SeverityAt(n)' = SeverityAt(n)
  BY <1>4, <1>5, <1>7, <1>8 DEF SeverityAt
<1> QED
  BY <1>1, <1>2, <1>8, <1>9 DEF HasCve

\* So does what the first section to find anything finds.
LEMMA NativeStays ==
  ASSUME alert' = alert, NEW c
  PROVE  Native(c)' = Native(c)
<1>1. Len(Sections) = 12 /\ Len(Sections)' = 12
  BY DEF Sections
<1>2. \A k \in Step : Finds(k, c)' = Finds(k, c)
  BY FindsStay
<1> DEFINE finding == {k \in Step : Finds(k, c) # None}
<1>3. finding' = finding
  BY <1>2
<1>4. Native(c) = IF finding = {} THEN None ELSE Finds(Min(finding), c)
  BY <1>1 DEF Native, Finds, Step
<1>5. ASSUME NEW S, S = finding'
      PROVE  Native(c)' = IF S = {} THEN None ELSE Finds(Min(S), c)'
  BY <1>1, <1>5 DEF Native, Finds, Step
<1>6. finding # {} => Min(finding) \in Step
  BY MinIsLeast DEF Step
<1> HIDE DEF finding
<1> QED
  BY <1>2, <1>3, <1>4, <1>5, <1>6

\* The row is made of the alert, the columns, the severity and the extensions.
LEMMA MakeRowStays ==
  ASSUME alert' = alert, NEW rule, NEW columns, NEW severity, NEW extensions
  PROVE  MakeRow(rule, columns, severity, extensions)' =
           MakeRow(rule, columns, severity, extensions)
<1>1. \A s : AnyGroup(s)' <=> AnyGroup(s)
  BY DEF AnyGroup
<1>2. \A class : BackfilledStatus(class, columns)' = BackfilledStatus(class, columns)
  BY <1>1 DEF BackfilledStatus
<1>3. \A class : FinalSeverity(class, severity)' = FinalSeverity(class, severity)
  BY AlertStays DEF FinalSeverity, Labelled
<1>4. \A f : Says(f)' = Says(f)
  BY AlertStays DEF Says
<1>5. \A class : Activity(class, columns)' = Activity(class, columns)
  <2>1. \A arms : ByGroup(arms)' = ByGroup(arms)
    BY <1>1 DEF ByGroup
  <2>2. \A w : DnsActivity(w)' = DnsActivity(w)
    BY <1>1 DEF DnsActivity
  <2> QED
    BY <2>1, <2>2, AlertStays DEF Activity
<1> QED
  BY <1>2, <1>3, <1>4, <1>5 DEF MakeRow

\* What the mappings may fill depends on the alert and the mapping alone.
LEMMA CallStays ==
  ASSUME alert' = alert, mapping' = mapping
  PROVE  /\ \A c : MappedTo(c)' = MappedTo(c)
         /\ \A k : ExtFor(k)' = ExtFor(k)
         /\ FinalRow' = FinalRow
<1>1. \A c : MappedTo(c)' = MappedTo(c)
  BY AlertStays DEF MappedTo
<1>2. \A k : ExtFor(k)' = ExtFor(k)
  BY AlertStays DEF ExtFor
<1>3. FinalColumns' = FinalColumns
  <2>1. \A c : FinalColumn(c)' = FinalColumn(c)
    BY <1>1, NativeStays DEF FinalColumn
  <2> QED
    BY <2>1 DEF FinalColumns
<1>4. FinalExtensions' = FinalExtensions
  <2>1. \A k : FinalExtension(k)' = FinalExtension(k)
    BY <1>2 DEF FinalExtension
  <2> QED
    BY <2>1 DEF FinalExtensions
<1>5. \A rule, columns, severity, extensions :
        MakeRow(rule, columns, severity, extensions)' = MakeRow(rule, columns, severity, extensions)
  BY MakeRowStays
<1> QED
  BY <1>1, <1>2, <1>3, <1>4, <1>5, AlertStays DEF FinalRow

-----------------------------------------------------------------------------
(* Every step preserves it.                                                 *)

\* There are twelve sections, before and after a step.
LEMMA SectionCount == Len(Sections) = 12 /\ Len(Sections)' = 12
BY DEF Sections

\* The invariant holds before the first alert.
LEMMA InitInv == Init => IInv
<1> SUFFICES ASSUME Init PROVE IInv
  OBVIOUS
<1>1. CallOK /\ DOMAIN mapping = {} /\ DOMAIN alert.word = {}
  <2>1. ASSUME NEW empty, empty = <<>>
        PROVE  DOMAIN empty = {}
    BY <2>1
  <2>2. mapping = <<>> /\ alert.word = <<>>
    BY DEF Init, NoAlert
  <2>3. DOMAIN mapping = {} /\ DOMAIN alert.word = {}
    BY <2>1, <2>2
  <2> QED
    BY <2>3 DEF CallOK
<1>2. TypeOK
  BY <1>1, SectionCount DEF Init, TypeOK, NoColumn, NoExtension, Severity
<1>3. SectionsInv /\ OverlayInv /\ DecideInv /\ EarlierInv
  BY DEF Init, SectionsInv, OverlayInv, DecideInv, EarlierInv
<1> QED
  BY <1>1, <1>2, <1>3 DEF IInv

\* It holds where a call begins, whatever the alert.
LEMMA EnterInv ==
  ASSUME CallOK', Enter
  PROVE  TypeOK' /\ SectionsInv' /\ OverlayInv' /\ DecideInv'
<1>1. TypeOK'
  BY SectionCount DEF TypeOK, CallOK, Enter, NoColumn, NoExtension, Severity, MapSeverity
<1>2. SectionsInv'
  <2>1. sev' = SeverityAt(at)' /\ ext' = NoExtension
    BY DEF Enter, SeverityAt
  <2>2. ASSUME NEW c \in Column
        PROVE  SoFar(c, at - 1)'
    BY DEF Enter, SoFar, NoColumn
  <2> QED
    BY <2>1, <2>2 DEF SectionsInv
<1>3. OverlayInv' /\ DecideInv'
  BY DEF Enter, OverlayInv, DecideInv
<1> QED
  BY <1>1, <1>2, <1>3

\* A new alert.
LEMMA BeginInv ==
  ASSUME IInv, Begin
  PROVE  IInv'
<1>1. PICK c \in Call : alert' = c.alert /\ mapping' = c.mapping
  BY DEF Begin
<1>2. CallOK'
  <2>1. /\ DOMAIN c.alert.word \cap {None, Success, Failure} = {}
        /\ DOMAIN c.mapping \cap (Failing \cup {None, Success, Failure}) = {}
        /\ \A f \in DOMAIN c.mapping : c.mapping[f] \in Target \cup ExtKey
    BY CallAssumption, Zenon
  <2> QED
    BY <1>1, <2>1 DEF CallOK
<1>3. TypeOK' /\ SectionsInv' /\ OverlayInv' /\ DecideInv'
  BY <1>2, EnterInv DEF Begin
<1>4. EarlierInv'
  BY DEF Begin, Enter, IInv, EarlierInv
<1> QED
  BY <1>2, <1>3, <1>4 DEF IInv

\* Once the mappings are done, an injective one leaves no choice.
LEMMA RowIsFinal ==
  ASSUME TypeOK, OverlayInv, DecideInv, pc = "done", IsInjective(mapping)
  PROVE  row = FinalRow
<1>1. todo = {} /\ sev = OfGraph
  BY DEF DecideInv, OverlayInv
<1>2. col = FinalColumns
  <2>1. ASSUME NEW c \in Column
        PROVE  col[c] = FinalColumn(c)
    <3>1. CASE Native(c) # None
      BY <3>1 DEF OverlayInv, FinalColumn
    <3>2. CASE Native(c) = None /\ MappedTo(c) = {}
      BY <3>2 DEF OverlayInv, FinalColumn
    <3>3. CASE Native(c) = None /\ MappedTo(c) # {}
      <4>1. col[c] \in MappedTo(c)
        BY <1>1, <3>3 DEF OverlayInv
      <4>2. \A f, g \in MappedTo(c) : f = g
        BY DEF MappedTo, IsInjective
      <4>3. Only(MappedTo(c)) \in MappedTo(c)
        BY <3>3 DEF Only
      <4> QED
        BY <3>3, <4>1, <4>2, <4>3 DEF FinalColumn
    <3> QED
      BY <3>1, <3>2, <3>3
  <2>2. col = [c \in Column |-> col[c]]
    BY DEF TypeOK
  <2> QED
    BY <2>1, <2>2 DEF FinalColumns
<1>3. ext = FinalExtensions
  <2>1. ASSUME NEW k \in ExtKey
        PROVE  ext[k] = FinalExtension(k)
    <3>1. CASE ExtFor(k) = {}
      BY <3>1 DEF OverlayInv, FinalExtension
    <3>2. CASE ExtFor(k) # {}
      <4>1. ext[k] \in ExtFor(k)
        BY <1>1, <3>2 DEF OverlayInv
      <4>2. \A f, g \in ExtFor(k) : f = g
        BY DEF ExtFor, IsInjective
      <4>3. Only(ExtFor(k)) \in ExtFor(k)
        BY <3>2 DEF Only
      <4> QED
        BY <3>2, <4>1, <4>2, <4>3 DEF FinalExtension
    <3> QED
      BY <3>1, <3>2
  <2>2. ext = [k \in ExtKey |-> ext[k]]
    BY DEF TypeOK
  <2> QED
    BY <2>1, <2>2 DEF FinalExtensions
<1> QED
  BY <1>1, <1>2, <1>3 DEF DecideInv, FinalRow

\* The same alert once more: the row that is kept is the one the invariant names.
LEMMA ReplayInv ==
  ASSUME IInv, Replay
  PROVE  IInv'
<1>1. CallOK'
  BY DEF IInv, CallOK, Replay
<1>2. TypeOK' /\ SectionsInv' /\ OverlayInv' /\ DecideInv'
  BY <1>1, EnterInv DEF Replay
<1>3. ASSUME IsInjective(mapping)
      PROVE  row = FinalRow
  BY <1>3, RowIsFinal DEF IInv, Replay
<1>4. EarlierInv'
  BY <1>3, CallStays DEF Replay, Enter, EarlierInv
<1> QED
  BY <1>1, <1>2, <1>4 DEF IInv

\* What a label or a level stands for is a severity.
LEMMA LabelsAreSeverities ==
  OfAws \in Severity /\ OfGcp \in Severity /\ DockerLevel \in Severity
<1>1. OfAws \in Severity
  <2>1. \A w \in DOMAIN ScannerLabel : ScannerLabel[w] \in Severity
    BY DEF ScannerLabel, Severity
  <2>2. \A w \in DOMAIN HubLabel : HubLabel[w] \in Severity
    BY DEF HubLabel, ScannerLabel, Severity, Restrict
  <2>3. \A score : GuardDutyBand(score) \in Severity
    BY DEF GuardDutyBand, Severity
  <2>4. MapSeverity(alert.level) \in Severity
    BY DEF MapSeverity, Severity
  <2> QED
    BY <2>1, <2>2, <2>3, <2>4 DEF OfAws, Known
<1>2. \A w \in DOMAIN GcpLabel : GcpLabel[w] \in Severity
  BY DEF GcpLabel, Severity
<1>3. DockerLevel \in Severity
  BY DEF DockerLevel, Severity
<1> QED
  BY <1>1, <1>2, <1>3 DEF OfGcp, Known

\* What a section makes of the severity before it.
LEMMA SectionSeverities ==
  ASSUME NEW k \in Step, sev \in Severity, sev = SeverityAt(k)
  PROVE  Sections[k].severity = SeverityAt(k + 1) /\ Sections[k].severity \in Severity
<1>1. /\ Data.severity = sev /\ Vulnerability.severity = sev /\ Windows.severity = sev
      /\ Dpkg.severity = sev /\ TopLevel.severity = sev /\ Checks.severity = sev
      /\ Aws.severity = sev /\ Office365.severity = sev
      /\ Docker.severity = DockerSeverity
      /\ Gcp.severity = Labelled(<<"gcp", "severity">>, GcpLabel, sev)
      /\ MsGraph.severity = Labelled(<<"ms-graph", "severity">>, GraphLabel, sev)
  BY SectionParts DEF Data, Vulnerability, Windows, Dpkg, TopLevel, Checks, Aws, Office365, Docker,
     Gcp, MsGraph
<1>2. CASE k \in 1 .. 7 \cup {9}
  <2>1. Sections[k].severity = sev
    BY <1>1, <1>2, SectionsAre
  <2>2. SeverityAt(k + 1) = SeverityAt(k)
    BY <1>2 DEF SeverityAt
  <2> QED
    BY <2>1, <2>2
<1>3. CASE k = 8
  <2>1. sev = MapSeverity(alert.level)
    BY <1>3 DEF SeverityAt
  <2>2. AwsSource.severity = OfAws
    <3>1. CASE Source = "guardduty"
      <4>1. AwsSource.severity = GuardDutySeverity
        BY <3>1, SectionParts DEF AwsSource
      <4>2. GuardDutySeverity = OfAws
        BY <2>1, <3>1 DEF OfAws, GuardDutySeverity
      <4> QED
        BY <4>1, <4>2
    <3>2. CASE Source \in {"inspector", "macie"}
      BY <2>1, <3>2, SectionParts DEF AwsSource, OfAws, Labelled, Known
    <3>3. CASE Source = "securityhub"
      BY <2>1, <3>3, SectionParts DEF AwsSource, OfAws, Labelled, Known
    <3>4. CASE Source \in {"waf", "alb", "config", "s3_server_access"}
      BY <2>1, <3>4, SectionParts DEF AwsSource, OfAws
    <3>5. CASE Source \notin {"guardduty", "inspector", "macie", "waf", "alb", "config",
                              "securityhub", "s3_server_access"}
      BY <2>1, <3>5, SectionParts DEF AwsSource, OfAws
    <3> QED
      BY <3>1, <3>2, <3>3, <3>4, <3>5
  <2>3. OfAws \in Severity
    BY LabelsAreSeverities
  <2> QED
    BY <1>3, <2>2, <2>3, SectionsAre DEF SeverityAt
<1>4. CASE k = 10
  <2>1. sev = OfAws
    BY <1>4 DEF SeverityAt
  <2>2. Gcp.severity = OfGcp
    BY <1>1, <2>1 DEF Labelled, OfGcp, Known
  <2>3. \A w \in DOMAIN GcpLabel : GcpLabel[w] \in Severity
    BY DEF GcpLabel, Severity
  <2> QED
    BY <1>4, <2>1, <2>2, <2>3, SectionsAre DEF SeverityAt, OfGcp, Known
<1>5. CASE k = 11
  <2>1. sev = OfGcp
    BY <1>5 DEF SeverityAt
  <2>2. DockerLevel \in Severity /\ DockerLevel \in Nat /\ sev \in Nat
    BY DEF DockerLevel, Severity
  <2>3. DockerSeverity = Raised
    BY <2>1, <2>2, MaxOfTwo DEF DockerSeverity, Raised
  <2>4. DockerSeverity \in Severity
    BY <2>2 DEF DockerSeverity
  <2> QED
    BY <1>1, <1>5, <2>3, <2>4, SectionsAre DEF SeverityAt
<1>6. CASE k = 12
  <2>1. sev = Raised
    BY <1>6 DEF SeverityAt
  <2>2. MsGraph.severity = OfGraph
    BY <1>1, <2>1 DEF Labelled, OfGraph, Known
  <2>3. \A w \in DOMAIN GraphLabel : GraphLabel[w] \in Severity
    BY DEF GraphLabel, ScannerLabel, Severity, Restrict
  <2> QED
    BY <1>6, <2>1, <2>2, <2>3, SectionsAre DEF SeverityAt, OfGraph, Known
<1> QED
  BY <1>2, <1>3, <1>4, <1>5, <1>6 DEF Step

\* One section: it fills what is empty and judges the severity.
LEMMA ExtractSectionInv ==
  ASSUME IInv, ExtractSection
  PROVE  IInv'
<1>0. /\ pc = "sections" /\ at \in Step /\ at' = at + 1
      /\ col' = FilledFrom(Sections[at]) /\ sev' = Sections[at].severity
      /\ UNCHANGED <<pc, alert, mapping, todo, ext, row, earlier>>
  BY SectionCount DEF ExtractSection, IInv, TypeOK, Step
<1>1. CallOK'
  BY <1>0 DEF IInv, CallOK
<1>2. \A c \in Column : col'[c] = IF col[c] # None THEN col[c] ELSE Finds(at, c)
  BY <1>0 DEF FilledFrom, Finds
<1>3. sev' = SeverityAt(at + 1) /\ sev' \in Severity
  BY <1>0, SectionSeverities DEF IInv, TypeOK, SectionsInv
<1>4. TypeOK'
  <2>1. col' \in [Column -> DOMAIN alert.word \cup {None}]
    <3>1. \A c \in Column : col'[c] \in DOMAIN alert.word \cup {None}
      BY <1>0, <1>2, FindsValue DEF IInv, TypeOK
    <3> QED
      BY <1>0, <3>1 DEF FilledFrom
  <2> QED
    BY <1>0, <1>3, <2>1, SectionCount DEF IInv, TypeOK, Step
<1>5. SectionsInv'
  <2>1. sev' = SeverityAt(at)'
    BY <1>0, <1>3, AlertStays DEF SeverityAt
  <2>2. ASSUME NEW c \in Column
        PROVE  SoFar(c, at - 1)'
    <3>1. \A k \in Step : Finds(k, c)' = Finds(k, c)
      BY <1>0, FindsStay
    <3>2. SoFar(c, at - 1)
      BY <1>0 DEF IInv, SectionsInv
    <3>3. CASE col[c] # None
      <4>1. PICK k \in 1 .. at - 1 : /\ col[c] = Finds(k, c) /\ Finds(k, c) # None
                                     /\ \A j \in 1 .. k - 1 : Finds(j, c) = None
        BY <3>2, <3>3 DEF SoFar
      <4>2. k \in 1 .. at' - 1 /\ k \in Step /\ 1 .. k - 1 \subseteq Step
        BY <1>0, <4>1 DEF Step
      <4> QED
        BY <1>2, <3>1, <3>3, <4>1, <4>2 DEF SoFar
    <3>4. CASE col[c] = None
      <4>1. \A k \in 1 .. at - 1 : Finds(k, c) = None
        BY <3>2, <3>4 DEF SoFar
      <4>2. col'[c] = Finds(at, c)
        BY <1>2, <3>4
      <4>3. 1 .. at' - 1 = (1 .. at - 1) \cup {at} /\ 1 .. at' - 1 \subseteq Step
        BY <1>0 DEF Step
      <4>4. CASE Finds(at, c) = None
        BY <3>1, <4>1, <4>2, <4>3, <4>4 DEF SoFar
      <4>5. CASE Finds(at, c) # None
        BY <3>1, <4>1, <4>2, <4>3, <4>5 DEF SoFar
      <4> QED
        BY <4>4, <4>5
    <3> QED
      BY <3>3, <3>4
  <2> QED
    BY <1>0, <2>1, <2>2 DEF IInv, SectionsInv
<1>6. OverlayInv' /\ DecideInv'
  BY <1>0 DEF OverlayInv, DecideInv
<1>7. EarlierInv'
  BY <1>0, CallStays DEF IInv, EarlierInv
<1> QED
  BY <1>1, <1>4, <1>5, <1>6, <1>7 DEF IInv

\* After the last section a column holds what the first section to find
\* anything found.
LEMMA NativeIs ==
  ASSUME NEW c, SoFar(c, 12)
  PROVE  col[c] = Native(c)
<1> DEFINE finding == {k \in Step : Finds(k, c) # None}
<1>1. Native(c) = IF finding = {} THEN None ELSE Finds(Min(finding), c)
  BY SectionCount DEF Native, Finds, Step
<1>2. CASE col[c] = None /\ \A k \in 1 .. 12 : Finds(k, c) = None
  <2>1. finding = {}
    BY <1>2 DEF Step
  <2> QED
    BY <1>1, <1>2, <2>1
<1>3. ASSUME NEW k \in 1 .. 12, col[c] = Finds(k, c), Finds(k, c) # None,
             \A j \in 1 .. k - 1 : Finds(j, c) = None
      PROVE  col[c] = Native(c)
  <2>1. k \in finding /\ finding \subseteq Nat
    BY <1>3 DEF Step
  <2>2. ASSUME NEW j \in finding
        PROVE  k <= j
    <3>1. j \in 1 .. 12 /\ j \notin 1 .. k - 1
      BY <1>3, <2>2 DEF Step
    <3> QED
      BY <3>1
  <2> HIDE DEF finding
  <2>3. Min(finding) = k
    BY <2>1, <2>2, MinIs
  <2> QED
    BY <1>1, <1>3, <2>1, <2>3
<1> QED
  BY <1>2, <1>3 DEF SoFar

\* The sections are done; no mapping has been looked at.
LEMMA StartOverlayInv ==
  ASSUME IInv, StartOverlay
  PROVE  IInv'
<1>0. /\ pc = "sections" /\ at = 13 /\ pc' = "overlay" /\ todo' = DOMAIN mapping
      /\ UNCHANGED <<alert, mapping, at, col, sev, ext, row, earlier>>
  BY SectionCount DEF StartOverlay, IInv, TypeOK
<1>1. CallOK' /\ TypeOK'
  BY <1>0, SectionCount DEF IInv, CallOK, TypeOK
<1>2. OverlayInv'
  <2>1. sev' = OfGraph'
    BY <1>0, AlertStays DEF IInv, SectionsInv, SeverityAt
  <2>2. ASSUME NEW c \in Column
        PROVE  /\ col'[c] = Native(c)' /\ MappedTo(c)' \subseteq todo'
               /\ Native(c)' = None => col'[c] = None
    <3>1. col[c] = Native(c)
      BY <1>0, NativeIs DEF IInv, SectionsInv
    <3>2. MappedTo(c) \subseteq DOMAIN mapping
      BY DEF MappedTo
    <3> QED
      BY <1>0, <3>1, <3>2, NativeStays, CallStays
  <2>3. ASSUME NEW k \in ExtKey
        PROVE  ext'[k] = None /\ ExtFor(k)' \subseteq todo'
    <3>1. ExtFor(k) \subseteq DOMAIN mapping
      BY DEF ExtFor
    <3> QED
      BY <1>0, <3>1, CallStays DEF IInv, SectionsInv, NoExtension
  <2> QED
    BY <2>1, <2>2, <2>3 DEF OverlayInv
<1>3. SectionsInv' /\ DecideInv'
  BY <1>0 DEF SectionsInv, DecideInv
<1>4. EarlierInv'
  BY <1>0, CallStays DEF IInv, EarlierInv
<1> QED
  BY <1>1, <1>2, <1>3, <1>4 DEF IInv

\* One mapping: it fills its column if that is empty, or sets its extension.
LEMMA MapFieldInv ==
  ASSUME IInv, MapField
  PROVE  IInv'
<1>0. pc = "overlay" /\ UNCHANGED <<pc, alert, mapping, at, sev, row, earlier>>
  BY DEF MapField
<1>1. PICK f \in todo :
        /\ todo' = todo \ {f}
        /\ IF ~ (Has(f) /\ InData(f)) THEN UNCHANGED <<col, ext>>
           ELSE IF mapping[f] \in Target
             THEN /\ col' = [col EXCEPT ![mapping[f]] = Overlaid(mapping[f], f)]
                  /\ UNCHANGED ext
             ELSE /\ ext' = [ext EXCEPT ![mapping[f]] = f]
                  /\ UNCHANGED col
  BY DEF MapField, LeftAfter
<1>2. f \in DOMAIN mapping /\ mapping[f] \in Target \cup ExtKey /\ f # None
  BY DEF IInv, TypeOK, CallOK
<1>3. \A c \in Column : /\ mapping[f] # c => col'[c] = col[c]
                        /\ col[c] # None => col'[c] = col[c]
                        /\ f \in MappedTo(c) /\ col[c] = None => col'[c] = f
                        /\ f \notin MappedTo(c) => col'[c] = col[c]
  <2>1. col \in [Column -> DOMAIN alert.word \cup {None}]
    BY DEF IInv, TypeOK
  <2> QED
    BY <1>1, <1>2, <2>1 DEF Overlaid, MappedTo, Usable
<1>4. \A k \in ExtKey : /\ f \in ExtFor(k) => ext'[k] = f
                        /\ f \notin ExtFor(k) => ext'[k] = ext[k]
  <2>1. ext \in [ExtKey -> DOMAIN mapping \cup {None}]
    BY DEF IInv, TypeOK
  <2> QED
    BY <1>1, <1>2, <2>1, ExtKeyAssumption DEF ExtFor
<1>5. TypeOK'
  <2>1. col' \in [Column -> DOMAIN alert.word \cup {None}]
    BY <1>1 DEF IInv, TypeOK, Overlaid, Usable, Has
  <2>2. ext' \in [ExtKey -> DOMAIN mapping \cup {None}]
    BY <1>1, <1>2 DEF IInv, TypeOK
  <2> QED
    BY <1>0, <1>1, <2>1, <2>2, SectionCount DEF IInv, TypeOK
<1>6. OverlayInv'
  <2>1. ASSUME NEW c \in Column
        PROVE  (IF Native(c) # None THEN col[c] = Native(c)
                ELSE \/ col[c] \in MappedTo(c)
                     \/ col[c] = None /\ MappedTo(c) \subseteq todo)'
    <3>1. Native(c)' = Native(c) /\ MappedTo(c)' = MappedTo(c)
      BY <1>0, NativeStays, CallStays
    <3>2. IF Native(c) # None THEN col[c] = Native(c)
          ELSE \/ col[c] \in MappedTo(c)
               \/ col[c] = None /\ MappedTo(c) \subseteq todo
      BY <1>0 DEF IInv, OverlayInv
    <3>3. None \notin MappedTo(c)
      BY DEF IInv, CallOK, MappedTo
    <3> QED
      BY <1>1, <1>3, <3>1, <3>2, <3>3
  <2>2. ASSUME NEW k \in ExtKey
        PROVE  (\/ ext[k] \in ExtFor(k)
                \/ ext[k] = None /\ ExtFor(k) \subseteq todo)'
    <3>1. ExtFor(k)' = ExtFor(k)
      BY <1>0, CallStays
    <3>2. \/ ext[k] \in ExtFor(k)
          \/ ext[k] = None /\ ExtFor(k) \subseteq todo
      BY <1>0 DEF IInv, OverlayInv
    <3>3. CASE f \in ExtFor(k)
      BY <1>4, <3>1, <3>3
    <3>4. CASE f \notin ExtFor(k)
      <4>1. ext'[k] = ext[k] /\ (ExtFor(k) \subseteq todo => ExtFor(k) \subseteq todo')
        BY <1>1, <1>4, <3>4
      <4> QED
        BY <3>1, <3>2, <4>1
    <3> QED
      BY <3>3, <3>4
  <2>3. sev' = OfGraph'
    BY <1>0, AlertStays DEF IInv, OverlayInv
  <2> QED
    BY <2>1, <2>2, <2>3 DEF OverlayInv
<1>7. CallOK' /\ SectionsInv' /\ DecideInv'
  BY <1>0 DEF IInv, CallOK, SectionsInv, DecideInv
<1>8. EarlierInv'
  BY <1>0, CallStays DEF IInv, EarlierInv
<1> QED
  BY <1>5, <1>6, <1>7, <1>8 DEF IInv

\* Where alert, mapping, columns and extensions stay, so does what was found.
LEMMA FoundStays ==
  ASSUME OverlayInv, pc \in {"overlay", "decide", "done"},
         UNCHANGED <<alert, mapping, col, sev, ext, todo>>
  PROVE  OverlayInv'
<1>1. /\ \A c : Native(c)' = Native(c) /\ MappedTo(c)' = MappedTo(c)
      /\ \A k : ExtFor(k)' = ExtFor(k)
      /\ OfGraph' = OfGraph
  BY NativeStays, CallStays, AlertStays
<1> QED
  BY <1>1 DEF OverlayInv

\* The mappings are done.
LEMMA EndOverlayInv ==
  ASSUME IInv, EndOverlay
  PROVE  IInv'
<1>0. /\ pc = "overlay" /\ todo = {} /\ pc' = "decide"
      /\ UNCHANGED <<alert, mapping, at, col, sev, todo, ext, row, earlier>>
  BY DEF EndOverlay
<1>1. TypeOK' /\ CallOK' /\ SectionsInv' /\ DecideInv'
  BY <1>0, SectionCount DEF IInv, TypeOK, CallOK, SectionsInv, DecideInv
<1>2. OverlayInv'
  BY <1>0, FoundStays DEF IInv
<1>3. EarlierInv'
  BY <1>0, CallStays DEF IInv, EarlierInv
<1> QED
  BY <1>1, <1>2, <1>3 DEF IInv

\* The row is made.
LEMMA DecideKeepsInv ==
  ASSUME IInv, Decide
  PROVE  IInv'
<1>0. /\ pc = "decide" /\ pc' = "done"
      /\ row' = MakeRow(ClassifyEvent(alert.groups, alert.marks), col, sev, ext)
      /\ UNCHANGED <<alert, mapping, at, col, sev, todo, ext, earlier>>
  BY DEF Decide
<1>1. TypeOK' /\ CallOK' /\ SectionsInv'
  BY <1>0, SectionCount DEF IInv, TypeOK, CallOK, SectionsInv
<1>2. DecideInv'
  <2>1. row' = MakeRow(ClassifyEvent(alert.groups, alert.marks), col, sev, ext)'
    BY <1>0, MakeRowStays
  <2> QED
    BY <1>0, <2>1 DEF IInv, DecideInv
<1>3. OverlayInv'
  BY <1>0, FoundStays DEF IInv
<1>4. EarlierInv'
  BY <1>0, CallStays DEF IInv, EarlierInv
<1> QED
  BY <1>1, <1>2, <1>3, <1>4 DEF IInv

\* The next line: nothing is left of this one.
LEMMA NextLineInv ==
  ASSUME IInv, NextLine
  PROVE  IInv'
<1>1. CallOK' /\ DOMAIN mapping' = {} /\ DOMAIN alert'.word = {}
  <2>1. ASSUME NEW empty, empty = <<>>
        PROVE  DOMAIN empty = {}
    BY <2>1
  <2>2. mapping' = <<>> /\ alert'.word = <<>>
    BY DEF NextLine, NoAlert
  <2>3. DOMAIN mapping' = {} /\ DOMAIN alert'.word = {}
    BY <2>1, <2>2
  <2> QED
    BY <2>3 DEF CallOK
<1>2. TypeOK'
  BY <1>1, SectionCount DEF NextLine, TypeOK, NoColumn, NoExtension, Severity
<1>3. SectionsInv' /\ OverlayInv' /\ DecideInv' /\ EarlierInv'
  BY DEF NextLine, SectionsInv, OverlayInv, DecideInv, EarlierInv
<1> QED
  BY <1>1, <1>2, <1>3 DEF IInv

\* A step that changes nothing.
LEMMA StutterInv ==
  ASSUME IInv, UNCHANGED vars
  PROVE  IInv'
<1>0. UNCHANGED <<pc, alert, mapping, at, col, sev, todo, ext, row, earlier>>
  BY DEF vars
<1>1. TypeOK' /\ CallOK'
  BY <1>0, SectionCount DEF IInv, TypeOK, CallOK
<1>2. SectionsInv'
  <2>1. CASE pc = "sections"
    <3>1. at \in 1 .. 13 /\ sev = SeverityAt(at) /\ ext = NoExtension
      BY <2>1, SectionCount DEF IInv, TypeOK, SectionsInv
    <3>2. sev' = SeverityAt(at)'
      BY <1>0, <3>1, AlertStays DEF SeverityAt
    <3>3. ASSUME NEW c \in Column
          PROVE  SoFar(c, at - 1)'
      <4>1. \A k \in Step : Finds(k, c)' = Finds(k, c)
        BY <1>0, FindsStay
      <4>2. SoFar(c, at - 1) /\ 1 .. at - 1 \subseteq Step
        BY <2>1, <3>1 DEF IInv, SectionsInv, Step
      <4>3. \A k \in 1 .. at - 1 : 1 .. k - 1 \subseteq Step
        BY <3>1 DEF Step
      <4> QED
        BY <1>0, <4>1, <4>2, <4>3 DEF SoFar
    <3> QED
      BY <1>0, <3>1, <3>2, <3>3 DEF SectionsInv
  <2> QED
    BY <1>0, <2>1 DEF SectionsInv
<1>3. OverlayInv'
  <2>1. CASE pc \in {"overlay", "decide", "done"}
    BY <1>0, <2>1, FoundStays DEF IInv
  <2> QED
    BY <1>0, <2>1 DEF OverlayInv
<1>4. DecideInv'
  <2>1. MakeRow(ClassifyEvent(alert.groups, alert.marks), col, sev, ext)' =
          MakeRow(ClassifyEvent(alert.groups, alert.marks), col, sev, ext)
    BY <1>0, MakeRowStays
  <2> QED
    BY <1>0, <2>1 DEF IInv, DecideInv
<1>5. EarlierInv'
  BY <1>0, CallStays DEF IInv, EarlierInv
<1> QED
  BY <1>1, <1>2, <1>3, <1>4, <1>5 DEF IInv

\* The invariant holds in every state of every call.
THEOREM InvariantHolds == Spec => []IInv
<1>1. IInv /\ [Next]_vars => IInv'
  BY BeginInv, ExtractSectionInv, StartOverlayInv, MapFieldInv, EndOverlayInv, DecideKeepsInv,
     ReplayInv, NextLineInv, StutterInv DEF Next
<1> QED
  BY InitInv, <1>1, PTL DEF Spec

-----------------------------------------------------------------------------
(* What the invariant says of the rows.                                     *)

\* The variables keep their types: a column holds a field that the alert has.
THEOREM TransformTyped == Spec => []TypeOK
<1>1. IInv => TypeOK
  BY DEF IInv
<1> QED
  BY <1>1, InvariantHolds, PTL

\* No alert makes a row that check_and_warn would complain of.
THEOREM EveryRowIsValid == Spec => []RowsAreValid
<1>1. IInv => RowsAreValid
  BY MadeRowsAreValid DEF IInv, TypeOK, DecideInv, RowsAreValid
<1> QED
  BY <1>1, InvariantHolds, PTL

\* The sections have precedence over the mappings, an earlier section over a
\* later one, in whatever order the mappings are visited.
THEOREM ColumnsFollowPrecedence == Spec => []ColumnsByPrecedence
<1>1. IInv => ColumnsByPrecedence
  <2> SUFFICES ASSUME IInv, pc = "decide", NEW c \in Column
               PROVE  IF Native(c) # None \/ MappedTo(c) = {} THEN col[c] = Native(c)
                      ELSE col[c] \in MappedTo(c)
    BY DEF ColumnsByPrecedence
  <2>1. todo = {}
    BY DEF IInv, DecideInv
  <2>2. IF Native(c) # None THEN col[c] = Native(c)
        ELSE \/ col[c] \in MappedTo(c)
             \/ col[c] = None /\ MappedTo(c) \subseteq todo
    BY DEF IInv, OverlayInv
  <2> QED
    BY <2>1, <2>2
<1> QED
  BY <1>1, InvariantHolds, PTL

\* The label that counts first decides the severity.  The inductive invariant
\* says what the code makes of docker.level, the property only where that is
\* what the documentation says.
THEOREM SeverityFollowsPrecedence == Spec => []SeverityByPrecedence
<1>1. IInv => SeverityByPrecedence
  <2> SUFFICES ASSUME IInv, pc = "done"
               PROVE  SeverityByPrecedence
    BY DEF SeverityByPrecedence
  <2> DEFINE docker == <<"docker", "level">>
  <2>1. row.severity = FinalSeverity(row.class, OfGraph)
    BY DEF IInv, DecideInv, OverlayInv, MakeRow
  <2>2. row.severity =
          IF row.class = 2002 /\ HasCve /\ Known(<<"vulnerability", "severity">>, ScannerLabel)
            THEN ScannerLabel[Word(<<"vulnerability", "severity">>)] ELSE OfGraph
    BY <2>1 DEF FinalSeverity, Labelled, Known
  <2>3. OfGcp \in Severity /\ DockerLevel \in Severity
    BY LabelsAreSeverities
  <2>4. ASSUME Has(docker)
        PROVE  /\ DockerLevel >= OfGcp => Raised = DockerLevel
               /\ Word(docker) \notin DockerWord => Raised = Max({OfGcp, 1})
    <3>1. Raised = Max({OfGcp, DockerLevel})
      BY <2>4 DEF Raised
    <3>2. DockerLevel >= OfGcp => Raised = DockerLevel
      BY <2>3, <3>1, MaxOfTwo DEF Severity
    <3>3. Word(docker) \notin DockerWord => DockerLevel = 1
      BY DEF DockerLevel, DockerWord
    <3> QED
      BY <3>1, <3>2, <3>3
  <2>5. ~ Has(docker) => Raised = OfGcp
    BY DEF Raised
  <2> QED
    BY <2>2, <2>4, <2>5 DEF SeverityByPrecedence, OfGraph
<1> QED
  BY <1>1, InvariantHolds, PTL

\* A line that is transformed again gives the row it gave before.
THEOREM ReplaysGiveSameRow == Spec => []ReplayGivesSameRow
<1>1. IInv => ReplayGivesSameRow
  BY RowIsFinal DEF IInv, EarlierInv, ReplayGivesSameRow
<1> QED
  BY <1>1, InvariantHolds, PTL

\* No field that is taken for a failure fills the column of the action.
LEMMA ActionIsItsWord ==
  ASSUME IInv, pc = "done"
  PROVE  Says(col["action"]) = Word(col["action"])
<1>1. "action" \in Column
  BY DEF Column, Target, TextTarget
<1>2. col["action"] \in DOMAIN alert.word \cup {None}
  BY <1>1 DEF IInv, TypeOK
<1>3. None # Success /\ None # Failure /\ None \notin Failing
  BY DEF None, Success, Failure, Failing
<1>4. col["action"] \notin {Success, Failure}
  BY <1>2, <1>3 DEF IInv, CallOK
<1>5. col["action"] \notin Failing
  <2>1. Native("action") \notin Failing
    <3> DEFINE finding == {k \in Step : Finds(k, "action") # None}
    <3>1. Native("action") = IF finding = {} THEN None ELSE Finds(Min(finding), "action")
      BY SectionCount DEF Native, Finds, Step
    <3>2. finding # {} => Min(finding) \in Step
      BY MinIsLeast DEF Step
    <3> HIDE DEF finding
    <3> QED
      BY <1>3, <3>1, <3>2, FindsValue
  <2>2. MappedTo("action") \cap Failing = {}
    BY DEF IInv, CallOK, MappedTo
  <2> QED
    BY <1>1, <1>3, <2>1, <2>2 DEF IInv, OverlayInv
<1> QED
  BY <1>4, <1>5 DEF Says

\* A status that no field and no mapping gives is empty in the end.
LEMMA UntoldStatus ==
  ASSUME IInv, pc = "done", ~ Told({})
  PROVE  col["status"] = None
<1>1. Native("status") = None /\ MappedTo("status") = {} /\ todo = {}
  BY DEF Told, IInv, DecideInv
<1>2. "status" \in Column
  BY DEF Column, Target, TextTarget
<1> QED
  BY <1>1, <1>2 DEF IInv, OverlayInv

\* Activity and outcome tell of each other what the tables of their words say.
LEMMA NetworkWords ==
  ASSUME NEW w
  PROVE  /\ NetworkActivity(w) \in {4, 5} => OutcomeId(w) # 1
         /\ NetworkActivity(w) = 1 => OutcomeId(w) # 2
<1>1. /\ NetworkActivity(w) \in {4, 5} => w \in RefuseWord \cup {"fail", "failed", "error"}
      /\ NetworkActivity(w) = 1 => w \in OpenWord
  BY DEF NetworkActivity
<1>2. /\ OutcomeId(w) = 1 => w \in {"success", "allow", "allowed", "pass", "passed", "accepted"}
      /\ OutcomeId(w) = 2 => w \in {"failure", "fail", "failed", "deny", "denied", "block",
                                    "blocked", "drop", "dropped", "reject", "rejected"}
  BY DEF OutcomeId
<1>3. OutcomeId(w) = 1 => w \notin RefuseWord \cup {"fail", "failed", "error"}
  BY <1>2 DEF RefuseWord
<1>4. OutcomeId(w) = 2 => w \notin OpenWord
  BY <1>2 DEF OpenWord
<1> QED
  BY <1>1, <1>3, <1>4

\* The status_id of the words the code makes, and of no word.
LEMMA MadeOutcomes ==
  ASSUME IInv
  PROVE  \A class \in {3002, 4001} :
           /\ StatusId(class, Says(Success)) = 1 /\ StatusId(class, Says(Failure)) = 2
           /\ StatusId(class, Says(None)) = 0
<1>1. Says(Failure) = "failure" /\ Says(Success) = "success" /\ Says(None) = NoWord
  BY DEF Says, Failure, Success, None, Failing, Word, Has, IInv, CallOK
<1>2. OutcomeId("failure") = 2 /\ OutcomeId("success") = 1 /\ OutcomeId(NoWord) = 0
  BY DEF OutcomeId, NoWord
<1>3. NoWord # "error"
  BY DEF NoWord
<1> QED
  BY <1>1, <1>2, <1>3 DEF StatusId

\* Whatever alert, mapping and groups: a row whose activity and outcome
\* contradict each other is one of an alert that says so, and so is every
\* success and failure of an authentication; what only the groups say is kept.
THEOREM OutcomesAreTold == Spec => []OutcomesAgree
<1>1. IInv => OutcomesAgree
  <2> SUFFICES ASSUME IInv, pc = "done"
               PROVE  OutcomesAgree
    BY DEF OutcomesAgree
  <2> DEFINE rule == ClassifyEvent(alert.groups, alert.marks)
             status == BackfilledStatus(rule.class, col)
  <2>1. /\ row.class = rule.class /\ row.activity = Activity(rule.class, col)
        /\ row.status_id = StatusId(rule.class, Says(status))
    BY DEF IInv, DecideInv, MakeRow
  <2>2. ASSUME ~ Told({})
        PROVE  status = IF AnyGroup(SuccessGroup) THEN Success
                        ELSE IF AnyGroup(FailureGroup) THEN Failure
                        ELSE IF rule.class = 4001 THEN col["action"] ELSE None
    BY <2>2, UntoldStatus DEF BackfilledStatus
  <2> HIDE DEF rule, status
  <2>3. \A groups : Told(groups) <=> Told({}) \/ AnyGroup(groups)
    BY DEF Told, AnyGroup
  <2>4. ASSUME row.class = 4001
        PROVE  /\ row.activity \in {4, 5} /\ row.status_id = 1 => Told(SuccessGroup)
               /\ row.activity = 1 /\ row.status_id = 2 => Told(FailureGroup)
    <3>1. row.activity = NetworkActivity(Word(col["action"]))
      BY <2>1, <2>4 DEF Activity
    <3>2. CASE Told({})
      BY <2>3, <3>2
    <3>3. CASE ~ Told({}) /\ AnyGroup(SuccessGroup)
      BY <2>1, <2>2, <2>3, <2>4, <3>3, MadeOutcomes
    <3>4. CASE ~ Told({}) /\ ~ AnyGroup(SuccessGroup) /\ AnyGroup(FailureGroup)
      BY <2>1, <2>2, <2>3, <2>4, <3>4, MadeOutcomes
    <3>5. CASE ~ Told({}) /\ ~ AnyGroup(SuccessGroup) /\ ~ AnyGroup(FailureGroup)
      <4>1. row.status_id = StatusId(4001, Word(col["action"]))
        BY <2>1, <2>2, <2>4, <3>5, ActionIsItsWord
      <4>2. row.status_id = OutcomeId(Word(col["action"]))
        BY <4>1 DEF StatusId
      <4> QED
        BY <3>1, <4>2, NetworkWords
    <3> QED
      BY <3>2, <3>3, <3>4, <3>5
  <2>5. ASSUME row.class = 3002
        PROVE  /\ row.status_id = 1 => Told(SuccessGroup)
               /\ row.status_id = 2 => Told(FailureGroup)
               /\ AnyGroup(SuccessGroup) /\ ~ Told({}) => row.status_id = 1
               /\ AnyGroup(FailureGroup) /\ ~ Told(SuccessGroup) => row.status_id = 2
    <3>1. CASE Told({})
      BY <2>3, <3>1
    <3>2. CASE ~ Told({})
      BY <2>1, <2>2, <2>3, <2>5, <3>2, MadeOutcomes
    <3> QED
      BY <3>1, <3>2
  <2> QED
    BY <2>4, <2>5 DEF OutcomesAgree
<1> QED
  BY <1>1, InvariantHolds, PTL
=============================================================================
