----------------------------- MODULE RuleEngine -----------------------------
(***************************************************************************)
(* The rules, sentinel/engine/rule_engine.py: the directory is read once,  *)
(* file by file, and each event is then matched with every rule.           *)
(*                                                                         *)
(* Text is a sequence of letters in one case.  The condition of a rule is  *)
(* the sequence of its words and of the signs between them, some of which  *)
(* the tokenizer passes over.                                              *)
(***************************************************************************)
EXTENDS Naturals, Sequences, FiniteSets, SequencesExt

CONSTANTS RuleFolders,     \* the directories that are looked at
          RuleEvents,
          Junk,            \* signs that are no tokens
          NoText,          \* None
          SchemaFields     \* the fields of schema.Event, other than extra

ASSUME RuleAssumption == "image_path" \in SchemaFields /\ "image" \notin SchemaFields

IsSequence(s) == s \in Seq(Range(s))

\* What is read: a directory is a sequence of files, and so on.
ASSUME FoldersAssumption ==
  \A folder \in RuleFolders :
    /\ IsSequence(folder)
    /\ \A f \in Range(folder) :
         /\ IsSequence(f.docs)
         /\ \A d \in Range(f.docs) : d.form = "rule" =>
              /\ IsSequence(d.condition)
              /\ \A name \in DOMAIN d.selections : IsSequence(d.selections[name].criteria)

VARIABLES engine,          \* "loading", "ready", "failed"
          unread, rules,
          matching, signals   \* the last event and its signals

ruleVars == <<engine, unread, rules, matching, signals>>

NoEvent == [type |-> "none"]

RulesInit ==
  /\ engine = "loading" /\ unread \in RuleFolders /\ rules = <<>>
  /\ matching = NoEvent /\ signals = {}

-----------------------------------------------------------------------------
(* from_dir and load_rule_file.  A document is a rule, a rule that has no  *)
(* condition, or something else.                                           *)

FileOutcome(f) ==
  LET bad == {i \in DOMAIN f.docs : f.docs[i].form # "rule"}
      first == CHOOSE i \in bad : \A k \in bad : i <= k
  IN  IF ~f.yaml THEN "raises"
      ELSE IF bad = {} THEN "rules"
      ELSE IF f.docs[first].form = "incomplete" THEN "skipped" ELSE "raises"

\* A file with a rule that has no condition is passed over, with its other rules; any
\* other error in a file ends the loading, and the consumer does not start.
ReadRuleFile ==
  /\ engine = "loading" /\ unread # <<>> /\ unread' = Tail(unread)
  /\ LET f == Head(unread) IN
       /\ rules' = IF FileOutcome(f) = "rules" THEN rules \o f.docs ELSE rules
       /\ engine' = IF FileOutcome(f) = "raises" THEN "failed" ELSE "loading"
  /\ UNCHANGED <<matching, signals>>

RulesLoaded ==
  /\ engine = "loading" /\ unread = <<>> /\ engine' = "ready"
  /\ UNCHANGED <<unread, rules, matching, signals>>

-----------------------------------------------------------------------------
(* What a selection says of an event: "yes", "no" or "raises".             *)

\* A field of the schema comes first, also when it is None.
LookupField(e, field) ==
  IF field \in SchemaFields THEN e.top[field]
  ELSE IF field = "image" THEN e.top["image_path"]
  ELSE IF field \in DOMAIN e.extra THEN e.extra[field]
  ELSE NoText

\* a contains b.
Holds(text, part) == \E i \in 0..(Len(text) - Len(part)) :
                       SubSeq(text, i + 1, i + Len(part)) = part

Modifiers == {"equals", "endswith", "startswith", "contains"}

MatchValue(text, expected, modifier) ==
  CASE modifier = "equals"     -> text = expected
    [] modifier = "endswith"   -> IsSuffix(expected, text)
    [] modifier = "startswith" -> IsPrefix(expected, text)
    [] modifier = "contains"   -> Holds(text, expected)

CriterionOutcome(c, e) ==
  LET text == LookupField(e, c.field)
  IN  IF text = NoText \/ c.values = <<>> THEN "no"
      ELSE IF c.modifier \notin Modifiers THEN "raises"
      ELSE IF \E i \in DOMAIN c.values : MatchValue(text, c.values[i], c.modifier) THEN "yes"
      ELSE "no"

\* The criteria are looked at in order, as far as the first that does not hold.
SelectionOutcome(sel, e) ==
  LET out == [i \in DOMAIN sel.criteria |-> CriterionOutcome(sel.criteria[i], e)]
      bad == {i \in DOMAIN out : out[i] # "yes"}
  IN  IF sel.hook THEN "no"
      ELSE IF bad = {} THEN "yes"
      ELSE out[CHOOSE i \in bad : \A k \in bad : i <= k]

-----------------------------------------------------------------------------
(* _Condition: a parser by recursive descent that evaluates as it goes.  A *)
(* result is the value, or "raises", and the place after what was read.    *)
(* The parser of a text is the table p of what it does from each place on: *)
(* <<"not", i, _>> is _parse_not there, and <<"and", i, v>>, <<"or", i, v>> *)
(* the loops of _parse_and and _parse_or that have come to i with v.       *)

Tokens(words) ==
  LET found[n \in 0..Len(words)] ==
        IF n = 0 THEN <<>>
        ELSE IF words[n] \in Junk THEN found[n - 1] ELSE Append(found[n - 1], words[n])
  IN  IF words = <<>> THEN <<"selection">> ELSE found[Len(words)]

Reads(t, i, word) == i \in DOMAIN t /\ t[i] = word

Truth == {"yes", "no"}
Negated(v) == IF v = "yes" THEN "no" ELSE "yes"
Both(v, w) == IF v = "yes" THEN w ELSE "no"
Either(v, w) == IF v = "yes" THEN "yes" ELSE w

Raised == [val |-> "raises", at |-> 0]
Parsed(val, at) == [val |-> val, at |-> at]
Failing(r) == r.val = "raises"

ParseNot(p, i) == p[<<"not", i, "no">>]

ParseAnd(p, i) ==
  LET r == ParseNot(p, i) IN IF Failing(r) THEN Raised ELSE p[<<"and", r.at, r.val>>]

ParseOr(p, i) ==
  LET r == ParseAnd(p, i) IN IF Failing(r) THEN Raised ELSE p[<<"or", r.at, r.val>>]

AtomAt(p, t, i, said) ==
  LET r == ParseOr(p, i + 1)
  IN  IF Reads(t, i, "(")
      THEN IF ~Failing(r) /\ Reads(t, r.at, ")") THEN Parsed(r.val, r.at + 1) ELSE Raised
      ELSE IF i \in DOMAIN t /\ t[i] \in DOMAIN said /\ said[t[i]] # "raises"
      THEN Parsed(said[t[i]], i + 1)
      ELSE Raised

\* mutant: a negation takes all that follows
NotAtWide(p, t, i, said) ==
  LET r == ParseOr(p, i + 1)
  IN  IF ~Reads(t, i, "not") THEN AtomAt(p, t, i, said)
      ELSE IF Failing(r) THEN Raised ELSE Parsed(Negated(r.val), r.at)

NotAt(p, t, i, said) ==
  LET r == ParseNot(p, i + 1)
  IN  IF ~Reads(t, i, "not") THEN AtomAt(p, t, i, said)
      ELSE IF Failing(r) THEN Raised ELSE Parsed(Negated(r.val), r.at)

AndFrom(p, t, i, v) ==
  LET r == ParseNot(p, i + 1)
  IN  IF ~Reads(t, i, "and") THEN Parsed(v, i)
      ELSE IF Failing(r) THEN Raised ELSE p[<<"and", r.at, Both(v, r.val)>>]

OrFrom(p, t, i, v) ==
  LET r == ParseAnd(p, i + 1)
  IN  IF ~Reads(t, i, "or") THEN Parsed(v, i)
      ELSE IF Failing(r) THEN Raised ELSE p[<<"or", r.at, Either(v, r.val)>>]

Parser(t, said) ==
  LET p[c \in {"not", "and", "or"} \X (1..(Len(t) + 1)) \X Truth] ==
        CASE c[1] = "not" -> NotAt(p, t, c[2], said)
          [] c[1] = "and" -> AndFrom(p, t, c[2], c[3])
          [] c[1] = "or"  -> OrFrom(p, t, c[2], c[3])
  IN  p

\* eval: nothing may follow the condition.
ConditionHolds(words, said) ==
  LET t == Tokens(words)
  IN  ParseOr(Parser(t, said), 1) = Parsed("yes", Len(t) + 1)

-----------------------------------------------------------------------------
(* match.                                                                  *)

Said(rule, e) ==
  [name \in DOMAIN rule.selections |-> SelectionOutcome(rule.selections[name], e)]

AppliesTo(rule, e) == rule.category = "any" \/ rule.category = e.type

SignalKind(level) ==
  CASE level = "high"   -> "rule_match_high"
    [] level = "medium" -> "rule_match_medium"
    [] OTHER            -> "rule_match_low"

SubjectOf(e) ==
  IF e.top["pid"] # NoText THEN "pid"
  ELSE IF e.top["image_path"] \notin {NoText, <<>>} THEN "path"
  ELSE "unknown"

\* A rule that cannot be evaluated is passed over, each time.
MatchRules(e) ==
  /\ engine = "ready"
  /\ matching' = e
  /\ signals' = {[rule |-> i, kind |-> SignalKind(rules[i].level), subject |-> SubjectOf(e)] :
                   i \in {k \in DOMAIN rules :
                            /\ AppliesTo(rules[k], e)
                            /\ ConditionHolds(rules[k].condition, Said(rules[k], e))}}
  /\ UNCHANGED <<engine, unread, rules>>

RulesNext ==
  \/ ReadRuleFile \/ RulesLoaded
  \/ \E e \in RuleEvents : MatchRules(e)

RulesSpec == RulesInit /\ [][RulesNext]_ruleVars

-----------------------------------------------------------------------------
(* Properties.                                                             *)

RulesOK ==
  /\ engine \in {"loading", "ready", "failed"}
  /\ \A i \in DOMAIN rules : rules[i].form = "rule"
  /\ signals \subseteq [rule : DOMAIN rules, subject : {"pid", "path", "unknown"},
                        kind : {"rule_match_high", "rule_match_medium", "rule_match_low"}]

\* The values that the words of t have as an expression of the grammar
\*   or ::= or "or" and | and     and ::= and "and" not | not
\*   not ::= "not" not | atom     atom ::= "(" or ")" | name
\* where truth gives the values of names: g[<<sort, n, i>>] are those of the n from i.
AtomValues(g, t, truth, n, i) ==
  IF n = 1 THEN {truth[w] : w \in {t[i]} \cap (DOMAIN truth \ {"("})}
  ELSE IF t[i] = "(" /\ t[i + n - 1] = ")" THEN g[<<"or", n - 2, i + 1>>] ELSE {}

NotValues(g, t, truth, n, i) ==
  IF n = 0 THEN {}
  ELSE IF t[i] = "not" THEN {Negated(v) : v \in g[<<"not", n - 1, i + 1>>]}
  ELSE AtomValues(g, t, truth, n, i)

Sides(g, t, n, i, op, right) ==
  {x \in Truth \X Truth :
     \E k \in 1..(n - 2) : /\ t[i + k] = op
                          /\ x[1] \in g[<<op, k, i>>] /\ x[2] \in g[<<right, n - k - 1, i + k + 1>>]}

AndValues(g, t, truth, n, i) ==
  {Both(x[1], x[2]) : x \in Sides(g, t, n, i, "and", "not")} \cup NotValues(g, t, truth, n, i)

OrValues(g, t, truth, n, i) ==
  {Either(x[1], x[2]) : x \in Sides(g, t, n, i, "or", "and")} \cup AndValues(g, t, truth, n, i)

Values(t, truth) ==
  LET g[x \in {x \in {"not", "and", "or"} \X (0..Len(t)) \X (1..(Len(t) + 1)) :
                    x[2] + x[3] <= Len(t) + 1}] ==
        CASE x[1] = "not" -> NotValues(g, t, truth, x[2], x[3])
          [] x[1] = "and" -> AndValues(g, t, truth, x[2], x[3])
          [] x[1] = "or"  -> OrValues(g, t, truth, x[2], x[3])
  IN  g[<<"or", Len(t), 1>>]

\* The names that have a value.
TruthOf(said) == [w \in {w \in DOMAIN said : said[w] # "raises"} |-> said[w]]

\* An event is signalled for exactly the rules whose condition is an expression that is
\* true of it, where a name that is no field of the event ("external hook") is false and
\* a selection that fails has no value: a rule that cannot be evaluated is silent and takes
\* no other rule with it.
ConditionMeans ==
  matching # NoEvent =>
    \A i \in DOMAIN rules :
      (\E x \in signals : x.rule = i) <=>
        /\ AppliesTo(rules[i], matching)
        /\ "yes" \in Values(Tokens(rules[i].condition), TruthOf(Said(rules[i], matching)))
=============================================================================
