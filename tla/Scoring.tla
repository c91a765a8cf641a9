------------------------------- MODULE Scoring -------------------------------
(***************************************************************************)
(* How the rules of a signature judge a request: score_request of          *)
(* srv/web/isc_agent/core.py, the requests that the web honeypot and the   *)
(* rule checker (srv/web/rule_checker.py) hand to it, and the signature    *)
(* that the rule checker announces.                                        *)
(*                                                                         *)
(* Texts are compared in lower case.  A text is the set of its words: it   *)
(* contains another text that is a subset, and the words of a pattern are  *)
(* alternatives.  A rule's value is "name:text" or "text"; capital says    *)
(* that the name, which is not put in lower case, has capitals.            *)
(***************************************************************************)
EXTENDS Integers, Sequences

CONSTANTS
    NoName,         \* the rule's value has no colon
    NoHeaders,      \* an item of the checker's traffic has no "headers"
    Quoted,         \* for each word that is percent-encoded, what it stands for
    Underscored,    \* for each name of a header with "_", the one with "-"
    Unbalanced      \* a word that makes a pattern one that re cannot compile

Conditions == {"contains", "equals", "absent", "regex"}

Attributes == {"path", "method", "headers", "cookies"}

\* The word, or what a table has for it.
Through(table, word) == IF word \in DOMAIN table THEN table[word] ELSE word

\* "k=v" for all of a dictionary.
Joined(dict) == UNION {{k} \cup dict[k] : k \in DOMAIN dict}

\* What the handler makes of a request: the path is unquoted, and the names of
\* headers are written in one way; where two become one, one value is kept.  The
\* dictionary of cookies is always empty.
RequestShim(r) ==
    LET Name(k) == Through(Underscored, k)
    IN  [path    |-> {Through(Quoted, w) : w \in r.uri},
         method  |-> r.method,
         headers |-> [n \in {Name(k) : k \in DOMAIN r.headers} |->
                         r.headers[CHOOSE k \in DOMAIN r.headers : Name(k) = n]],
         cookies |-> {}]

Omits(item) == item.headers = NoHeaders

\* headers["Cookie"] = the cookies, in a dictionary of headers.
WithCookie(dict, cookies) ==
    [n \in DOMAIN dict \cup {"cookie"} |->
        IF n = "cookie" THEN Joined(cookies) ELSE dict[n]]

\* The headers of an item, had it a dictionary of its own.
OwnHeaders(item) ==
    WithCookie(IF Omits(item) THEN [n \in {} |-> {}] ELSE item.headers, item.cookies)

\* The checker's request for an item of its traffic, all of which it makes before
\* it scores one.  Path and names are left as they are.  The items that omit their
\* headers share the default argument, with the Cookie of the last of them.
FakeRequest(traffic, i) ==
    LET omitting == {j \in DOMAIN traffic : Omits(traffic[j])}
        last     == CHOOSE j \in omitting : \A k \in omitting : k <= j
    IN  [path    |-> traffic[i].uri,
         method  |-> traffic[i].method,
         headers |-> OwnHeaders(traffic[IF i \in omitting THEN last ELSE i]),
         cookies |-> DOMAIN traffic[i].cookies]

Header(req, name) == IF name \in DOMAIN req.headers THEN req.headers[name] ELSE {}

\* attr_value: of the headers, the one that is named, or all names and values.
AttrValue(req, rule) ==
    CASE rule.attribute = "path" -> req.path
      [] rule.attribute = "method" -> req.method
      [] rule.attribute = "cookies" -> Header(req, "cookie")
      [] rule.attribute = "headers" ->
            IF rule.name = NoName
            THEN Joined(req.headers)
            ELSE IF rule.capital THEN {} ELSE Header(req, rule.name)

\* value in [k.lower() for k in ...], for a value that is one of the names.
IsOneOf(rule, names) ==
    rule.name = NoName /\ ~rule.capital /\ \E n \in names : rule.text = {n}

\* The rule scores.  "contains" has another branch for a header that is there
\* although attr_value is empty, which it then never is; the one for cookies is
\* reached in the checker, by an item that shares the headers of another.
Holds(req, rule) ==
    \/ /\ rule.condition = "contains"
       /\ \/ rule.text \subseteq AttrValue(req, rule)
          \/ /\ rule.attribute = "cookies" /\ IsOneOf(rule, req.cookies)
             /\ AttrValue(req, rule) = {}
    \/ /\ rule.condition = "equals"
       /\ rule.text = AttrValue(req, rule)
    \/ /\ rule.condition = "regex"
       /\ rule.text = {} \/ rule.text \cap AttrValue(req, rule) # {}
    \/ /\ rule.condition = "absent"
       /\ \/ rule.attribute = "headers" /\ ~IsOneOf(rule, DOMAIN req.headers)
          \/ rule.attribute = "cookies" /\ ~IsOneOf(rule, req.cookies)

\* re.search raises re.error.
CannotCompile(rule) == rule.condition = "regex" /\ Unbalanced \in rule.text

Gain(req, rule) == IF Holds(req, rule) THEN rule.score ELSE 0

\* Mutant: too low a total becomes the minimum.
Clamped_ToMinimum(total, signature) ==
    IF total < signature.min_score THEN signature.min_score
    ELSE IF total > signature.max_score THEN signature.max_score ELSE total

\* signature_min and signature_max.
Clamped(total, signature) ==
    IF total < signature.min_score THEN 0
    ELSE IF total > signature.max_score THEN signature.max_score ELSE total

-----------------------------------------------------------------------------
(* The scores of all signatures, and the rule checker.                     *)

\* total_score after all rules.
Total(req, signature) ==
    LET sum[n \in 0..Len(signature.rules)] ==
            IF n = 0 THEN 0 ELSE sum[n - 1] + Gain(req, signature.rules[n])
    IN  sum[Len(signature.rules)]

score_request(req, signature) == Clamped(Total(req, signature), signature)

\* max(scores, key=scores.get): the first of those with the highest score.
FirstBest(req, signatures) ==
    LET score(i) == score_request(req, signatures[i])
    IN  CHOOSE i \in DOMAIN signatures :
            \A j \in DOMAIN signatures :
                score(j) <= score(i) /\ (j < i => score(j) < score(i))

\* The checker's best_sig, or 0 for "Default signature will be used".  It keeps
\* the scores by the signatures' ids, which are different.
CheckerWinner(req, signatures) ==
    IF score_request(req, signatures[FirstBest(req, signatures)]) = 0
    THEN 0
    ELSE FirstBest(req, signatures)
=============================================================================
