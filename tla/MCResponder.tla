---------------------------- MODULE MCResponder ----------------------------
(* An instance of Responder for TLC.                                        *)
EXTENDS Responder, TLC

CONSTANTS i1, i2, g1, g2

MCPresent == (g1 :> {i1, i2}) @@ (g2 :> {i1})

MCQuoted == ("%61dmin" :> "admin")
MCUnderscored == ("user_agent" :> "user-agent")

Item(uri, dict, cookies) ==
    [uri |-> uri, method |-> {"get"}, headers |-> dict, cookies |-> cookies]

\* An item like most, one that the honeypot unquotes, one whose header it renames,
\* and two without headers, of which the first has cookies.
MCTraffic ==
    << Item({"login"}, ("user-agent" :> {"bot"}), ("sid" :> {"7"})),
       Item({"%61dmin"}, ("user-agent" :> {"bot"}), ("sid" :> {"7"})),
       Item({"login"}, ("user_agent" :> {"bot"}), ("sid" :> {"7"})),
       Item({"login"}, NoHeaders, ("sid" :> {"7"})),
       Item({"admin"}, NoHeaders, <<>>) >>

Request(uri, dict, numeric) ==
    [uri |-> uri, method |-> {"get"}, headers |-> dict, numeric |-> numeric]

\* What clients send for the items, and a request without a Cookie header whose
\* length is no number.
MCRequests ==
    {Request({"admin"}, ("user-agent" :> {"bot"}), FALSE)}
        \cup {Request(MCTraffic[i].uri, OwnHeaders(MCTraffic[i]), TRUE) :
                  i \in DOMAIN MCTraffic}

Rule(condition, attribute, text, score) ==
    [condition |-> condition, attribute |-> attribute, name |-> NoName,
     capital |-> FALSE, text |-> text, score |-> score]

Named(condition, name, text, score) ==
    [Rule(condition, "headers", text, score) EXCEPT !.name = name]

Signature(rules, min, max, ids) ==
    [rules |-> rules, min_score |-> min, max_score |-> max, responses |-> ids]

MCLogin == Signature(<<Rule("contains", "path", {"login"}, 2)>>, -9, 9, {i1, i2})

\* Contains, equals, a minimum, and several rules about headers and cookies.
MCSound ==
    { MCLogin,
      Signature(<<Rule("equals", "method", {"get"}, 3)>>, -9, 2, {i2}),
      Signature(<<Rule("contains", "path", {"admin"}, 1),
                  Named("contains", "user-agent", {"bot"}, 2)>>, 2, 9, {i1}),
      Signature(<<Rule("contains", "cookies", {"sid"}, 1),
                  Rule("equals", "cookies", {"sid", "7"}, 1),
                  Rule("absent", "headers", {"user-agent"}, 1)>>, -9, 9, {i2}) }

\* A maximum of zero and one below, cookies that are never there, and two that are
\* broken.
MCOdd ==
    { Signature(<<Rule("regex", "path", {}, 4),
                  Rule("contains", "path", {"login"}, -5)>>, -9, 0, {i1}),
      Signature(<<Rule("equals", "method", {"get"}, 1)>>, -9, -2, {i2}),
      Signature(<<Rule("absent", "cookies", {"sid"}, 1)>>, -9, 9, {i1}),
      Signature(<<Rule("regex", "path", {Unbalanced}, 1)>>, -9, 9, {i1}),
      Signature(<<Rule("regex", "path", {"admin", "root"}, 3)>>, -9, 9, {}) }

MCSignatureLists ==
    {<<>>} \cup {<<s>> : s \in MCSound \cup MCOdd}
           \cup UNION {{<<s, t>> : t \in MCSound \ {s}} : s \in MCSound}
           \cup {<<MCLogin, s>> : s \in MCOdd}

Symmetry == Permutations(Handlers)
=============================================================================
