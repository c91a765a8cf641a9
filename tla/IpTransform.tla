---------------------------- MODULE IpTransform ----------------------------
(***************************************************************************)
(* What the agent and the log parsers make of an address before they       *)
(* report it: an address of the network honeypotip is replaced, and one of *)
(* the network anonymizeip is masked.  The agent and the parsers' library  *)
(* have an implementation each, of the same dshield.ini                    *)
(* (srv/web/isc_agent/agent.py and srv/dshield/DShield.py).                *)
(*                                                                         *)
(* An integer is the set of its bits that are 1, bit 1 being the most      *)
(* significant one of 32, and -1 is all bits with the sign, so that & is   *)
(* \cap.  A dotted quad is written as its integer: inet_pton takes exactly *)
(* these texts, and inet_ntoa gives the same text back.                    *)
(*                                                                         *)
(* For 'auto' a program asks dshield.org for the sensor's address: the     *)
(* agent once, when it starts, the library in each run of a parser.  The   *)
(* answers may differ.                                                     *)
(***************************************************************************)
EXTENDS Integers

CONSTANTS
    Width,          \* bits of an address, 32 in the code
    OtherTexts,     \* texts that are no IPv4 address: IPv6, a typing error
    EmptyText,      \* ''
    AutoText,       \* 'auto', in replacehoneypotip only
    PublicTexts,    \* what dshield.org may say that the sensor's address is
    Loopback        \* 127.0.0.1

Bits == 1..Width

Address == SUBSET Bits

\* The texts that an address in a log or in a setting may be.
Texts == Address \cup OtherTexts \cup {EmptyText}

\* Bit 0 is the sign.
Minus1 == 0..Width

ASSUME AddressAssumption ==
    /\ Width \in Nat
    /\ Loopback \in Address
    /\ ({EmptyText, AutoText} \cup OtherTexts) \cap Address = {}
    /\ EmptyText # AutoText
    /\ {EmptyText, AutoText} \cap OtherTexts = {}
    /\ PublicTexts \subseteq Address \cup OtherTexts

\* The section DShield of dshield.ini.  A network without a / has length Width.
Settings ==
    {s \in [honeypotip : Texts, honeypotlength : 0..Width,
            replacehoneypotip : Texts \cup {AutoText},
            anonymizeip : Texts, anonymizelength : 0..Width,
            anonymizemask : Texts] :
        /\ s.honeypotip = EmptyText => s.honeypotlength = Width
        /\ s.anonymizeip = EmptyText => s.anonymizelength = Width}

Programs == {"agent", "parser"}

\* A parser that is "off" does not run.
Steps == {"off", "translate", "anonymize", "sent"}

VARIABLES
    settings,   \* dshield.ini, read once when a program starts
    my_ip,      \* what getmyip has returned to each program
    ip,         \* the address of the record
    step,       \* where each program is with the record
    reported    \* the address as each program has it

vars == <<settings, my_ip, ip, step, reported>>

\* What getmyip may return.  For a status that is not 200, the agent takes
\* 127.0.0.1.
Answers(p) == PublicTexts \cup (IF p = "agent" THEN {Loopback} ELSE {})

-----------------------------------------------------------------------------
(* Conversions.                                                            *)

\* Mutant: 0 stands for what is no address.
ip42long_Zero(text) == IF text \in Address THEN text ELSE {}

ip42long(text) == IF text \in Address THEN text ELSE Minus1

\* struct.pack raises for -1.
long2ip4(long) == IF long \in Address THEN long ELSE Loopback

\* 2**32 - 2**(32 - length)
mask42long(length) == 1..length

\* An integer as a condition.
Truthy(long) == long # {}

-----------------------------------------------------------------------------
(* The attributes that each program makes of the settings.                 *)

\* read_config
AgentConfig ==
    [honeypotnet      |-> ip42long(settings.honeypotip),
     honeypotmask     |-> mask42long(settings.honeypotlength),
     replacehoneypotip |->
        ip42long(IF settings.replacehoneypotip \in {AutoText, EmptyText}
                 THEN my_ip["agent"] ELSE settings.replacehoneypotip),
     anonymizenet     |-> ip42long(settings.anonymizeip),
     anonymizenetmask |-> IF settings.anonymizeip = EmptyText THEN Minus1
                          ELSE mask42long(settings.anonymizelength),
     anonymizemask    |-> IF settings.anonymizeip = EmptyText THEN Minus1
                          ELSE ip42long(settings.anonymizemask)]

\* readconfig
ParserConfig ==
    [honeypotnet      |-> ip42long(settings.honeypotip),
     honeypotmask     |-> mask42long(settings.honeypotlength),
     replacehoneypotip |->
        ip42long(IF settings.replacehoneypotip = AutoText
                 THEN my_ip["parser"] ELSE settings.replacehoneypotip),
     anonymizenet     |-> ip42long(settings.anonymizeip),
     anonymizenetmask |-> mask42long(settings.anonymizelength),
     anonymizemask    |-> ip42long(settings.anonymizemask)]

-----------------------------------------------------------------------------
(* translateip4 and anonymizeip4, first the agent's.                       *)

\* Mutant: the address is compared as it is.
AgentTranslated_NoMask(text) ==
    LET c == AgentConfig
    IN  IF ip42long(text) = c.honeypotnet /\ c.replacehoneypotip # Minus1
        THEN long2ip4(c.replacehoneypotip) ELSE text

AgentTranslated(text) ==
    LET c == AgentConfig
        ip_long == ip42long(text)
    IN  IF /\ c.replacehoneypotip # Minus1
           /\ ip_long # Minus1
           /\ c.honeypotmask # Minus1
           /\ c.honeypotnet # Minus1
           /\ ip_long \cap c.honeypotmask = c.honeypotnet
        THEN long2ip4(c.replacehoneypotip)
        ELSE text

\* Mutant: the wrong one of two masks.
AgentAnonymized_NetMask(text) ==
    LET c == AgentConfig
        ip_long == ip42long(text)
    IN  IF /\ Minus1 \notin {ip_long, c.anonymizenet, c.anonymizenetmask}
           /\ ip_long \cap c.anonymizemask = c.anonymizenet
        THEN long2ip4(ip_long \cap c.anonymizenetmask)
        ELSE text

AgentAnonymized(text) ==
    LET c == AgentConfig
        ip_long == ip42long(text)
    IN  IF /\ ip_long # Minus1
           /\ c.anonymizenet # Minus1
           /\ c.anonymizemask # Minus1
           /\ c.anonymizenetmask # Minus1
           /\ ip_long \cap c.anonymizenetmask = c.anonymizenet
        THEN long2ip4(ip_long \cap c.anonymizemask)
        ELSE text

\* Mutant: a replacement that is not set is not noticed.
ParserTranslated_Always(text) ==
    LET c == ParserConfig
        long == ip42long(text)
    IN  IF long \cap c.honeypotmask = c.honeypotnet
        THEN long2ip4(c.replacehoneypotip) ELSE long2ip4(long)

ParserTranslated(text) ==
    LET c == ParserConfig
        long == ip42long(text)
        matches == /\ Truthy(c.honeypotmask)
                   /\ Truthy(c.honeypotnet)
                   /\ Truthy(c.replacehoneypotip)
                   /\ long \cap c.honeypotmask = c.honeypotnet
    IN  IF c.replacehoneypotip = Minus1 THEN text
        ELSE long2ip4(IF matches THEN c.replacehoneypotip ELSE long)

ParserAnonymized(text) ==
    LET c == ParserConfig
        long == ip42long(text)
        matches == /\ Truthy(c.anonymizenet)
                   /\ Truthy(c.anonymizemask)
                   /\ Truthy(c.anonymizenetmask)
                   /\ long \cap c.anonymizenetmask = c.anonymizenet
    IN  long2ip4(IF matches THEN long \cap c.anonymizemask ELSE long)

-----------------------------------------------------------------------------
(* A record passes through anontranslateip4 of each program.               *)

Init ==
    /\ settings \in Settings
    /\ my_ip \in [Programs -> PublicTexts \cup {Loopback}]
    /\ \A p \in Programs : my_ip[p] \in Answers(p)
    /\ ip \in Address \cup OtherTexts
    /\ step = [p \in Programs |-> IF p = "agent" THEN "translate" ELSE "off"]
    /\ reported = [p \in Programs |-> ip]

Translated(p, text) ==
    IF p = "agent" THEN AgentTranslated(text) ELSE ParserTranslated(text)

Anonymized(p, text) ==
    IF p = "agent" THEN AgentAnonymized(text) ELSE ParserAnonymized(text)

Translate(p) ==
    /\ step[p] = "translate"
    /\ step' = [step EXCEPT ![p] = "anonymize"]
    /\ reported' = [reported EXCEPT ![p] = Translated(p, @)]
    /\ UNCHANGED <<settings, my_ip, ip>>

Anonymize(p) ==
    /\ step[p] = "anonymize"
    /\ step' = [step EXCEPT ![p] = "sent"]
    /\ reported' = [reported EXCEPT ![p] = Anonymized(p, @)]
    /\ UNCHANGED <<settings, my_ip, ip>>

\* A run of a parser has ended.
Over == step["parser"] \in {"off", "sent"}

\* A run of a parser begins, and reads the settings.
StartRun ==
    /\ Over
    /\ IF settings.replacehoneypotip = AutoText
       THEN \E text \in Answers("parser") : my_ip' = [my_ip EXCEPT !["parser"] = text]
       ELSE UNCHANGED my_ip
    /\ step' = [step EXCEPT !["parser"] = "translate"]
    /\ reported' = [reported EXCEPT !["parser"] = ip]
    /\ UNCHANGED <<settings, ip>>

\* The library has no answer: requests.get raises, or getmyip returns the number
\* -1 for a status that is not 200, at which inet_pton raises TypeError.  Nothing
\* catches either.  (The agent's start is tried again.)
RunFails ==
    /\ Over
    /\ settings.replacehoneypotip = AutoText
    /\ step' = [step EXCEPT !["parser"] = "off"]
    /\ UNCHANGED <<settings, my_ip, ip, reported>>

\* Both programs go on to another record, a parser only if it runs.
NextRecord ==
    /\ step["agent"] = "sent" /\ Over
    /\ ip' \in Address \cup OtherTexts
    /\ step' = [p \in Programs |-> IF step[p] = "off" THEN "off" ELSE "translate"]
    /\ reported' = [p \in Programs |-> ip']
    /\ UNCHANGED <<settings, my_ip>>

Next ==
    \/ \E p \in Programs : Translate(p) \/ Anonymize(p)
    \/ StartRun \/ RunFails \/ NextRecord

Spec == Init /\ [][Next]_vars

-----------------------------------------------------------------------------
(* Properties.                                                             *)

\* Every variable has the type that its comment gives it; in particular, what
\* is reported is always a text.
TypeOK ==
    /\ settings \in Settings
    /\ my_ip \in [Programs -> PublicTexts \cup {Loopback}]
    /\ \A p \in Programs : my_ip[p] \in Answers(p)
    /\ ip \in Address \cup OtherTexts
    /\ step \in [Programs -> Steps]
    /\ reported \in [Programs -> Texts]

\* Address a is in the network of that address and length: their first bits are
\* the same.
InNetwork(a, net, length) == \A b \in 1..length : b \in a <=> b \in net

\* A network is written with zeros behind its length, as the code needs it.
Canonical(net, length) == net \in Address /\ net \subseteq 1..length

\* The parsers take 0 for a setting that is missing.
Taken(p, longs) == p = "parser" => {} \notin longs

Config(p) == IF p = "agent" THEN AgentConfig ELSE ParserConfig

\* An address of the honeypot's network is never reported, but only the one that
\* replaces it, which may have to be anonymised itself.
HoneypotReplaced ==
    \A p \in Programs :
        LET c == Config(p)
        IN  /\ step[p] = "sent"
            /\ ip \in Address
            /\ Canonical(c.honeypotnet, settings.honeypotlength)
            /\ InNetwork(ip, c.honeypotnet, settings.honeypotlength)
            /\ c.replacehoneypotip \in Address
            /\ Taken(p, {c.honeypotnet, c.honeypotmask, c.replacehoneypotip})
            => reported[p] \in {c.replacehoneypotip,
                                c.replacehoneypotip \cap c.anonymizemask}

\* An address of the network that is to be anonymised never shows a bit that the
\* mask hides, be it the record's own or the one put in its place.
HiddenBitsStayHidden ==
    \A p \in Programs :
        LET c == Config(p)
        IN  /\ step[p] = "sent"
            /\ ip \in Address
            /\ Canonical(c.anonymizenet, settings.anonymizelength)
            /\ c.anonymizemask \in Address
            /\ Taken(p, {c.anonymizenet, c.anonymizenetmask, c.anonymizemask})
            /\ InNetwork(reported[p], c.anonymizenet, settings.anonymizelength)
            => reported[p] \subseteq c.anonymizemask

\* The address is of the honeypot's network, as the code tests it.
Covers(c, a) == a \cap c.honeypotmask = c.honeypotnet

\* The two implementations report the same, although one tests for -1 and the
\* other for 0: for IPv4 addresses, and settings in which no number is 0 and the
\* replacement is not left out, for which only the agent takes its own address.
\* With 'auto' they differ about addresses of the honeypot's network, and about no
\* others, if they were told different addresses of the sensor.
ProgramsAgree ==
    /\ \A p \in Programs : step[p] = "sent"
    /\ ip \in Address
    /\ settings.replacehoneypotip # EmptyText
    /\ LET c == ParserConfig
       IN  {} \notin {c.honeypotnet, c.honeypotmask, c.replacehoneypotip,
                      c.anonymizenet, c.anonymizenetmask, c.anonymizemask}
    => \/ reported["agent"] = reported["parser"]
       \/ /\ settings.replacehoneypotip = AutoText
          /\ my_ip["agent"] # my_ip["parser"]
          /\ Covers(ParserConfig, ip)

\* "only run if all the variables we need are set": without a network to replace
\* or to anonymise, both programs report an IPv4 address as it is, although the
\* parsers take the -1 of a missing network for one that is set, and compare it.
UnsetLeavesAlone ==
    \A p \in Programs :
        /\ step[p] = "sent"
        /\ ip \in Address
        /\ settings.honeypotip = EmptyText
        /\ settings.anonymizeip = EmptyText
        => reported[p] = ip
=============================================================================
