------------------------- MODULE IpTransformProofs -------------------------
(***************************************************************************)
(* What the two implementations of anontranslateip4 report, for addresses  *)
(* of any width.  The invariant is that a program has translated and       *)
(* anonymised the record's address as far as its step says; the rest is    *)
(* about the operators.                                                    *)
(***************************************************************************)
EXTENDS IpTransform, TLAPS

\* What a program has of the record's address.
Progress ==
    \A p \in Programs :
        /\ step[p] = "translate" => reported[p] = ip
        /\ step[p] = "anonymize" => reported[p] = Translated(p, ip)
        /\ step[p] = "sent" => reported[p] = Anonymized(p, Translated(p, ip))

TransformInv == TypeOK /\ Progress

-----------------------------------------------------------------------------

\* -1 is no address, and leaves an address as it is under &.
LEMMA Minus1Lemma ==
    /\ Minus1 \notin Address
    /\ \A a \in Address : a \cap Minus1 = a
<1>1. 0 \in Minus1 /\ 0 \notin Bits
  BY AddressAssumption DEF Minus1, Bits
<1>2. Bits \subseteq Minus1
  BY AddressAssumption DEF Minus1, Bits
<1> QED BY <1>1, <1>2 DEF Address

\* Conversions give integers and texts, and addresses pass through both.
LEMMA ConversionLemma ==
    /\ \A t : ip42long(t) \in Address \cup {Minus1}
    /\ \A a \in Address : ip42long(a) = a
    /\ \A l : long2ip4(l) \in Address
    /\ \A a \in Address : long2ip4(a) = a
    /\ long2ip4(Minus1) = Loopback
BY AddressAssumption, Minus1Lemma DEF ip42long, long2ip4

\* A mask has the bits of an address.
LEMMA MaskLemma ==
    ASSUME NEW n \in 0..Width
    PROVE  mask42long(n) \in Address /\ mask42long(n) # Minus1
<1>1. mask42long(n) \subseteq Bits
  BY AddressAssumption DEF mask42long, Bits
<1> QED BY <1>1, Minus1Lemma DEF Address

\* Translating and anonymising gives a text.
LEMMA TextLemma ==
    ASSUME NEW p \in Programs, NEW t \in Texts
    PROVE  Translated(p, t) \in Texts /\ Anonymized(p, t) \in Texts
<1>1. \A l : long2ip4(l) \in Texts
  BY ConversionLemma DEF Texts
<1>2. AgentTranslated(t) \in Texts /\ AgentAnonymized(t) \in Texts
  BY <1>1 DEF AgentTranslated, AgentAnonymized
<1>3. ParserTranslated(t) \in Texts /\ ParserAnonymized(t) \in Texts
  BY <1>1 DEF ParserTranslated, ParserAnonymized
<1> QED BY <1>2, <1>3 DEF Translated, Anonymized

\* The results depend on nothing but the settings and what the program itself was
\* told of the sensor's address.
LEMMA SameSettings ==
    ASSUME NEW p \in Programs, UNCHANGED <<settings, ip>>, my_ip'[p] = my_ip[p]
    PROVE  /\ Translated(p, ip)' = Translated(p, ip)
           /\ Anonymized(p, Translated(p, ip))' = Anonymized(p, Translated(p, ip))
<1>1. CASE p = "agent"
  <2>1. AgentConfig' = AgentConfig
    BY <1>1 DEF AgentConfig
  <2>2. Translated(p, ip)' = Translated(p, ip)
    BY <1>1, <2>1 DEF Translated, AgentTranslated
  <2> QED BY <1>1, <2>1, <2>2 DEF Anonymized, AgentAnonymized
<1>2. CASE p = "parser"
  <2>1. ParserConfig' = ParserConfig
    BY <1>2 DEF ParserConfig
  <2>2. Translated(p, ip)' = Translated(p, ip)
    BY <1>2, <2>1 DEF Translated, ParserTranslated
  <2> QED BY <1>2, <2>1, <2>2 DEF Anonymized, ParserAnonymized
<1> QED BY <1>1, <1>2 DEF Programs

\* TransformInv holds initially.
LEMMA TransformInit == Init => TransformInv
<1> SUFFICES ASSUME Init PROVE TransformInv
  OBVIOUS
<1>1. \A p \in Programs : reported[p] = ip /\ step[p] \in {"off", "translate"}
  BY DEF Init
<1>2. TypeOK
  BY DEF Init, TypeOK, Steps, Texts
<1> QED BY <1>1, <1>2 DEF TransformInv, Progress

\* Every step preserves TransformInv.
LEMMA TransformStep == TransformInv /\ [Next]_vars => TransformInv'
<1> SUFFICES ASSUME TransformInv, [Next]_vars
             PROVE  TransformInv'
  OBVIOUS
<1> USE DEF TransformInv
<1>1. ASSUME NEW p \in Programs, Translate(p)
      PROVE  TransformInv'
  <2>1. UNCHANGED <<settings, my_ip, ip>>
    BY <1>1 DEF Translate
  <2>2. reported[p] = ip /\ ip \in Texts
    BY <1>1 DEF Translate, Progress, TypeOK, Texts
  <2>3. TypeOK'
    BY <1>1, <2>2, TextLemma DEF Translate, TypeOK, Steps
  <2>4. /\ step'[p] = "anonymize" /\ reported'[p] = Translated(p, ip)
        /\ \A q \in Programs \ {p} : step'[q] = step[q] /\ reported'[q] = reported[q]
    BY <1>1, <2>2 DEF Translate, TypeOK
  <2>5. Progress'
    BY <2>1, <2>4, SameSettings DEF Progress
  <2> QED BY <2>3, <2>5
<1>2. ASSUME NEW p \in Programs, Anonymize(p)
      PROVE  TransformInv'
  <2>1. UNCHANGED <<settings, my_ip, ip>>
    BY <1>2 DEF Anonymize
  <2>2. reported[p] = Translated(p, ip) /\ reported[p] \in Texts
    BY <1>2 DEF Anonymize, Progress, TypeOK
  <2>3. TypeOK'
    BY <1>2, <2>2, TextLemma DEF Anonymize, TypeOK, Steps
  <2>4. /\ step'[p] = "sent" /\ reported'[p] = Anonymized(p, Translated(p, ip))
        /\ \A q \in Programs \ {p} : step'[q] = step[q] /\ reported'[q] = reported[q]
    BY <1>2, <2>2 DEF Anonymize, TypeOK
  <2>5. Progress'
    BY <2>1, <2>4, SameSettings DEF Progress
  <2> QED BY <2>3, <2>5
<1>3. CASE NextRecord
  <2>1. \A p \in Programs : reported'[p] = ip' /\ step'[p] \in {"off", "translate"}
    BY <1>3 DEF NextRecord
  <2>2. TypeOK'
    BY <1>3 DEF NextRecord, TypeOK, Steps, Texts
  <2> QED BY <2>1, <2>2 DEF Progress
<1>5. CASE StartRun
  <2>1. /\ step'["parser"] = "translate" /\ reported'["parser"] = ip
        /\ step'["agent"] = step["agent"] /\ reported'["agent"] = reported["agent"]
        /\ my_ip'["agent"] = my_ip["agent"]
        /\ UNCHANGED <<settings, ip>>
    BY <1>5 DEF StartRun, TypeOK, Programs
  <2>2. TypeOK'
    <3>1. my_ip' \in [Programs -> PublicTexts \cup {Loopback}]
      BY <1>5 DEF StartRun, TypeOK, Programs, Answers
    <3>2. \A p \in Programs : my_ip'[p] \in Answers(p)
      BY <1>5 DEF StartRun, TypeOK, Programs
    <3> QED BY <1>5, <3>1, <3>2 DEF StartRun, TypeOK, Programs, Steps, Texts
  <2>3. Progress'
    BY <2>1, SameSettings DEF Progress, Programs
  <2> QED BY <2>2, <2>3
<1>6. CASE RunFails
  <2>1. /\ step'["parser"] = "off" /\ step'["agent"] = step["agent"]
        /\ UNCHANGED <<settings, my_ip, ip, reported>>
    BY <1>6 DEF RunFails, TypeOK, Programs
  <2>2. TypeOK'
    BY <1>6 DEF RunFails, TypeOK, Programs, Steps
  <2>3. Progress'
    BY <2>1, SameSettings DEF Progress, Programs
  <2> QED BY <2>2, <2>3
<1>4. CASE UNCHANGED vars
  <2>1. TypeOK'
    BY <1>4 DEF vars, TypeOK
  <2>2. Progress'
    BY <1>4, SameSettings DEF vars, Progress
  <2> QED BY <2>1, <2>2
<1> QED BY <1>1, <1>2, <1>3, <1>4, <1>5, <1>6 DEF Next

\* The invariant of the translation, for every width.
THEOREM TransformInvariant == Spec => []TransformInv
BY TransformInit, TransformStep, PTL DEF Spec

\* What is reported is always a text, never a number that is no address.
THEOREM TransformTypes == Spec => []TypeOK
<1>1. TransformInv => TypeOK
  BY DEF TransformInv
<1> QED BY <1>1, TransformInvariant, PTL

-----------------------------------------------------------------------------

\* Comparing the masked address with a network tests membership.
LEMMA NetworkLemma ==
    ASSUME NEW a \in Address, NEW net, NEW n \in 0..Width, Canonical(net, n)
    PROVE  a \cap mask42long(n) = net <=> InNetwork(a, net, n)
BY DEF Canonical, InNetwork, mask42long

\* What the attributes of the two programs can be.
LEMMA ConfigLemma ==
    ASSUME TypeOK, NEW p \in Programs
    PROVE  /\ settings.honeypotlength \in 0..Width
           /\ settings.anonymizelength \in 0..Width
           /\ Config(p).honeypotmask = mask42long(settings.honeypotlength)
           /\ Config(p).replacehoneypotip \in Address \cup {Minus1}
           /\ Config(p).anonymizemask \in Address \cup {Minus1}
           /\ Config(p).anonymizenet # Minus1 =>
                 Config(p).anonymizenetmask = mask42long(settings.anonymizelength)
<1>1. settings \in Settings
  BY DEF TypeOK
<1>2. ip42long(EmptyText) = Minus1
  BY AddressAssumption DEF ip42long
<1>3. CASE p = "agent"
  BY <1>1, <1>2, <1>3, ConversionLemma DEF Config, AgentConfig, Settings
<1>4. CASE p = "parser"
  BY <1>1, <1>4, ConversionLemma DEF Config, ParserConfig, Settings, Programs
<1> QED BY <1>3, <1>4 DEF Programs

\* An address of the honeypot's network is translated.
LEMMA ReplacedLemma ==
    ASSUME TypeOK, NEW p \in Programs, NEW a \in Address,
           Canonical(Config(p).honeypotnet, settings.honeypotlength),
           InNetwork(a, Config(p).honeypotnet, settings.honeypotlength),
           Config(p).replacehoneypotip \in Address,
           Taken(p, {Config(p).honeypotnet, Config(p).honeypotmask,
                     Config(p).replacehoneypotip})
    PROVE  Translated(p, a) = Config(p).replacehoneypotip
<1> DEFINE c == Config(p)
<1>1. a \cap c.honeypotmask = c.honeypotnet
  BY ConfigLemma, NetworkLemma
<1>2. c.honeypotmask # Minus1 /\ c.honeypotnet # Minus1 /\ c.replacehoneypotip # Minus1
  BY ConfigLemma, MaskLemma, Minus1Lemma DEF Canonical
<1>3. ip42long(a) = a /\ a # Minus1
  BY ConversionLemma, Minus1Lemma
<1>4. long2ip4(c.replacehoneypotip) = c.replacehoneypotip
  BY ConversionLemma
<1>5. CASE p = "agent"
  BY <1>1, <1>2, <1>3, <1>4, <1>5 DEF Translated, AgentTranslated, Config
<1>6. CASE p = "parser"
  <2>1. Truthy(c.honeypotnet) /\ Truthy(c.honeypotmask) /\ Truthy(c.replacehoneypotip)
    BY <1>6 DEF Taken, Truthy
  <2> QED BY <1>1, <1>2, <1>3, <1>4, <1>6, <2>1 DEF Translated, ParserTranslated, Config
<1> QED BY <1>5, <1>6 DEF Programs

\* An address is masked or stays as it is.
LEMMA MaskedLemma ==
    ASSUME TypeOK, NEW p \in Programs, NEW a \in Address
    PROVE  Anonymized(p, a) \in {a, a \cap Config(p).anonymizemask}
<1> DEFINE masked == a \cap Config(p).anonymizemask
<1>1. masked \in Address
  BY DEF Address
<1>2. ip42long(a) = a /\ long2ip4(a) = a /\ long2ip4(masked) = masked
  BY <1>1, ConversionLemma
<1> HIDE DEF masked
<1>3. CASE p = "agent"
  BY <1>2, <1>3 DEF masked, Anonymized, AgentAnonymized, Config
<1>4. CASE p = "parser"
  BY <1>2, <1>4 DEF masked, Anonymized, ParserAnonymized, Config
<1> QED BY <1>3, <1>4 DEF Programs, masked

\* An address of the network that is to be anonymised is masked.
LEMMA HiddenLemma ==
    ASSUME TypeOK, NEW p \in Programs, NEW a \in Address,
           Canonical(Config(p).anonymizenet, settings.anonymizelength),
           Config(p).anonymizemask \in Address,
           Taken(p, {Config(p).anonymizenet, Config(p).anonymizenetmask,
                     Config(p).anonymizemask}),
           InNetwork(a, Config(p).anonymizenet, settings.anonymizelength)
    PROVE  Anonymized(p, a) = a \cap Config(p).anonymizemask
<1> DEFINE c == Config(p)
           masked == a \cap c.anonymizemask
<1>1. c.anonymizenet # Minus1 /\ c.anonymizemask # Minus1
  BY Minus1Lemma DEF Canonical
<1>2. c.anonymizenetmask # Minus1
  BY <1>1, ConfigLemma, MaskLemma
<1>3. a \cap c.anonymizenetmask = c.anonymizenet
  BY <1>1, ConfigLemma, NetworkLemma
<1>4. ip42long(a) = a /\ a # Minus1 /\ long2ip4(masked) = masked
  BY ConversionLemma, Minus1Lemma DEF Address
<1>5. CASE p = "agent"
  BY <1>1, <1>2, <1>3, <1>4, <1>5 DEF Anonymized, AgentAnonymized, Config
<1>6. CASE p = "parser"
  <2>1. Truthy(c.anonymizenet) /\ Truthy(c.anonymizenetmask) /\ Truthy(c.anonymizemask)
    BY <1>6 DEF Taken, Truthy
  <2> QED BY <1>3, <1>4, <1>6, <2>1 DEF Anonymized, ParserAnonymized, Config
<1> QED BY <1>5, <1>6 DEF Programs

\* An address stays one when it is translated.
LEMMA AddressLemma ==
    ASSUME NEW p \in Programs, NEW a \in Address
    PROVE  Translated(p, a) \in Address
BY ConversionLemma DEF Translated, AgentTranslated, ParserTranslated

-----------------------------------------------------------------------------

\* Of an address of the honeypot's network only the replacement is reported, by
\* both programs, whatever the widths of address, network and mask.
THEOREM HoneypotIsReplaced == Spec => []HoneypotReplaced
<1>1. TransformInv => HoneypotReplaced
  BY ReplacedLemma, MaskedLemma DEF TransformInv, HoneypotReplaced, Progress
<1> QED BY <1>1, TransformInvariant, PTL

\* An address of the network that is to be anonymised is reported without the
\* bits that the mask hides, whichever of the two networks it came from.
THEOREM BitsAreHidden == Spec => []HiddenBitsStayHidden
<1>1. ASSUME TransformInv, NEW p \in Programs, step[p] = "sent", ip \in Address,
             Canonical(Config(p).anonymizenet, settings.anonymizelength),
             Config(p).anonymizemask \in Address,
             Taken(p, {Config(p).anonymizenet, Config(p).anonymizenetmask,
                       Config(p).anonymizemask}),
             InNetwork(reported[p], Config(p).anonymizenet, settings.anonymizelength)
      PROVE  reported[p] \subseteq Config(p).anonymizemask
  <2> DEFINE a == Translated(p, ip)
  <2>1. reported[p] = Anonymized(p, a) /\ a \in Address /\ TypeOK
    BY <1>1, AddressLemma DEF TransformInv, Progress
  <2>2. CASE reported[p] = a
    <3>1. Anonymized(p, a) = a \cap Config(p).anonymizemask
      BY <1>1, <2>1, <2>2, HiddenLemma
    <3> QED BY <2>1, <3>1
  <2>3. CASE reported[p] = a \cap Config(p).anonymizemask
    BY <2>3
  <2> QED BY <2>1, <2>2, <2>3, MaskedLemma
<1>2. TransformInv => HiddenBitsStayHidden
  BY <1>1 DEF HiddenBitsStayHidden
<1> QED BY <1>2, TransformInvariant, PTL

\* The two implementations agree on IPv4 addresses, if no number is 0, with one
\* exception: what replaces the honeypot's addresses may be two addresses, of which
\* each program was told one.
THEOREM ImplementationsAgree == Spec => []ProgramsAgree
<1>1. ASSUME TransformInv,
             ip \in Address,
             settings.replacehoneypotip # EmptyText,
             {} \notin {ParserConfig.honeypotnet, ParserConfig.honeypotmask,
                        ParserConfig.replacehoneypotip, ParserConfig.anonymizenet,
                        ParserConfig.anonymizenetmask, ParserConfig.anonymizemask},
             \/ settings.replacehoneypotip # AutoText
             \/ my_ip["agent"] = my_ip["parser"]
             \/ ~Covers(ParserConfig, ip)
      PROVE  Anonymized("agent", Translated("agent", ip))
                = Anonymized("parser", Translated("parser", ip))
  <2>1. TypeOK
    BY <1>1 DEF TransformInv
  <2>2. /\ AgentConfig.honeypotnet = ParserConfig.honeypotnet
        /\ AgentConfig.honeypotmask = ParserConfig.honeypotmask
        /\ AgentConfig.anonymizenet = ParserConfig.anonymizenet
    BY <1>1 DEF AgentConfig, ParserConfig
  <2>3. ParserConfig.honeypotmask \in Address
    BY <2>1, ConfigLemma, MaskLemma DEF Config, Programs
  <2>4. AgentTranslated(ip) = ParserTranslated(ip)
    <3>1. ip42long(ip) = ip /\ long2ip4(ip) = ip /\ ip # Minus1
      BY <1>1, ConversionLemma, Minus1Lemma
    <3>2. ip \cap ParserConfig.honeypotmask # Minus1 /\ ParserConfig.honeypotmask # Minus1
      BY <1>1, <2>3, Minus1Lemma DEF Address
    <3>3. CASE Covers(ParserConfig, ip)
      <4>1. AgentConfig.replacehoneypotip = ParserConfig.replacehoneypotip
        BY <1>1, <3>3 DEF AgentConfig, ParserConfig
      <4> QED
        BY <1>1, <2>2, <3>1, <3>2, <3>3, <4>1
        DEF AgentTranslated, ParserTranslated, Truthy, Covers
    <3>4. CASE ~Covers(ParserConfig, ip)
      BY <2>2, <3>1, <3>4 DEF AgentTranslated, ParserTranslated, Covers
    <3> QED BY <3>3, <3>4
  <2> DEFINE a == ParserTranslated(ip)
  <2>5. a \in Address
    BY <1>1, AddressLemma DEF Translated, Programs
  <2> HIDE DEF a
  <2>6. ip42long(a) = a /\ long2ip4(a) = a /\ a # Minus1
    BY <2>5, ConversionLemma, Minus1Lemma
  <2>7. AgentAnonymized(a) = ParserAnonymized(a)
    <3>1. CASE ParserConfig.anonymizenet = Minus1
      <4>1. ParserConfig.anonymizenetmask \in Address
        BY <2>1, MaskLemma DEF ParserConfig, TypeOK, Settings
      <4>2. a \cap ParserConfig.anonymizenetmask # Minus1
        BY <2>5, <4>1, Minus1Lemma DEF Address
      <4> QED BY <2>2, <2>6, <3>1, <4>2 DEF AgentAnonymized, ParserAnonymized
    <3>2. CASE ParserConfig.anonymizenet # Minus1
      <4>1. settings.anonymizeip # EmptyText
        BY <3>2, AddressAssumption DEF ParserConfig, ip42long
      <4>2. /\ AgentConfig.anonymizenetmask = ParserConfig.anonymizenetmask
            /\ AgentConfig.anonymizemask = ParserConfig.anonymizemask
        BY <4>1 DEF AgentConfig, ParserConfig
      <4>3. ParserConfig.anonymizenetmask # Minus1
        BY <2>1, MaskLemma DEF ParserConfig, TypeOK, Settings
      <4>4. CASE ParserConfig.anonymizemask = Minus1
        <5>1. a \cap ParserConfig.anonymizemask = a
          BY <2>5, <4>4, Minus1Lemma
        <5> QED BY <2>6, <4>2, <4>4, <5>1 DEF AgentAnonymized, ParserAnonymized
      <4>5. CASE ParserConfig.anonymizemask # Minus1
        BY <1>1, <2>2, <2>6, <3>2, <4>2, <4>3, <4>5
        DEF AgentAnonymized, ParserAnonymized, Truthy
      <4> QED BY <4>4, <4>5
    <3> QED BY <3>1, <3>2
  <2> QED BY <2>4, <2>7 DEF Translated, Anonymized, a
<1>2. TransformInv => ProgramsAgree
  BY <1>1 DEF TransformInv, Progress, ProgramsAgree, Programs
<1> QED BY <1>2, TransformInvariant, PTL

\* Without networks in the settings, addresses of any width stay as they are, in
\* the parsers because no address is all bits and the sign.
THEOREM UnsetAddressesStay == Spec => []UnsetLeavesAlone
<1>1. ASSUME TransformInv, NEW p \in Programs, ip \in Address,
             settings.honeypotip = EmptyText, settings.anonymizeip = EmptyText
      PROVE  Anonymized(p, Translated(p, ip)) = ip
  <2>1. ip42long(EmptyText) = Minus1
    BY AddressAssumption DEF ip42long
  <2>2. ip42long(ip) = ip /\ long2ip4(ip) = ip /\ ip # Minus1
    BY <1>1, ConversionLemma, Minus1Lemma
  <2>3. \A n \in 0..Width : ip \cap mask42long(n) # Minus1
    BY <1>1, Minus1Lemma DEF Address
  <2>4. settings.honeypotlength \in 0..Width /\ settings.anonymizelength \in 0..Width
    BY <1>1 DEF TransformInv, TypeOK, Settings
  <2>5. CASE p = "agent"
    <3>1. AgentConfig.honeypotnet = Minus1 /\ AgentConfig.anonymizenet = Minus1
      BY <1>1, <2>1 DEF AgentConfig
    <3>2. AgentTranslated(ip) = ip
      BY <3>1 DEF AgentTranslated
    <3>3. AgentAnonymized(ip) = ip
      BY <3>1 DEF AgentAnonymized
    <3> QED BY <2>5, <3>2, <3>3 DEF Translated, Anonymized
  <2>6. CASE p = "parser"
    <3>1. /\ ParserConfig.honeypotnet = Minus1
          /\ ParserConfig.anonymizenet = Minus1
          /\ ip \cap ParserConfig.honeypotmask # Minus1
          /\ ip \cap ParserConfig.anonymizenetmask # Minus1
      BY <1>1, <2>1, <2>3, <2>4 DEF ParserConfig
    <3>2. ParserTranslated(ip) = ip
      BY <2>2, <3>1 DEF ParserTranslated
    <3>3. ParserAnonymized(ip) = ip
      BY <2>2, <3>1 DEF ParserAnonymized
    <3> QED BY <2>6, <3>2, <3>3 DEF Translated, Anonymized
  <2> QED BY <2>5, <2>6 DEF Programs
<1>2. TransformInv => UnsetLeavesAlone
  BY <1>1 DEF TransformInv, Progress, UnsetLeavesAlone
<1> QED BY <1>2, TransformInvariant, PTL
=============================================================================
