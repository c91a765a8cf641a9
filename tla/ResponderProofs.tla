--------------------------- MODULE ResponderProofs ---------------------------
(***************************************************************************)
(* The request handlers for any number of them, any lists of signatures    *)
(* and any updates: what has been read is recorded, handlers that share a  *)
(* dictionary of headers do not disturb each other, and a request is       *)
(* answered for the first best signature, which the rule checker names.    *)
(*                                                                         *)
(* The invariant says of each handler which dictionary it uses and what    *)
(* must be in it by now; that others write to it does not matter, because  *)
(* they only put back what is there.  A second one says how far the loops  *)
(* over signatures and rules are and what they have found.                 *)
(***************************************************************************)
EXTENDS Responder, FiniteSetTheorems, WellFoundedInduction, TLAPS

\* A handler uses a dictionary of its own, or the one of its response.
OwnOrShared(h) ==
    \/ reply[h].dict = h
    \/ reply[h].dict \in Generations \X {reply[h].response_id}

\* Before responder has found the response there is nothing to send.
NotYet(h) ==
    stage[h] \in {"idle", "read", "score", "respond"} => reply[h].dict = h

\* What responder has written is in the dictionary.
Written(h) ==
    /\ stage[h] = "length" => "Content-Type" \in headers[reply[h].dict]
    /\ stage[h] \in {"iterate", "headers", "body"} =>
          /\ headers[reply[h].dict] = Keys
          /\ content_length[reply[h].dict] = reply[h].response_id

\* What has been sent.
Sent(h) ==
    /\ stage[h] \notin {"headers", "body", "log"} =>
          reply[h].keys = {} /\ reply[h].body = NoBody
    /\ stage[h] = "headers" =>
          /\ reply[h].size = Cardinality(Keys)
          /\ reply[h].body = NoBody
          /\ "Content-Length" \in reply[h].keys => reply[h].length = reply[h].response_id
    /\ stage[h] = "body" =>
          /\ reply[h].keys = Keys
          /\ reply[h].length = reply[h].response_id
          /\ reply[h].body = NoBody
    /\ reply[h].body # NoBody =>
          /\ reply[h].keys = Keys
          /\ reply[h].length = reply[h].response_id
          /\ reply[h].body = reply[h].response_id

\* The best signature is one of the list.
Scanned(h) == scan[h].best_signature <= Len(signatures)

HandlerInv(h) ==
    OwnOrShared(h) /\ NotYet(h) /\ Written(h) /\ Sent(h) /\ Scanned(h)

\* The length in a response's dictionary is always that of the response's body.
SharedLength ==
    \A g \in Generations, i \in Ids :
        "Content-Length" \in headers[<<g, i>>] => content_length[<<g, i>>] = i

ResponderInv == TypeOK /\ SharedLength /\ \A h \in Handlers : HandlerInv(h)

-----------------------------------------------------------------------------

\* The size of a dictionary.
LEMMA KeysLemma ==
    /\ Cardinality(Keys) \in Nat
    /\ \A S \in SUBSET Keys : Cardinality(S) \in 0..Cardinality(Keys)
<1>1. IsFiniteSet({"Content-Type"})
  BY FS_Singleton
<1>2. IsFiniteSet({"Content-Type"} \cup {"Content-Length"})
  BY <1>1, FS_AddElement
<1>3. {"Content-Type"} \cup {"Content-Length"} = Keys
  BY DEF Keys
<1>4. IsFiniteSet(Keys)
  BY <1>2, <1>3
<1>5. Cardinality(Keys) \in Nat
  BY <1>4, FS_CardinalityType
<1>6. ASSUME NEW S \in SUBSET Keys
      PROVE  Cardinality(S) \in 0..Cardinality(Keys)
  <2>1. IsFiniteSet(S) /\ Cardinality(S) <= Cardinality(Keys)
    BY <1>4, FS_Subset
  <2>2. Cardinality(S) \in Nat
    BY <2>1, FS_CardinalityType
  <2> QED BY <1>5, <2>1, <2>2
<1> QED BY <1>5, <1>6

\* What is known of the list of signatures.
LEMMA ListLemma ==
    ASSUME TypeOK, NEW i \in Nat \ {0}, i <= Len(signatures)
    PROVE  /\ Len(signatures) \in Nat
           /\ i \in DOMAIN signatures
           /\ signatures[i].min_score \in Int
           /\ signatures[i].max_score \in Int
           /\ signatures[i].responses \subseteq Ids
           /\ Len(signatures[i].rules) \in Nat
           /\ \A k \in Nat \ {0} : k <= Len(signatures[i].rules) =>
                 k \in DOMAIN signatures[i].rules /\ signatures[i].rules[k].score \in Int
<1>1. signatures \in SignatureLists
  BY DEF TypeOK
<1>2. Len(signatures) \in Nat /\ signatures = [j \in 1..Len(signatures) |-> signatures[j]]
  BY <1>1, SignatureAssumption
<1>3. i \in DOMAIN signatures /\ i \in 1..Len(signatures)
  BY <1>2
<1>4. SignatureType(signatures[i])
  BY <1>1, <1>3, SignatureAssumption
<1> DEFINE Rules == [condition : Conditions, attribute : Attributes,
                     name : {NoName} \cup STRING, capital : BOOLEAN,
                     text : SUBSET (STRING \cup {Unbalanced}), score : Int]
<1>5. signatures[i].rules \in Seq(Rules)
  BY <1>4 DEF SignatureType
<1>6. \A r \in Rules : r.score \in Int
  OBVIOUS
<1> HIDE DEF Rules
<1>7. ASSUME NEW k \in Nat \ {0}, k <= Len(signatures[i].rules)
      PROVE  k \in DOMAIN signatures[i].rules /\ signatures[i].rules[k].score \in Int
  <2>1. k \in DOMAIN signatures[i].rules /\ signatures[i].rules[k] \in Rules
    BY <1>5, <1>7
  <2> QED BY <1>6, <2>1
<1>8. /\ signatures[i].min_score \in Int /\ signatures[i].max_score \in Int
      /\ signatures[i].responses \subseteq Ids
      /\ Len(signatures[i].rules) \in Nat
  BY <1>4, <1>5 DEF SignatureType
<1> QED BY <1>2, <1>3, <1>7, <1>8

\* A dictionary that a handler uses is one of those there are.
LEMMA DictLemma ==
    ASSUME ResponderInv, NEW h \in Handlers
    PROVE  /\ reply[h] \in ReplyType
           /\ scan[h] \in ScanType
           /\ reply[h].dict \in Dicts
           /\ headers[reply[h].dict] \in SUBSET Keys
           /\ h \in Dicts
           /\ \A g \in Generations, i \in Ids : <<g, i>> \in Dicts /\ <<g, i>> \notin Handlers
           /\ \A g \in Handlers \ {h} : reply[g].dict # h
<1>1. reply[h] \in ReplyType /\ scan[h] \in ScanType
  BY DEF ResponderInv, TypeOK
<1>2. reply[h].dict \in Dicts /\ h \in Dicts
  BY <1>1 DEF ReplyType, Dicts
<1>3. headers[reply[h].dict] \in SUBSET Keys
  BY <1>2 DEF ResponderInv, TypeOK
<1>4. \A g \in Generations, i \in Ids : <<g, i>> \in Dicts /\ <<g, i>> \notin Handlers
  BY ResponderAssumption DEF Dicts
<1>5. ASSUME NEW g \in Handlers \ {h}
      PROVE  reply[g].dict # h
  <2>1. reply[g].response_id \in Ids /\ OwnOrShared(g)
    BY DEF ResponderInv, HandlerInv, TypeOK, ReplyType
  <2> QED BY <2>1, ResponderAssumption DEF OwnOrShared
<1> QED BY <1>1, <1>2, <1>3, <1>4, <1>5

\* A handler is not disturbed by what only adds keys to its dictionary, and leaves
\* it alone if it is its own.
LEMMA Undisturbed ==
    ASSUME ResponderInv, TypeOK', SharedLength', NEW h \in Handlers,
           signatures' = signatures, scan'[h] = scan[h],
           reply'[h] = reply[h], stage'[h] = stage[h],
           headers[reply[h].dict] \subseteq headers'[reply[h].dict],
           reply[h].dict = h => content_length'[h] = content_length[h]
    PROVE  HandlerInv(h)'
<1>1. HandlerInv(h) /\ reply[h] \in ReplyType /\ reply[h].dict \in Dicts
  BY DictLemma DEF ResponderInv
<1>2. OwnOrShared(h)' /\ NotYet(h)' /\ Sent(h)' /\ Scanned(h)'
  BY <1>1 DEF HandlerInv, OwnOrShared, NotYet, Sent, Scanned
<1>3. headers'[reply[h].dict] \in SUBSET Keys
  BY <1>1 DEF TypeOK
<1>4. ASSUME stage[h] \in {"iterate", "headers", "body"}
      PROVE  headers'[reply[h].dict] = Keys
             /\ content_length'[reply[h].dict] = reply[h].response_id
  <2>1. headers'[reply[h].dict] = Keys /\ content_length[reply[h].dict] = reply[h].response_id
    BY <1>1, <1>3, <1>4 DEF HandlerInv, Written
  <2>2. CASE reply[h].dict = h
    BY <2>1, <2>2
  <2>3. CASE reply[h].dict # h
    <3>1. reply[h].response_id \in Ids
      BY <1>1 DEF ReplyType
    <3>2. PICK g \in Generations : reply[h].dict = <<g, reply[h].response_id>>
      BY <1>1, <2>3 DEF HandlerInv, OwnOrShared
    <3> QED BY <2>1, <3>1, <3>2 DEF SharedLength, Keys
  <2> QED BY <2>1, <2>2, <2>3
<1>5. Written(h)'
  BY <1>1, <1>4 DEF HandlerInv, Written
<1> QED BY <1>2, <1>5 DEF HandlerInv

\* A step of one handler that leaves all dictionaries alone.
LEMMA LocalStep ==
    ASSUME ResponderInv, NEW h \in Handlers, UNCHANGED <<signatures, dicts>>,
           NEW label \in Stages, Enter(h, label),
           scan' \in [Handlers -> ScanType], reply' \in [Handlers -> ReplyType],
           \A g \in Handlers \ {h} : scan'[g] = scan[g] /\ reply'[g] = reply[g],
           HandlerInv(h)'
    PROVE  ResponderInv'
<1>1. TypeOK'
  BY DEF ResponderInv, TypeOK, dicts, Enter
<1>2. SharedLength'
  BY DEF ResponderInv, SharedLength, dicts
<1>3. ASSUME NEW g \in Handlers \ {h}
      PROVE  HandlerInv(g)'
  <2>1. stage'[g] = stage[g]
    BY DEF ResponderInv, TypeOK, Enter
  <2> QED BY <1>1, <1>2, <2>1, Undisturbed DEF dicts
<1> QED BY <1>1, <1>2, <1>3 DEF ResponderInv

\* A step of one handler that goes no further than its locals in the loops.
LEMMA ScanStep ==
    ASSUME ResponderInv, NEW h \in Handlers, UNCHANGED <<signatures, dicts, reply>>,
           NEW label \in {"read", "score"}, Enter(h, label),
           stage[h] \in {"idle", "read", "score"},
           scan' \in [Handlers -> ScanType],
           \A g \in Handlers \ {h} : scan'[g] = scan[g],
           scan'[h].best_signature <= Len(signatures)
    PROVE  ResponderInv'
<1>1. stage'[h] = label
  BY DEF ResponderInv, TypeOK, Enter
<1>2. HandlerInv(h)'
  BY <1>1 DEF ResponderInv, HandlerInv, OwnOrShared, NotYet, Written, Sent, Scanned
<1>3. reply' \in [Handlers -> ReplyType]
  BY DEF ResponderInv, TypeOK
<1> QED BY <1>2, <1>3, LocalStep DEF Stages

\* The locals with which a thread starts.
LEMMA FreshLocals ==
    /\ \A r \in Requests : NoScan(r) \in ScanType /\ NoScan(r).best_signature = 0
    /\ AnyRequest \in Requests
    /\ \A h \in Handlers : /\ NoReply(h) \in ReplyType
                           /\ NoReply(h).dict = h
                           /\ NoReply(h).keys = {}
                           /\ NoReply(h).body = NoBody
<1>1. AnyRequest \in Requests
  BY ResponderAssumption DEF AnyRequest
<1> QED BY <1>1, KeysLemma, ResponderAssumption
        DEF NoScan, ScanType, NoReply, ReplyType, Dicts

\* The end of a thread.
LEMMA Ending ==
    ASSUME ResponderInv, NEW h \in Handlers, UNCHANGED <<signatures, dicts>>, End(h)
    PROVE  ResponderInv'
<1>1. /\ scan' \in [Handlers -> ScanType] /\ reply' \in [Handlers -> ReplyType]
      /\ scan'[h] = NoScan(AnyRequest) /\ reply'[h] = NoReply(h)
      /\ \A g \in Handlers \ {h} : scan'[g] = scan[g] /\ reply'[g] = reply[g]
  BY FreshLocals DEF ResponderInv, TypeOK, End
<1>2. stage'[h] = "idle"
  BY DEF ResponderInv, TypeOK, End, Enter
<1>3. signatures' = signatures /\ Len(signatures) \in Nat
  BY SignatureAssumption DEF ResponderInv, TypeOK
<1>4. HandlerInv(h)'
  BY <1>1, <1>2, <1>3, FreshLocals
  DEF HandlerInv, OwnOrShared, NotYet, Written, Sent, Scanned
<1> QED BY <1>1, <1>4, LocalStep DEF End, Stages

\* ResponderInv holds initially.
LEMMA ResponderInit == Init => ResponderInv
<1> SUFFICES ASSUME Init PROVE ResponderInv
  OBVIOUS
<1>1. TypeOK
  BY FreshLocals DEF Init, TypeOK, Stages
<1>2. SharedLength
  BY ResponderAssumption DEF Init, SharedLength, Dicts
<1>3. Len(signatures) \in Nat
  BY SignatureAssumption DEF Init
<1>4. \A h \in Handlers : HandlerInv(h)
  BY <1>3, FreshLocals
  DEF Init, HandlerInv, OwnOrShared, NotYet, Written, Sent, Scanned
<1> QED BY <1>1, <1>2, <1>4 DEF ResponderInv

\* An update takes a generation that no handler uses.
LEMMA Updating == ASSUME ResponderInv, Update PROVE ResponderInv'
<1>1. PICK g \in Generations \ InUse :
        /\ generation' = g
        /\ headers' = [d \in Dicts |-> IF d \in Handlers \/ d[1] # g
                                      THEN headers[d] ELSE {}]
        /\ content_length' = [d \in Dicts |-> IF d \in Handlers \/ d[1] # g
                                             THEN content_length[d] ELSE NoBody]
  BY DEF Update
<1>2. UNCHANGED <<signatures, stage, scan, reply>>
  BY DEF Update
<1>3. TypeOK'
  BY <1>1, <1>2 DEF ResponderInv, TypeOK
<1>4. SharedLength'
  <2>1. ASSUME NEW f \in Generations, NEW i \in Ids,
               "Content-Length" \in headers'[<<f, i>>]
        PROVE  content_length'[<<f, i>>] = i
    <3>1. <<f, i>> \in Dicts /\ <<f, i>> \notin Handlers
      BY ResponderAssumption DEF Dicts
    <3>2. <<f, i>>[1] # g
      BY <1>1, <2>1, <3>1
    <3> QED BY <1>1, <2>1, <3>1, <3>2 DEF ResponderInv, SharedLength
  <2> QED BY <2>1 DEF SharedLength
<1>5. ASSUME NEW h \in Handlers
      PROVE  /\ headers'[reply[h].dict] = headers[reply[h].dict]
             /\ content_length'[reply[h].dict] = content_length[reply[h].dict]
  <2>1. reply[h].dict \in Dicts /\ OwnOrShared(h)
    BY DictLemma DEF ResponderInv, HandlerInv
  <2>2. reply[h].dict \in Handlers \/ reply[h].dict[1] # g
    BY <1>1, <2>1 DEF OwnOrShared, InUse
  <2> QED BY <1>1, <2>1, <2>2
<1>6. \A h \in Handlers : HandlerInv(h)'
  BY <1>2, <1>3, <1>4, <1>5, Undisturbed
<1> QED BY <1>3, <1>4, <1>6 DEF ResponderInv

\* The steps up to the choice of a response.
LEMMA ChoosingStep ==
    ASSUME ResponderInv, NEW h \in Handlers, Choosing(h)
    PROVE  ResponderInv'
<1>1. scan[h] \in ScanType /\ Scanned(h) /\ Len(signatures) \in Nat
  BY DictLemma, SignatureAssumption DEF ResponderInv, HandlerInv, TypeOK
<1>2. CASE Accept(h)
  <2>1. PICK r \in Requests : scan' = [scan EXCEPT ![h] = NoScan(r)]
    BY <1>2 DEF Accept
  <2>2. /\ scan' \in [Handlers -> ScanType]
        /\ \A g \in Handlers \ {h} : scan'[g] = scan[g]
        /\ scan'[h].best_signature = 0
    BY <2>1, FreshLocals DEF ResponderInv, TypeOK
  <2> QED BY <1>1, <1>2, <2>2, ScanStep DEF Accept
<1>3. CASE ReadBody(h)
  <2>1. CASE Enter(h, "score") /\ UNCHANGED <<scan, reply>>
    <3>1. Enter(h, "score") /\ UNCHANGED <<signatures, dicts, scan, reply>>
      BY <1>3, <2>1 DEF ReadBody
    <3> QED BY <1>1, <1>3, <3>1, ScanStep DEF ReadBody, ResponderInv, TypeOK, Scanned
  <2>2. CASE End(h)
    BY <1>3, <2>2, Ending DEF ReadBody
  <2> QED BY <1>3, <2>1, <2>2 DEF ReadBody
<1>4. CASE ScoreRule(h)
  <2> DEFINE rule == Current(h).rules[scan[h].rule]
  <2>1. CASE CannotCompile(rule)
    BY <1>4, <2>1, Ending DEF ScoreRule
  <2>2. CASE ~CannotCompile(rule)
    <3>1. /\ scan' = [scan EXCEPT ![h].rule = @ + 1,
                         ![h].total_score = @ + Gain(RequestShim(scan[h].request), rule)]
          /\ UNCHANGED <<signatures, dicts, stage, reply>>
      BY <1>4, <2>2 DEF ScoreRule
    <3>2. rule.score \in Int
      BY <1>1, <1>4, ListLemma DEF ScoreRule, MoreRules, Current, ScanType, ResponderInv
    <3>3. Gain(RequestShim(scan[h].request), rule) \in Int
      BY <3>2 DEF Gain
    <3> DEFINE gain == Gain(RequestShim(scan[h].request), rule)
              next == [scan[h] EXCEPT !.rule = @ + 1, !.total_score = @ + gain]
    <3> HIDE DEF rule, gain
    <3>4. scan' = [scan EXCEPT ![h] = next] /\ scan \in [Handlers -> ScanType]
      BY <3>1 DEF ResponderInv, TypeOK, gain
    <3>5. next \in ScanType /\ next.best_signature = scan[h].best_signature
      <4>1. PICK s \in ScanType : s = scan[h]
        BY <1>1
      <4>2. PICK k \in Nat \ {0} : k = s.rule + 1
        BY <4>1 DEF ScanType
      <4>3. PICK t \in Int : t = s.total_score + gain
        BY <3>3, <4>1 DEF ScanType, gain
      <4>4. next = [s EXCEPT !.rule = k, !.total_score = t]
        BY <4>1, <4>2, <4>3
      <4> QED BY <4>1, <4>4 DEF ScanType
    <3> HIDE DEF next
    <3>6. /\ scan' \in [Handlers -> ScanType]
          /\ \A g \in Handlers \ {h} : scan'[g] = scan[g]
          /\ scan'[h].best_signature = scan[h].best_signature
      BY <3>4, <3>5
    <3>7. stage[h] = "score" /\ Enter(h, "score")
      BY <1>4, <3>1 DEF ScoreRule, Enter, ResponderInv, TypeOK
    <3> QED BY <1>1, <3>1, <3>6, <3>7, ScanStep DEF Scanned
  <2> QED BY <2>1, <2>2
<1>5. CASE EndSignature(h)
  <2> DEFINE score == Clamped(scan[h].total_score, Current(h))
             next  == [scan[h] EXCEPT !.signature = @ + 1, !.rule = 1, !.total_score = 0]
             best  == [next EXCEPT !.best_signature = scan[h].signature, !.best_score = score]
  <2>1. /\ \/ scan' = [scan EXCEPT ![h] = next]
           \/ scan' = [scan EXCEPT ![h] = best]
        /\ stage[h] = "score" /\ UNCHANGED <<signatures, dicts, stage, reply>>
    BY <1>5 DEF EndSignature
  <2>2. scan[h].signature \in Nat \ {0} /\ scan[h].signature <= Len(signatures)
    BY <1>1, <1>5 DEF EndSignature, ScanType
  <2>3. score \in Int
    BY <1>1, <2>2, ListLemma DEF Clamped, Current, ScanType, ResponderInv
  <2> HIDE DEF score
  <2>4. next \in ScanType /\ next.best_signature = scan[h].best_signature
    <3>1. PICK s \in ScanType : s = scan[h]
      BY <1>1
    <3>2. PICK k \in Nat \ {0} : k = s.signature + 1
      BY <3>1 DEF ScanType
    <3>3. PICK j \in Nat \ {0}, t \in Int : j = 1 /\ t = 0
      OBVIOUS
    <3>4. next = [s EXCEPT !.signature = k, !.rule = j, !.total_score = t]
      BY <3>1, <3>2, <3>3
    <3> HIDE DEF next
    <3>5. next \in ScanType
      BY <3>4 DEF ScanType
    <3>6. next.best_signature = s.best_signature
      BY <3>4 DEF ScanType
    <3> QED BY <3>1, <3>5, <3>6
  <2> HIDE DEF next
  <2>5. best \in ScanType /\ best.best_signature = scan[h].signature
    <3>1. PICK s \in ScanType : s = next
      BY <2>4
    <3>2. PICK k \in Nat \ {0} : k = scan[h].signature
      BY <2>2
    <3>3. best = [s EXCEPT !.best_signature = k, !.best_score = score]
      BY <3>1, <3>2
    <3> QED BY <2>3, <3>1, <3>2, <3>3 DEF ScanType
  <2> HIDE DEF best
  <2>6. /\ scan' \in [Handlers -> ScanType]
        /\ \A g \in Handlers \ {h} : scan'[g] = scan[g]
        /\ scan'[h].best_signature <= Len(signatures)
    BY <1>1, <2>1, <2>2, <2>4, <2>5 DEF ResponderInv, TypeOK, Scanned
  <2>7. Enter(h, "score")
    BY <2>1 DEF Enter, ResponderInv, TypeOK
  <2> QED BY <1>1, <2>1, <2>6, <2>7, ScanStep
<1>6. CASE ChooseResponse(h)
  <2> DEFINE matched == scan[h].best_signature # 0 /\ scan[h].best_score > 0
             choices == IF matched THEN signatures[scan[h].best_signature].responses
                                   ELSE {DefaultId}
  <2>1. choices \subseteq Ids
    BY <1>1, ListLemma, ResponderAssumption DEF Scanned, ScanType, ResponderInv
  <2>2. CASE choices = {}
    BY <1>6, <2>2, Ending DEF ChooseResponse
  <2>3. CASE choices # {}
    <3>1. PICK i \in choices : reply' = [reply EXCEPT ![h].response_id = i]
      BY <1>6, <2>3 DEF ChooseResponse
    <3>2. i \in Ids
      BY <2>1, <3>1
    <3>3. Enter(h, "respond") /\ UNCHANGED <<signatures, dicts, scan>> /\ stage[h] = "score"
      BY <1>6, <2>3 DEF ChooseResponse
    <3>4. /\ reply' \in [Handlers -> ReplyType]
          /\ \A g \in Handlers \ {h} : reply'[g] = reply[g]
          /\ reply'[h].dict = reply[h].dict /\ reply'[h].keys = reply[h].keys
          /\ reply'[h].body = reply[h].body
      BY <3>1, <3>2, DictLemma DEF ResponderInv, TypeOK, ReplyType
    <3>5. stage'[h] = "respond"
      BY <3>3 DEF ResponderInv, TypeOK, Enter
    <3>6. HandlerInv(h)'
      BY <3>3, <3>4, <3>5 DEF ResponderInv, HandlerInv, OwnOrShared, NotYet, Written,
                              Sent, Scanned
    <3> QED BY <3>3, <3>4, <3>6, LocalStep DEF ResponderInv, TypeOK, Stages
  <2> QED BY <2>2, <2>3
<1> QED BY <1>2, <1>3, <1>4, <1>5, <1>6 DEF Choosing

-----------------------------------------------------------------------------

\* A step of one handler that writes to a dictionary and leaves what the others
\* rely on.
LEMMA DictStep ==
    ASSUME ResponderInv, NEW h \in Handlers, UNCHANGED <<signatures, generation, scan>>,
           NEW label \in Stages, Enter(h, label),
           reply' \in [Handlers -> ReplyType],
           headers' \in [Dicts -> SUBSET Keys],
           content_length' \in [Dicts -> Ids \cup {NoBody}],
           SharedLength',
           \A g \in Handlers \ {h} :
               /\ reply'[g] = reply[g]
               /\ headers[reply[g].dict] \subseteq headers'[reply[g].dict]
               /\ reply[g].dict = g => content_length'[g] = content_length[g],
           HandlerInv(h)'
    PROVE  ResponderInv'
<1>1. TypeOK'
  BY DEF ResponderInv, TypeOK, Enter
<1>2. ASSUME NEW g \in Handlers \ {h}
      PROVE  HandlerInv(g)'
  <2>1. stage'[g] = stage[g]
    BY DEF ResponderInv, TypeOK, Enter
  <2> QED BY <1>1, <2>1, Undisturbed
<1> QED BY <1>1, <1>2 DEF ResponderInv

\* A step of one handler within responder that only changes what it has sent.
LEMMA SendStep ==
    ASSUME ResponderInv, NEW h \in Handlers, UNCHANGED <<signatures, dicts, scan>>,
           NEW label \in {"headers", "body", "log"}, Enter(h, label),
           NEW new \in ReplyType, reply' = [reply EXCEPT ![h] = new],
           new.dict = reply[h].dict, new.response_id = reply[h].response_id,
           stage[h] \in {"iterate", "headers", "body"},
           label # "log" => stage[h] # "body",
           Sent(h)'
    PROVE  ResponderInv'
<1>1. /\ reply' \in [Handlers -> ReplyType] /\ scan' \in [Handlers -> ScanType]
      /\ reply'[h] = new /\ stage'[h] = label
      /\ \A g \in Handlers \ {h} : reply'[g] = reply[g] /\ scan'[g] = scan[g]
  BY DEF ResponderInv, TypeOK, Enter
<1>2. HandlerInv(h)
  BY DEF ResponderInv
<1>3. OwnOrShared(h)' /\ NotYet(h)' /\ Scanned(h)'
  BY <1>1, <1>2 DEF HandlerInv, OwnOrShared, NotYet, Scanned, dicts
<1>4. Written(h)'
  BY <1>1, <1>2 DEF HandlerInv, Written, dicts
<1>5. HandlerInv(h)'
  BY <1>3, <1>4 DEF HandlerInv
<1> QED BY <1>1, <1>5, LocalStep DEF Stages

\* The response is looked up.
LEMMA LookingUp ==
    ASSUME ResponderInv, NEW h \in Handlers, LookUp(h) PROVE ResponderInv'
<1>1. reply[h] \in ReplyType /\ h \in Dicts /\ HandlerInv(h) /\ stage[h] = "respond"
  BY DictLemma DEF ResponderInv, LookUp
<1>2. UNCHANGED <<signatures, generation, scan>>
  BY DEF LookUp
<1>3. CASE reply[h].response_id \in Present[generation]
  <2> DEFINE d == DictOf(h, reply[h].response_id)
  <2>1. /\ Enter(h, "type")
        /\ reply' = [reply EXCEPT ![h].dict = d]
        /\ headers' = [headers EXCEPT ![h] = {}]
        /\ content_length' = [content_length EXCEPT ![h] = NoBody]
    BY <1>3 DEF LookUp
  <2>2. d \in Dicts /\ (d = h \/ d \in Generations \X {reply[h].response_id})
    BY <1>1 DEF DictOf, ReplyType, Dicts, ResponderInv, TypeOK
  <2> HIDE DEF d
  <2>3. /\ reply' \in [Handlers -> ReplyType]
        /\ reply'[h].dict = d /\ reply'[h].response_id = reply[h].response_id
        /\ reply'[h].keys = reply[h].keys /\ reply'[h].body = reply[h].body
        /\ \A g \in Handlers \ {h} : reply'[g] = reply[g]
    BY <1>1, <2>1, <2>2 DEF ResponderInv, TypeOK, ReplyType
  <2>4. headers' \in [Dicts -> SUBSET Keys] /\ content_length' \in [Dicts -> Ids \cup {NoBody}]
    BY <1>1, <2>1 DEF ResponderInv, TypeOK
  <2>5. \A e \in Dicts \ {h} : headers'[e] = headers[e] /\ content_length'[e] = content_length[e]
    BY <2>1 DEF ResponderInv, TypeOK
  <2>6. SharedLength'
    BY <2>5, DictLemma DEF ResponderInv, SharedLength
  <2>7. ASSUME NEW g \in Handlers \ {h}
        PROVE  /\ reply'[g] = reply[g]
               /\ headers[reply[g].dict] \subseteq headers'[reply[g].dict]
               /\ reply[g].dict = g => content_length'[g] = content_length[g]
    <3>1. reply[g].dict \in Dicts \ {h}
      BY DictLemma
    <3> QED BY <2>3, <2>5, <3>1
  <2>8. stage'[h] = "type"
    BY <2>1 DEF ResponderInv, TypeOK, Enter
  <2>9. HandlerInv(h)'
    BY <1>1, <1>2, <2>2, <2>3, <2>8
    DEF HandlerInv, OwnOrShared, NotYet, Written, Sent, Scanned
  <2> QED BY <1>2, <2>1, <2>3, <2>4, <2>6, <2>7, <2>9, DictStep DEF Stages
<1>4. CASE reply[h].response_id \notin Present[generation]
  <2>1. Enter(h, "log") /\ UNCHANGED <<dicts, reply>>
    BY <1>4 DEF LookUp, dicts
  <2>2. stage'[h] = "log"
    BY <2>1 DEF ResponderInv, TypeOK, Enter
  <2>3. HandlerInv(h)'
    BY <1>1, <1>2, <2>1, <2>2
    DEF HandlerInv, OwnOrShared, NotYet, Written, Sent, Scanned, dicts
  <2>4. scan' \in [Handlers -> ScanType] /\ reply' \in [Handlers -> ReplyType]
    BY <1>2, <2>1 DEF ResponderInv, TypeOK
  <2> QED BY <1>2, <2>1, <2>3, <2>4, LocalStep DEF Stages
<1> QED BY <1>3, <1>4

\* Content-Type is written.
LEMMA SettingType ==
    ASSUME ResponderInv, NEW h \in Handlers, SetType(h) PROVE ResponderInv'
<1> DEFINE d == reply[h].dict
<1>1. /\ reply[h] \in ReplyType /\ d \in Dicts /\ HandlerInv(h) /\ stage[h] = "type"
      /\ UNCHANGED <<signatures, generation, content_length, scan, reply>>
      /\ headers' = [headers EXCEPT ![d] = @ \cup {"Content-Type"}]
      /\ Enter(h, "length")
  BY DictLemma DEF ResponderInv, SetType
<1>2. /\ headers' \in [Dicts -> SUBSET Keys]
      /\ \A e \in Dicts : /\ headers[e] \subseteq headers'[e]
                          /\ "Content-Length" \in headers'[e] => "Content-Length" \in headers[e]
      /\ "Content-Type" \in headers'[d]
  BY <1>1 DEF ResponderInv, TypeOK, Keys
<1>3. SharedLength'
  BY <1>1, <1>2, DictLemma DEF ResponderInv, SharedLength
<1>4. \A g \in Handlers \ {h} :
          /\ reply'[g] = reply[g]
          /\ headers[reply[g].dict] \subseteq headers'[reply[g].dict]
          /\ content_length'[g] = content_length[g]
  BY <1>1, <1>2, DictLemma
<1>5. stage'[h] = "length"
  BY <1>1 DEF ResponderInv, TypeOK, Enter
<1>6. HandlerInv(h)'
  BY <1>1, <1>2, <1>5 DEF HandlerInv, OwnOrShared, NotYet, Written, Sent, Scanned
<1>7. reply' \in [Handlers -> ReplyType] /\ content_length' \in [Dicts -> Ids \cup {NoBody}]
  BY <1>1 DEF ResponderInv, TypeOK
<1> QED BY <1>1, <1>2, <1>3, <1>4, <1>6, <1>7, DictStep DEF Stages

\* Content-Length is written.
LEMMA SettingLength ==
    ASSUME ResponderInv, NEW h \in Handlers, SetLength(h) PROVE ResponderInv'
<1> DEFINE d == reply[h].dict
           id == reply[h].response_id
<1>1. /\ reply[h] \in ReplyType /\ d \in Dicts /\ id \in Ids
      /\ HandlerInv(h) /\ stage[h] = "length"
      /\ UNCHANGED <<signatures, generation, scan, reply>>
      /\ headers' = [headers EXCEPT ![d] = @ \cup {"Content-Length"}]
      /\ content_length' = [content_length EXCEPT ![d] = id]
      /\ Enter(h, "iterate")
  BY DictLemma DEF ResponderInv, SetLength, ReplyType
<1>2. /\ headers' \in [Dicts -> SUBSET Keys] /\ content_length' \in [Dicts -> Ids \cup {NoBody}]
      /\ \A e \in Dicts : headers[e] \subseteq headers'[e]
      /\ \A e \in Dicts \ {d} : headers'[e] = headers[e]
                                /\ content_length'[e] = content_length[e]
      /\ content_length'[d] = id
  BY <1>1 DEF ResponderInv, TypeOK, Keys
<1>3. headers'[d] = Keys
  BY <1>1 DEF ResponderInv, HandlerInv, Written, TypeOK, Keys
<1>4. d = h \/ d \in Generations \X {id}
  BY <1>1 DEF HandlerInv, OwnOrShared
<1>5. SharedLength'
  <2>1. ASSUME NEW g \in Generations, NEW i \in Ids,
               "Content-Length" \in headers'[<<g, i>>]
        PROVE  content_length'[<<g, i>>] = i
    <3>1. <<g, i>> \in Dicts /\ <<g, i>> # h
      BY DictLemma
    <3>2. CASE d = <<g, i>>
      BY <1>2, <1>4, <3>1, <3>2
    <3>3. CASE d # <<g, i>>
      BY <1>2, <2>1, <3>1, <3>3 DEF ResponderInv, SharedLength
    <3> QED BY <3>2, <3>3
  <2> QED BY <2>1 DEF SharedLength
<1>6. ASSUME NEW g \in Handlers \ {h}
      PROVE  /\ reply'[g] = reply[g]
             /\ headers[reply[g].dict] \subseteq headers'[reply[g].dict]
             /\ reply[g].dict = g => content_length'[g] = content_length[g]
  <2>1. reply[g].dict \in Dicts /\ g \in Dicts /\ d # g
    BY DictLemma
  <2> QED BY <1>1, <1>2, <2>1
<1>7. stage'[h] = "iterate"
  BY <1>1 DEF ResponderInv, TypeOK, Enter
<1>8. HandlerInv(h)'
  BY <1>1, <1>2, <1>3, <1>7 DEF HandlerInv, OwnOrShared, NotYet, Written, Sent, Scanned
<1>9. reply' \in [Handlers -> ReplyType]
  BY <1>1 DEF ResponderInv, TypeOK
<1> QED BY <1>1, <1>2, <1>5, <1>6, <1>8, <1>9, DictStep DEF Stages

\* A handler that iterates finds the dictionary as it was when it started.
LEMMA NotResized ==
    ASSUME ResponderInv, NEW h \in Handlers, stage[h] = "headers"
    PROVE  ~Resized(h) /\ headers[reply[h].dict] = Keys
           /\ content_length[reply[h].dict] = reply[h].response_id
  BY DEF ResponderInv, HandlerInv, Written, Sent, Resized

\* The steps of responder that send something, and its failure.
LEMMA Sending ==
    ASSUME ResponderInv, NEW h \in Handlers,
           Iterate(h) \/ SendHeader(h) \/ EndHeaders(h) \/ SendBody(h) \/ SendFails(h)
    PROVE  ResponderInv'
<1>1. PICK r \in ReplyType : r = reply[h]
  BY DictLemma
<1>2. HandlerInv(h) /\ reply \in [Handlers -> ReplyType] /\ stage \in [Handlers -> Stages]
  BY DEF ResponderInv, TypeOK
<1>3. reply = [reply EXCEPT ![h] = r]
  BY <1>1, <1>2
<1>4. CASE Iterate(h)
  <2>1. /\ stage[h] = "iterate" /\ Enter(h, "headers") /\ UNCHANGED <<signatures, dicts, scan>>
        /\ reply' = [reply EXCEPT ![h].size = Cardinality(headers[reply[h].dict])]
    BY <1>4 DEF Iterate
  <2>2. PICK n \in 0..Cardinality(Keys) : n = Cardinality(Keys)
    BY KeysLemma
  <2>3. Cardinality(headers[reply[h].dict]) = n
    BY <1>2, <2>1, <2>2 DEF HandlerInv, Written
  <2> DEFINE new == [r EXCEPT !.size = n]
  <2>4. reply' = [reply EXCEPT ![h] = new]
    BY <1>1, <1>2, <2>1, <2>3
  <2>5. /\ new \in ReplyType /\ new.dict = r.dict /\ new.response_id = r.response_id
        /\ new.size = n /\ new.keys = r.keys /\ new.body = r.body
    BY DEF ReplyType
  <2> HIDE DEF new
  <2>6. reply'[h] = new /\ stage'[h] = "headers"
    BY <1>2, <2>1, <2>4 DEF Enter
  <2>7. Sent(h)'
    BY <1>1, <1>2, <2>1, <2>2, <2>5, <2>6 DEF HandlerInv, Sent
  <2> QED BY <1>1, <2>1, <2>4, <2>5, <2>7, SendStep
<1>5. CASE SendHeader(h)
  <2>1. stage[h] = "headers" /\ UNCHANGED <<signatures, dicts, stage, scan>>
    BY <1>5, NotResized DEF SendHeader
  <2>2. PICK key \in Keys :
          reply' = [reply EXCEPT
                      ![h].keys = @ \cup {key},
                      ![h].length = IF key = "Content-Length"
                                    THEN content_length[reply[h].dict] ELSE @]
    BY <1>5, <2>1, NotResized DEF SendHeader
  <2>3. PICK keys \in SUBSET Keys : keys = r.keys \cup {key}
    BY DEF ReplyType
  <2>4. PICK length \in Ids \cup {NoBody} :
          length = IF key = "Content-Length" THEN r.response_id ELSE r.length
    BY DEF ReplyType
  <2> DEFINE new == [r EXCEPT !.keys = keys, !.length = length]
  <2>5. content_length[reply[h].dict] = r.response_id
    BY <1>1, <2>1, NotResized
  <2>6. reply' = [reply EXCEPT ![h] = new]
    BY <1>1, <1>2, <2>2, <2>3, <2>4, <2>5
  <2>7. new \in ReplyType
    BY DEF ReplyType
  <2>8. /\ new.dict = r.dict /\ new.response_id = r.response_id /\ new.size = r.size
        /\ new.keys = keys /\ new.length = length /\ new.body = r.body
    BY DEF ReplyType
  <2> HIDE DEF new
  <2>9. reply'[h] = new /\ stage'[h] = "headers" /\ Enter(h, "headers")
    BY <1>2, <2>1, <2>6 DEF Enter
  <2>10. Sent(h)'
    BY <1>1, <1>2, <2>1, <2>3, <2>4, <2>8, <2>9 DEF HandlerInv, Sent
  <2> QED BY <1>1, <2>1, <2>6, <2>7, <2>8, <2>9, <2>10, SendStep
<1>6. CASE EndHeaders(h)
  <2>1. /\ stage[h] = "headers" /\ Enter(h, "body") /\ UNCHANGED <<signatures, dicts, scan, reply>>
        /\ reply[h].keys = Keys
    BY <1>1, <1>6, NotResized DEF EndHeaders, ReplyType
  <2>2. stage'[h] = "body"
    BY <1>2, <2>1 DEF Enter
  <2>3. Sent(h)'
    BY <1>2, <2>1, <2>2 DEF HandlerInv, Sent, Keys
  <2> QED BY <1>1, <1>3, <2>1, <2>3, SendStep
<1>7. CASE SendBody(h)
  <2>1. /\ stage[h] = "body" /\ Enter(h, "log") /\ UNCHANGED <<signatures, dicts, scan>>
        /\ reply' = [reply EXCEPT ![h].body = reply[h].response_id]
    BY <1>7 DEF SendBody
  <2>2. PICK i \in Ids : i = r.response_id
    BY DEF ReplyType
  <2> DEFINE new == [r EXCEPT !.body = i]
  <2>3. reply' = [reply EXCEPT ![h] = new]
    BY <1>1, <1>2, <2>1, <2>2
  <2>4. /\ new \in ReplyType /\ new.dict = r.dict /\ new.response_id = r.response_id
        /\ new.keys = r.keys /\ new.length = r.length /\ new.body = i
    BY DEF ReplyType
  <2> HIDE DEF new
  <2>5. reply'[h] = new /\ stage'[h] = "log"
    BY <1>2, <2>1, <2>3 DEF Enter
  <2>6. Sent(h)'
    BY <1>1, <1>2, <2>1, <2>2, <2>4, <2>5 DEF HandlerInv, Sent
  <2> QED BY <1>1, <2>1, <2>3, <2>4, <2>6, SendStep
<1>8. CASE SendFails(h)
  <2>1. stage[h] = "body" /\ Enter(h, "log") /\ UNCHANGED <<signatures, dicts, scan, reply>>
    BY <1>8 DEF SendFails
  <2>2. stage'[h] = "log"
    BY <1>2, <2>1 DEF Enter
  <2>3. Sent(h)'
    BY <1>2, <2>1, <2>2 DEF HandlerInv, Sent
  <2> QED BY <1>1, <1>3, <2>1, <2>3, SendStep
<1> QED BY <1>4, <1>5, <1>6, <1>7, <1>8

\* All steps of responder.
LEMMA RespondingStep ==
    ASSUME ResponderInv, NEW h \in Handlers, Responding(h) PROVE ResponderInv'
<1>1. CASE AddToQueue(h)
  BY <1>1, Ending DEF AddToQueue
<1> QED BY <1>1, LookingUp, SettingType, SettingLength, Sending DEF Responding

\* ResponderInv is inductive.
LEMMA ResponderStep == ResponderInv /\ [Next]_vars => ResponderInv'
<1> SUFFICES ASSUME ResponderInv, [Next]_vars PROVE ResponderInv'
  OBVIOUS
<1>1. CASE UNCHANGED vars
  BY <1>1 DEF ResponderInv, TypeOK, SharedLength, HandlerInv, OwnOrShared, NotYet, Written,
              Sent, Scanned, vars, dicts
<1>2. CASE Update
  BY <1>2, Updating
<1>3. CASE \E h \in Handlers : Choosing(h) \/ Responding(h)
  BY <1>3, ChoosingStep, RespondingStep
<1> QED BY <1>1, <1>2, <1>3 DEF Next

\* A thread ends only where it should.
LEMMA EndsRecorded ==
    ASSUME ResponderInv, Next, NEW h \in Handlers,
           stage[h] \notin {"idle", "read"}, stage'[h] = "idle"
    PROVE  stage[h] = "log" \/ Broken(signatures)
<1> SUFFICES ASSUME stage[h] # "log" PROVE Broken(signatures)
  OBVIOUS
<1>1. stage \in [Handlers -> Stages] /\ scan[h] \in ScanType /\ Scanned(h)
  BY DictLemma DEF ResponderInv, TypeOK, HandlerInv
<1>2. stage' # stage
  OBVIOUS
<1>3. PICK g \in Handlers : Choosing(g) \/ Responding(g)
  BY <1>2 DEF Next, Update
<1>4. \A label : Enter(g, label) => g = h /\ label = "idle"
  BY <1>1 DEF Enter
<1>5. CASE ReadBody(g)
  <2>1. g = h
    BY <1>4, <1>5 DEF ReadBody, End
  <2> QED BY <1>5, <2>1 DEF ReadBody
<1>6. CASE ScoreRule(g)
  <2> DEFINE i == scan[h].signature
             k == scan[h].rule
  <2>1. g = h /\ MoreRules(h) /\ CannotCompile(signatures[i].rules[k])
    BY <1>2, <1>4, <1>6 DEF ScoreRule, End, Current
  <2>2. i \in DOMAIN signatures /\ k \in DOMAIN signatures[i].rules
    BY <1>1, <2>1, ListLemma DEF ResponderInv, MoreRules, Current, ScanType
  <2> QED BY <2>1, <2>2 DEF Broken
<1>7. CASE ChooseResponse(g)
  <2> DEFINE i == scan[h].best_signature
  <2>1. g = h /\ i # 0 /\ signatures[i].responses = {}
    BY <1>2, <1>4, <1>7 DEF ChooseResponse, End
  <2>2. i \in DOMAIN signatures
    BY <1>1, <2>1, ListLemma DEF ResponderInv, Scanned, ScanType
  <2> QED BY <2>1, <2>2 DEF Broken
<1>8. CASE AddToQueue(g)
  BY <1>4, <1>8 DEF AddToQueue, End
<1>9. CASE Accept(g) \/ EndSignature(g)
  BY <1>2, <1>4, <1>9 DEF Accept, EndSignature
<1>10. CASE LookUp(g) \/ SetType(g) \/ SetLength(g) \/ Iterate(g)
  BY <1>4, <1>10 DEF LookUp, SetType, SetLength, Iterate
<1>11. CASE SendHeader(g) \/ EndHeaders(g) \/ SendBody(g) \/ SendFails(g)
  BY <1>2, <1>4, <1>11 DEF SendHeader, EndHeaders, SendBody, SendFails
<1> QED BY <1>3, <1>5, <1>6, <1>7, <1>8, <1>9, <1>10, <1>11 DEF Choosing, Responding

-----------------------------------------------------------------------------

\* The invariant holds in every reachable state.
THEOREM ResponderInvariant == Spec => []ResponderInv
<1>1. Init => ResponderInv
  BY ResponderInit
<1>2. ResponderInv /\ [Next]_vars => ResponderInv'
  BY ResponderStep
<1> QED BY <1>1, <1>2, PTL DEF Spec

\* The variables of handle_request and responder keep their types.
THEOREM ResponderTypes == Spec => []TypeOK
<1>1. ResponderInv => TypeOK
  BY DEF ResponderInv
<1> QED BY <1>1, ResponderInvariant, PTL

\* headers.items() never meets a dictionary that another handler has made larger.
THEOREM UndisturbedIteration == Spec => []IteratesUndisturbed
<1>1. ResponderInv => IteratesUndisturbed
  BY NotResized DEF IteratesUndisturbed
<1> QED BY <1>1, ResponderInvariant, PTL

\* Every body goes out with its own Content-Length, although handlers share the
\* dictionary that it is written to.
THEOREM LengthsAreHonest == Spec => []LengthIsOfBody
<1>1. ResponderInv => LengthIsOfBody
  BY DEF ResponderInv, HandlerInv, Sent, LengthIsOfBody
<1> QED BY <1>1, ResponderInvariant, PTL

\* handle_request records every request whose body it has read, unless the
\* signatures are broken.
THEOREM EveryRequestRecorded == Spec => RecordedUnlessBroken
<1>1. ResponderInv /\ [Next]_vars =>
        [\A h \in Handlers :
            stage[h] \notin {"idle", "read"} /\ stage'[h] = "idle" =>
               stage[h] = "log" \/ Broken(signatures)]_vars
  BY EndsRecorded
<1> QED BY <1>1, ResponderInvariant, PTL DEF Spec, RecordedUnlessBroken

-----------------------------------------------------------------------------
(* The sum of what the rules of a signature are worth.                     *)

\* A set that has 0, and with a number the next one, has all numbers.
LEMMA Induction ==
    ASSUME NEW S, 0 \in S, \A n \in Nat : n \in S => n + 1 \in S
    PROVE  Nat \subseteq S
<1> DEFINE Missing == Nat \ S
           Less    == {ss \in Nat \X Nat : ss[1] < ss[2]}
<1> SUFFICES ASSUME Missing # {} PROVE FALSE
  OBVIOUS
<1>1. IsWellFoundedOn(Less, Nat)
  BY NatLessThanWellFounded DEF OpToRel
<1>2. Missing \subseteq Nat
  OBVIOUS
<1>3. PICK m \in Missing : \A k \in Missing : <<k, m>> \notin Less
  <2> HIDE DEF Missing, Less
  <2> QED BY <1>1, <1>2, WFMin
<1>4. m \in Nat /\ m # 0 /\ m - 1 \in Nat /\ (m - 1) + 1 = m
  OBVIOUS
<1>5. <<m - 1, m>> \in Less
  BY <1>4
<1>6. m - 1 \notin Missing
  BY <1>3, <1>5
<1> QED BY <1>4, <1>6

\* The function that Total defines.
Sums(req, signature) ==
    CHOOSE sum : sum = [n \in 0..Len(signature.rules) |->
                           IF n = 0 THEN 0
                           ELSE sum[n - 1] + Gain(req, signature.rules[n])]

\* There is such a function.
LEMMA SumExists ==
    ASSUME NEW N \in Nat, NEW gain
    PROVE  \E sum : sum = [n \in 0..N |-> IF n = 0 THEN 0 ELSE sum[n - 1] + gain[n]]
<1> DEFINE Is(f, m) == f = [n \in 0..m |-> IF n = 0 THEN 0 ELSE f[n - 1] + gain[n]]
           S == {m \in Nat : \E f : Is(f, m)}
<1>1. 0 \in S
  <2> DEFINE f == [n \in 0..0 |-> 0]
  <2>1. Is(f, 0)
    OBVIOUS
  <2> QED BY <2>1
<1>2. ASSUME NEW m \in Nat, m \in S PROVE m + 1 \in S
  <2>1. PICK f : Is(f, m)
    BY <1>2
  <2> DEFINE e == [n \in 0..m + 1 |-> IF n = m + 1 THEN f[m] + gain[m + 1] ELSE f[n]]
             r == [n \in 0..m + 1 |-> IF n = 0 THEN 0 ELSE e[n - 1] + gain[n]]
  <2>2. ASSUME NEW n \in 0..m + 1 PROVE e[n] = r[n]
    <3>1. CASE n = 0
      BY <2>1, <3>1
    <3>2. CASE n = m + 1
      <4>1. n - 1 = m /\ n - 1 \in 0..m + 1 /\ n # 0
        BY <3>2
      <4>2. e[n - 1] = f[m]
        BY <4>1
      <4> QED BY <3>2, <4>1, <4>2
    <3>3. CASE n \in 1..m
      <4>1. n - 1 \in 0..m + 1 /\ n - 1 # m + 1 /\ n # 0 /\ n # m + 1 /\ n \in 0..m
        BY <3>3
      <4>2. e[n - 1] = f[n - 1] /\ e[n] = f[n] /\ r[n] = e[n - 1] + gain[n]
        BY <4>1
      <4>3. f[n] = f[n - 1] + gain[n]
        BY <2>1, <4>1
      <4> QED BY <4>2, <4>3
    <3> QED BY <3>1, <3>2, <3>3
  <2>3. e = r
    BY <2>2
  <2>4. Is(e, m + 1)
    BY <2>3
  <2>5. \E g : Is(g, m + 1)
    <3> HIDE DEF Is, e
    <3> QED BY <2>4
  <2> QED BY <2>5
<1> HIDE DEF S
<1>3. N \in S
  BY <1>1, <1>2, Induction
<1> QED BY <1>3 DEF S

\* What the function returns.
LEMMA SumsLemma ==
    ASSUME NEW req, NEW signature, Len(signature.rules) \in Nat
    PROVE  /\ Total(req, signature) = Sums(req, signature)[Len(signature.rules)]
           /\ Sums(req, signature)[0] = 0
           /\ \A n \in Nat : n < Len(signature.rules) =>
                 Sums(req, signature)[n + 1]
                     = Sums(req, signature)[n] + Gain(req, signature.rules[n + 1])
<1> DEFINE N     == Len(signature.rules)
           f     == Sums(req, signature)
           gain  == [n \in 0..N |-> Gain(req, signature.rules[n])]
<1>1. PICK g : g = [n \in 0..N |-> IF n = 0 THEN 0 ELSE g[n - 1] + gain[n]]
  <2> HIDE DEF gain
  <2> QED BY SumExists
<1>2. g = [n \in 0..N |-> IF n = 0 THEN 0 ELSE g[n - 1] + Gain(req, signature.rules[n])]
  BY <1>1
<1>3. f = [n \in 0..N |-> IF n = 0 THEN 0 ELSE f[n - 1] + Gain(req, signature.rules[n])]
  BY <1>2 DEF Sums
<1>4. Total(req, signature) = f[N]
  BY DEF Total, Sums
<1> HIDE DEF f
<1>5. f[0] = 0
  BY <1>3
<1>6. ASSUME NEW n \in Nat, n < N
      PROVE  f[n + 1] = f[n] + Gain(req, signature.rules[n + 1])
  <2>1. n + 1 \in 0..N /\ n + 1 # 0 /\ (n + 1) - 1 = n
    BY <1>6
  <2> QED BY <1>3, <2>1
<1> QED BY <1>4, <1>5, <1>6 DEF f

\* Sums of what is in a set that is closed under addition are in it.
LEMMA SumsClosed ==
    ASSUME NEW req, NEW signature, Len(signature.rules) \in Nat,
           NEW T, 0 \in T, \A a, b \in T : a + b \in T,
           \A k \in Nat \ {0} : k <= Len(signature.rules) => signature.rules[k].score \in T
    PROVE  \A n \in Nat : n <= Len(signature.rules) => Sums(req, signature)[n] \in T
<1> DEFINE f == Sums(req, signature)
           S == {n \in Nat : n <= Len(signature.rules) => f[n] \in T}
<1>1. /\ f[0] = 0
      /\ \A n \in Nat : n < Len(signature.rules) =>
            f[n + 1] = f[n] + Gain(req, signature.rules[n + 1])
  BY SumsLemma
<1> HIDE DEF f
<1>2. 0 \in S
  BY <1>1
<1>3. ASSUME NEW n \in Nat, n \in S PROVE n + 1 \in S
  <2> SUFFICES ASSUME n + 1 <= Len(signature.rules) PROVE f[n + 1] \in T
    OBVIOUS
  <2>1. n < Len(signature.rules) /\ n + 1 \in Nat \ {0} /\ f[n] \in T
    BY <1>3
  <2>2. Gain(req, signature.rules[n + 1]) \in T
    BY <2>1 DEF Gain
  <2> QED BY <1>1, <2>1, <2>2
<1> HIDE DEF S
<1>4. Nat \subseteq S
  BY <1>2, <1>3, Induction
<1> QED BY <1>4 DEF S, f

\* Two requests for which each rule is worth the same have the same total.
LEMMA SameTotal ==
    ASSUME NEW req, NEW other, NEW signature, Len(signature.rules) \in Nat,
           \A k \in Nat \ {0} : k <= Len(signature.rules) =>
              Gain(req, signature.rules[k]) = Gain(other, signature.rules[k])
    PROVE  Total(req, signature) = Total(other, signature)
<1> DEFINE f == Sums(req, signature)
           g == Sums(other, signature)
           N == Len(signature.rules)
           S == {n \in Nat : n <= N => f[n] = g[n]}
<1>1. /\ f[0] = 0 /\ g[0] = 0 /\ Total(req, signature) = f[N]
      /\ Total(other, signature) = g[N]
      /\ \A n \in Nat : n < N => /\ f[n + 1] = f[n] + Gain(req, signature.rules[n + 1])
                                 /\ g[n + 1] = g[n] + Gain(other, signature.rules[n + 1])
  BY SumsLemma
<1> HIDE DEF f, g
<1>2. 0 \in S
  BY <1>1
<1>3. ASSUME NEW n \in Nat, n \in S PROVE n + 1 \in S
  <2> SUFFICES ASSUME n + 1 <= N PROVE f[n + 1] = g[n + 1]
    OBVIOUS
  <2>1. n < N /\ n + 1 \in Nat \ {0} /\ f[n] = g[n]
    BY <1>3
  <2>2. Gain(req, signature.rules[n + 1]) = Gain(other, signature.rules[n + 1])
    BY <2>1
  <2> QED BY <1>1, <2>1, <2>2
<1> HIDE DEF S
<1>4. Nat \subseteq S
  BY <1>2, <1>3, Induction
<1> QED BY <1>1, <1>4 DEF S

-----------------------------------------------------------------------------
(* The choice of a signature.                                              *)

Scores(req, list) == [i \in 1..Len(list) |-> score_request(req, list[i])]

\* What the loop over the signatures has found in the first n of them: the first with
\* the highest score, unless all scores are too low.
IsBest(score, n, best, best_score) ==
    \/ /\ best = 0 /\ best_score = -1
       /\ \A j \in 1..n : score[j] <= -1
    \/ /\ best \in 1..n /\ best_score = score[best] /\ best_score > -1
       /\ \A j \in 1..n : score[j] <= best_score /\ (j < best => score[j] < best_score)

\* The signature after those is compared with the best so far.
LEMMA NextBest ==
    ASSUME NEW N \in Nat, NEW score \in [1..N -> Int], NEW n \in 1..N,
           NEW best \in Nat, NEW best_score \in Int, IsBest(score, n - 1, best, best_score)
    PROVE  /\ score[n] > best_score => IsBest(score, n, n, score[n])
           /\ ~(score[n] > best_score) => IsBest(score, n, best, best_score)
<1>1. /\ score[n] \in Int
      /\ \A j \in 1..n : j \in 1..n - 1 \/ j = n
      /\ \A j \in 1..n - 1 : score[j] \in Int /\ j < n /\ j \in 1..n
  OBVIOUS
<1>2. \A j \in 1..n - 1 : score[j] <= best_score
  BY DEF IsBest
<1>3. best_score >= -1
  BY DEF IsBest
<1>4. ASSUME score[n] > best_score PROVE IsBest(score, n, n, score[n])
  <2>1. \A j \in 1..n - 1 : score[j] < score[n]
    BY <1>1, <1>2, <1>4
  <2>2. \A j \in 1..n : score[j] <= score[n] /\ (j < n => score[j] < score[n])
    BY <1>1, <2>1
  <2>3. score[n] > -1 /\ n \in 1..n
    BY <1>1, <1>3, <1>4
  <2> QED BY <2>2, <2>3 DEF IsBest
<1>5. ASSUME ~(score[n] > best_score) PROVE IsBest(score, n, best, best_score)
  <2>1. score[n] <= best_score
    BY <1>1, <1>5
  <2>2. CASE best = 0 /\ best_score = -1
    <3>1. \A j \in 1..n : score[j] <= -1
      BY <1>1, <1>2, <2>1, <2>2
    <3> QED BY <2>2, <3>1 DEF IsBest
  <2>3. CASE /\ best \in 1..n - 1 /\ best_score = score[best] /\ best_score > -1
             /\ \A j \in 1..n - 1 : j < best => score[j] < best_score
    <3>1. \A j \in 1..n : score[j] <= best_score /\ (j < best => score[j] < best_score)
      BY <1>1, <1>2, <2>1, <2>3
    <3>2. best \in 1..n
      BY <2>3
    <3> QED BY <2>3, <3>1, <3>2 DEF IsBest
  <2> QED BY <2>2, <2>3 DEF IsBest
<1> QED BY <1>4, <1>5

\* The scores are numbers, those of rules that are comparable none below zero.
LEMMA ScoresLemma ==
    ASSUME TypeOK, NEW req
    PROVE  /\ Len(signatures) \in Nat /\ DOMAIN signatures = 1..Len(signatures)
           /\ Scores(req, signatures) \in [1..Len(signatures) -> Int]
           /\ \A i \in 1..Len(signatures) :
                 /\ Len(signatures[i].rules) \in Nat
                 /\ signatures[i].min_score \in Int
                 /\ Total(req, signatures[i]) \in Int
           /\ Comparable(signatures) =>
                 \A i \in 1..Len(signatures) : Scores(req, signatures)[i] >= 0
<1>1. /\ Len(signatures) \in Nat
      /\ signatures = [j \in 1..Len(signatures) |-> signatures[j]]
  BY SignatureAssumption DEF TypeOK
<1>2. DOMAIN signatures = 1..Len(signatures)
  BY <1>1
<1>3. ASSUME NEW i \in 1..Len(signatures)
      PROVE  /\ Len(signatures[i].rules) \in Nat
             /\ signatures[i].min_score \in Int
             /\ Total(req, signatures[i]) \in Int
             /\ score_request(req, signatures[i]) \in Int
             /\ Comparable(signatures) => score_request(req, signatures[i]) >= 0
  <2> DEFINE s == signatures[i]
  <2>1. /\ Len(s.rules) \in Nat /\ s.min_score \in Int /\ s.max_score \in Int
        /\ \A k \in Nat \ {0} : k <= Len(s.rules) =>
              k \in DOMAIN s.rules /\ s.rules[k].score \in Int
    <3>1. i \in Nat \ {0} /\ i <= Len(signatures)
      BY <1>1
    <3> QED BY <3>1, ListLemma
  <2>2. Comparable(signatures) =>
           /\ s.max_score >= 0
           /\ \A k \in Nat \ {0} : k <= Len(s.rules) => s.rules[k].score \in Nat
    BY <1>2, <2>1 DEF Comparable
  <2> HIDE DEF s
  <2>3. Sums(req, s)[Len(s.rules)] \in Int
    BY <2>1, SumsClosed
  <2>4. ASSUME Comparable(signatures) PROVE Sums(req, s)[Len(s.rules)] \in Nat
    <3>1. \A k \in Nat \ {0} : k <= Len(s.rules) => s.rules[k].score \in Nat
      BY <2>2, <2>4
    <3>2. 0 \in Nat /\ \A a, b \in Nat : a + b \in Nat
      OBVIOUS
    <3>3. \A n \in Nat : n <= Len(s.rules) => Sums(req, s)[n] \in Nat
      BY <2>1, <3>1, <3>2, SumsClosed
    <3> QED BY <2>1, <3>3
  <2>5. Total(req, s) = Sums(req, s)[Len(s.rules)]
    BY <2>1, SumsLemma
  <2>6. score_request(req, s) \in Int
    BY <2>1, <2>3, <2>5 DEF score_request, Clamped
  <2>7. Comparable(signatures) => score_request(req, s) >= 0
    BY <2>1, <2>2, <2>4, <2>5 DEF score_request, Clamped
  <2> QED BY <2>1, <2>3, <2>5, <2>6, <2>7 DEF s
<1> QED BY <1>1, <1>2, <1>3 DEF Scores

\* Where the loops over signatures and rules are, and what they have found.
Progress(h) ==
    /\ stage[h] = "read" => scan[h] = NoScan(scan[h].request)
    /\ stage[h] = "score" =>
          /\ scan[h].signature <= Len(signatures) + 1
          /\ IsBest(Scores(RequestShim(scan[h].request), signatures), scan[h].signature - 1,
                    scan[h].best_signature, scan[h].best_score)
          /\ scan[h].signature <= Len(signatures) =>
                /\ scan[h].rule <= Len(Current(h).rules) + 1
                /\ scan[h].total_score
                      = Sums(RequestShim(scan[h].request), Current(h))[scan[h].rule - 1]
    /\ stage[h] = "respond" =>
          /\ IsBest(Scores(RequestShim(scan[h].request), signatures), Len(signatures),
                    scan[h].best_signature, scan[h].best_score)
          /\ reply[h].response_id \in
                IF scan[h].best_signature # 0 /\ scan[h].best_score > 0
                THEN signatures[scan[h].best_signature].responses ELSE {DefaultId}

\* A step of a handler does not touch the locals of another one.
LEMMA OneHandler ==
    ASSUME TypeOK, NEW h \in Handlers, Choosing(h) \/ Responding(h)
    PROVE  /\ signatures' = signatures
           /\ \A g \in Handlers \ {h} :
                 scan'[g] = scan[g] /\ reply'[g] = reply[g] /\ stage'[g] = stage[g]
           /\ Responding(h) => stage'[h] \notin {"read", "score", "respond"}
<1> USE DEF TypeOK, Enter, End
<1>1. CASE Choosing(h)
  <2>1. CASE Accept(h) \/ ReadBody(h)
    BY <2>1 DEF Accept, ReadBody, Responding, LookUp, SetType, SetLength, Iterate,
                SendHeader, EndHeaders, SendBody, SendFails, AddToQueue
  <2>2. CASE ScoreRule(h)
    BY <2>2 DEF ScoreRule, Responding, LookUp, SetType, SetLength, Iterate,
                SendHeader, EndHeaders, SendBody, SendFails, AddToQueue
  <2>3. CASE EndSignature(h) \/ ChooseResponse(h)
    BY <2>3 DEF EndSignature, ChooseResponse, Responding, LookUp, SetType, SetLength,
                Iterate, SendHeader, EndHeaders, SendBody, SendFails, AddToQueue
  <2> QED BY <1>1, <2>1, <2>2, <2>3 DEF Choosing
<1>2. CASE LookUp(h) \/ SetType(h) \/ SetLength(h) \/ Iterate(h)
  BY <1>2 DEF LookUp, SetType, SetLength, Iterate
<1>3. CASE SendHeader(h) \/ EndHeaders(h) \/ SendBody(h) \/ SendFails(h) \/ AddToQueue(h)
  BY <1>3 DEF SendHeader, EndHeaders, SendBody, SendFails, AddToQueue
<1> QED BY <1>1, <1>2, <1>3 DEF Responding

\* What a handler has found stays while others run.
LEMMA ProgressStays ==
    ASSUME NEW h, Progress(h), signatures' = signatures, scan'[h] = scan[h],
           reply'[h] = reply[h], stage'[h] = stage[h]
    PROVE  Progress(h)'
BY DEF Progress, Current

\* The loops go on from what they have found.
LEMMA ChoosingProgress ==
    ASSUME ResponderInv, NEW h \in Handlers, Progress(h), Choosing(h)
    PROVE  Progress(h)'
<1> DEFINE shim == RequestShim(scan[h].request)
           s    == scan[h].signature
<1>0. /\ stage \in [Handlers -> Stages] /\ scan \in [Handlers -> ScanType]
      /\ reply \in [Handlers -> ReplyType] /\ scan[h] \in ScanType
      /\ Len(signatures) \in Nat /\ TypeOK
  BY ScoresLemma DEF ResponderInv, TypeOK
<1>1. CASE End(h) /\ signatures' = signatures
  <2>1. stage'[h] = "idle"
    BY <1>0, <1>1 DEF End, Enter
  <2> QED BY <2>1 DEF Progress
<1>2. CASE Accept(h)
  <2>1. PICK r \in Requests : scan' = [scan EXCEPT ![h] = NoScan(r)]
    BY <1>2 DEF Accept
  <2>2. scan'[h] = NoScan(r) /\ stage'[h] = "read" /\ NoScan(r).request = r
    BY <1>0, <1>2, <2>1 DEF Accept, Enter, NoScan
  <2> QED BY <2>2 DEF Progress
<1>3. CASE ReadBody(h) /\ ~End(h)
  <2>1. /\ stage[h] = "read" /\ stage'[h] = "score"
        /\ scan' = scan /\ reply' = reply /\ signatures' = signatures
    BY <1>0, <1>3 DEF ReadBody, Enter
  <2>2. /\ scan[h].signature = 1 /\ scan[h].rule = 1 /\ scan[h].total_score = 0
        /\ scan[h].best_signature = 0 /\ scan[h].best_score = -1
    BY <2>1 DEF Progress, NoScan
  <2>3. IsBest(Scores(shim, signatures), 0, 0, -1)
    BY DEF IsBest
  <2>4. s <= Len(signatures) =>
           Sums(shim, Current(h))[0] = 0 /\ Len(Current(h).rules) \in Nat
    <3> SUFFICES ASSUME s <= Len(signatures)
                 PROVE  Sums(shim, Current(h))[0] = 0 /\ Len(Current(h).rules) \in Nat
      OBVIOUS
    <3>1. Len(Current(h).rules) \in Nat
      BY <1>0, <2>2, ScoresLemma DEF Current
    <3> QED BY <3>1, SumsLemma
  <2>5. Current(h)' = Current(h)
    BY <2>1 DEF Current
  <2>6. /\ scan[h].signature <= Len(signatures) + 1
        /\ IsBest(Scores(shim, signatures), scan[h].signature - 1,
                  scan[h].best_signature, scan[h].best_score)
        /\ s <= Len(signatures) =>
              /\ scan[h].rule <= Len(Current(h).rules) + 1
              /\ scan[h].total_score = Sums(shim, Current(h))[scan[h].rule - 1]
    BY <1>0, <2>2, <2>3, <2>4
  <2> QED BY <2>1, <2>5, <2>6 DEF Progress
<1>4. CASE ScoreRule(h) /\ ~End(h)
  <2> DEFINE rule == Current(h).rules[scan[h].rule]
             gain == Gain(shim, rule)
             next == [scan[h] EXCEPT !.rule = @ + 1, !.total_score = @ + gain]
  <2>1. /\ stage[h] = "score" /\ stage'[h] = "score" /\ MoreRules(h)
        /\ scan' = [scan EXCEPT ![h].rule = @ + 1, ![h].total_score = @ + gain]
        /\ reply' = reply /\ signatures' = signatures
    BY <1>0, <1>4 DEF ScoreRule
  <2>2. scan' = [scan EXCEPT ![h] = next]
    BY <1>0, <2>1
  <2>3. /\ next.rule = scan[h].rule + 1 /\ next.total_score = scan[h].total_score + gain
        /\ next.signature = s /\ next.request = scan[h].request
        /\ next.best_signature = scan[h].best_signature
        /\ next.best_score = scan[h].best_score
    <3> HIDE DEF gain
    <3>1. PICK r \in ScanType : r = scan[h]
      BY <1>0
    <3> QED BY <3>1 DEF ScanType
  <2> HIDE DEF next
  <2>4. scan'[h] = next
    BY <1>0, <2>2
  <2>5. s <= Len(signatures) /\ scan[h].rule <= Len(Current(h).rules)
    BY <2>1 DEF MoreRules
  <2>6. Len(Current(h).rules) \in Nat /\ s \in Nat \ {0} /\ scan[h].rule \in Nat \ {0}
    <3>1. s \in Nat \ {0} /\ scan[h].rule \in Nat \ {0}
      BY <1>0 DEF ScanType
    <3> QED BY <1>0, <2>5, <3>1, ScoresLemma DEF Current
  <2>7. Sums(shim, Current(h))[scan[h].rule] = Sums(shim, Current(h))[scan[h].rule - 1] + gain
    <3>1. scan[h].rule - 1 \in Nat /\ scan[h].rule - 1 < Len(Current(h).rules)
          /\ (scan[h].rule - 1) + 1 = scan[h].rule
      BY <2>5, <2>6
    <3> QED BY <2>6, <3>1, SumsLemma
  <2>8. Current(h)' = Current(h)
    BY <2>1, <2>3, <2>4 DEF Current
  <2>9. /\ next.rule <= Len(Current(h).rules) + 1
        /\ next.rule - 1 = scan[h].rule
        /\ next.total_score = Sums(shim, Current(h))[next.rule - 1]
    BY <2>1, <2>3, <2>5, <2>6, <2>7 DEF Progress
  <2> HIDE DEF gain, rule
  <2> QED BY <2>1, <2>3, <2>4, <2>8, <2>9 DEF Progress
<1>5. CASE EndSignature(h)
  <2> DEFINE total == scan[h].total_score
             score == Clamped(total, Current(h))
             sc    == Scores(shim, signatures)
             next  == [scan[h] EXCEPT !.signature = @ + 1, !.rule = 1, !.total_score = 0]
             best  == [next EXCEPT !.best_signature = s, !.best_score = score]
  <2>1. /\ stage[h] = "score" /\ stage'[h] = "score" /\ s <= Len(signatures)
        /\ ~MoreRules(h) /\ reply' = reply /\ signatures' = signatures
        /\ scan' = [scan EXCEPT ![h] = IF score > scan[h].best_score THEN best ELSE next]
    BY <1>0, <1>5 DEF EndSignature, Better
  <2>2. /\ s \in 1..Len(signatures) /\ scan[h].rule \in Nat \ {0}
        /\ scan[h].best_signature \in Nat /\ scan[h].best_score \in Int
    BY <1>0, <2>1 DEF ScanType
  <2>3. Len(Current(h).rules) \in Nat /\ sc \in [1..Len(signatures) -> Int]
    BY <1>0, <2>2, ScoresLemma DEF Current
  <2>4. scan[h].rule - 1 = Len(Current(h).rules)
    <3>1. scan[h].rule <= Len(Current(h).rules) + 1
      BY <2>1 DEF Progress
    <3>2. ~(scan[h].rule <= Len(Current(h).rules))
      BY <2>1 DEF MoreRules
    <3>3. \A k, n \in Nat : k <= n + 1 /\ ~(k <= n) => k - 1 = n
      OBVIOUS
    <3> QED BY <2>2, <2>3, <3>1, <3>2, <3>3
  <2>5. total = Total(shim, Current(h))
    BY <2>1, <2>3, <2>4, SumsLemma DEF Progress
  <2>6. score = sc[s]
    BY <2>2, <2>5 DEF Scores, score_request, Current
  <2>7. IsBest(sc, s - 1, scan[h].best_signature, scan[h].best_score)
    BY <2>1 DEF Progress
  <2> HIDE DEF score, sc
  <2>8. /\ sc[s] > scan[h].best_score => IsBest(sc, s, s, sc[s])
        /\ ~(sc[s] > scan[h].best_score) =>
              IsBest(sc, s, scan[h].best_signature, scan[h].best_score)
    BY <1>0, <2>2, <2>3, <2>7, NextBest
  <2>9. /\ next.request = scan[h].request /\ next.signature = s + 1
        /\ next.rule = 1 /\ next.total_score = 0
        /\ next.best_signature = scan[h].best_signature
        /\ next.best_score = scan[h].best_score
        /\ best.request = scan[h].request /\ best.signature = s + 1
        /\ best.rule = 1 /\ best.total_score = 0
        /\ best.best_signature = s /\ best.best_score = score
    <3>1. PICK r \in ScanType : r = scan[h]
      BY <1>0
    <3> QED BY <3>1 DEF ScanType
  <2> HIDE DEF next, best
  <2>10. scan'[h] = IF score > scan[h].best_score THEN best ELSE next
    BY <1>0, <2>1
  <2>11. /\ scan'[h].request = scan[h].request /\ scan'[h].signature = s + 1
         /\ scan'[h].rule = 1 /\ scan'[h].total_score = 0
         /\ IsBest(sc, s, scan'[h].best_signature, scan'[h].best_score)
    BY <2>6, <2>8, <2>9, <2>10
  <2>12. s + 1 <= Len(signatures) =>
            /\ Len(Current(h)'.rules) \in Nat
            /\ Sums(shim, Current(h)')[0] = 0
    <3> SUFFICES ASSUME s + 1 <= Len(signatures)
                 PROVE  /\ Len(Current(h)'.rules) \in Nat
                        /\ Sums(shim, Current(h)')[0] = 0
      OBVIOUS
    <3>1. Current(h)' = signatures[s + 1]
      BY <2>1, <2>11 DEF Current
    <3>2. s + 1 \in 1..Len(signatures)
      BY <1>0, <2>2
    <3>3. Len(signatures[s + 1].rules) \in Nat
      BY <1>0, <3>2, ScoresLemma
    <3> QED BY <3>1, <3>3, SumsLemma
  <2>13. (s + 1) - 1 = s /\ s + 1 <= Len(signatures) + 1
    BY <1>0, <2>2
  <2>14. Scores(RequestShim(scan'[h].request), signatures') = sc
    BY <2>1, <2>11 DEF sc
  <2> QED BY <2>1, <2>11, <2>12, <2>13, <2>14 DEF Progress
<1>6. CASE ChooseResponse(h) /\ ~End(h)
  <2> DEFINE choices == IF scan[h].best_signature # 0 /\ scan[h].best_score > 0
                        THEN signatures[scan[h].best_signature].responses
                        ELSE {DefaultId}
  <2>1. /\ stage[h] = "score" /\ s > Len(signatures) /\ stage'[h] = "respond"
        /\ \E i \in choices : reply' = [reply EXCEPT ![h].response_id = i]
        /\ scan' = scan /\ signatures' = signatures
    BY <1>0, <1>6 DEF ChooseResponse, Enter
  <2>2. reply'[h].response_id \in choices
    BY <1>0, <2>1 DEF ReplyType
  <2>3. s - 1 = Len(signatures)
    BY <1>0, <2>1 DEF Progress, ScanType
  <2>4. IsBest(Scores(shim, signatures), Len(signatures),
               scan[h].best_signature, scan[h].best_score)
    BY <2>1, <2>3 DEF Progress
  <2> QED BY <2>1, <2>2, <2>4 DEF Progress
<1>7. CASE End(h)
  BY <1>1, <1>7, OneHandler, <1>0
<1> QED BY <1>2, <1>3, <1>4, <1>5, <1>6, <1>7 DEF Choosing

\* What every handler has found is kept by every step.
LEMMA ProgressStep ==
    ASSUME ResponderInv, \A h \in Handlers : Progress(h), [Next]_vars
    PROVE  \A h \in Handlers : Progress(h)'
<1>1. CASE UNCHANGED vars \/ Update
  BY <1>1, ProgressStays DEF vars, Update
<1>2. ASSUME NEW g \in Handlers, Choosing(g) \/ Responding(g), NEW h \in Handlers
      PROVE  Progress(h)'
  <2>1. /\ signatures' = signatures
        /\ \A f \in Handlers \ {g} :
              scan'[f] = scan[f] /\ reply'[f] = reply[f] /\ stage'[f] = stage[f]
        /\ Responding(g) => stage'[g] \notin {"read", "score", "respond"}
    BY <1>2, OneHandler DEF ResponderInv
  <2>2. CASE h # g
    BY <2>1, <2>2, ProgressStays
  <2>3. CASE h = g /\ Choosing(g)
    BY <2>3, ChoosingProgress
  <2>4. CASE h = g /\ Responding(g)
    BY <2>1, <2>4 DEF Progress
  <2> QED BY <1>2, <2>2, <2>3, <2>4
<1> QED BY <1>1, <1>2 DEF Next

\* Every handler has found the best signature so far.
THEOREM ProgressInvariant == Spec => [](ResponderInv /\ \A h \in Handlers : Progress(h))
<1>1. Init => \A h \in Handlers : Progress(h)
  BY DEF Init, Progress
<1>2. /\ ResponderInv /\ (\A h \in Handlers : Progress(h)) /\ [Next]_vars
      => ResponderInv' /\ (\A h \in Handlers : Progress(h))'
  BY ResponderStep, ProgressStep
<1> QED BY <1>1, <1>2, ResponderInit, PTL DEF Spec

-----------------------------------------------------------------------------
(* The response, and what the rule checker announces.                      *)

\* max returns the first of those with the highest score.
LEMMA FirstBestLemma ==
    ASSUME NEW req, NEW list, NEW N \in Nat, DOMAIN list = 1..N,
           Scores(req, list) \in [1..N -> Int], Len(list) = N,
           NEW best, NEW best_score, IsBest(Scores(req, list), N, best, best_score), best # 0
    PROVE  FirstBest(req, list) = best
<1> DEFINE score(i) == score_request(req, list[i])
           First(i) == \A j \in DOMAIN list :
                          score(j) <= score(i) /\ (j < i => score(j) < score(i))
<1>1. \A i \in 1..N : score(i) \in Int /\ Scores(req, list)[i] = score(i)
  BY DEF Scores
<1>2. best \in DOMAIN list /\ First(best)
  BY <1>1 DEF IsBest
<1>3. ASSUME NEW i \in DOMAIN list, First(i) PROVE i = best
  <2>1. score(i) \in Int /\ score(best) \in Int
    BY <1>1, <1>2
  <2> HIDE DEF score
  <2>2. score(i) <= score(best) /\ score(best) <= score(i)
    BY <1>2, <1>3
  <2>3. ~(i < best) /\ ~(best < i)
    BY <1>2, <1>3, <2>1
  <2> QED BY <1>2, <2>3
<1>4. FirstBest(req, list) = CHOOSE i \in DOMAIN list : First(i)
  BY DEF FirstBest
<1> HIDE DEF First
<1> QED BY <1>2, <1>3, <1>4

\* What a handler that is about to respond has found.
LEMMA Respond ==
    ASSUME ResponderInv, NEW h \in Handlers, Progress(h), stage[h] = "respond"
    PROVE  LET shim == RequestShim(scan[h].request)
               sc   == Scores(shim, signatures)
               best == scan[h].best_signature
           IN  /\ sc \in [1..Len(signatures) -> Int]
               /\ scan[h].best_score \in Int /\ best \in Nat
               /\ IsBest(sc, Len(signatures), best, scan[h].best_score)
               /\ best # 0 => FirstBest(shim, signatures) = best
<1>1. /\ scan[h].best_score \in Int /\ scan[h].best_signature \in Nat
  BY DictLemma DEF ScanType
<1>2. /\ Scores(RequestShim(scan[h].request), signatures) \in [1..Len(signatures) -> Int]
      /\ Len(signatures) \in Nat /\ DOMAIN signatures = 1..Len(signatures)
  BY ScoresLemma DEF ResponderInv
<1>3. IsBest(Scores(RequestShim(scan[h].request), signatures), Len(signatures),
             scan[h].best_signature, scan[h].best_score)
  BY DEF Progress
<1> QED BY <1>1, <1>2, <1>3, FirstBestLemma

\* A request is answered for the first of the signatures with the highest score, or
\* with the default response if none scores.
THEOREM FirstBestAnswers == Spec => []ChosenIsFirstBest
<1>1. ASSUME ResponderInv, \A h \in Handlers : Progress(h) PROVE ChosenIsFirstBest
  <2> SUFFICES ASSUME NEW h \in Handlers, stage[h] = "respond"
               PROVE  LET shim     == RequestShim(scan[h].request)
                          positive == {i \in DOMAIN signatures :
                                          score_request(shim, signatures[i]) > 0}
                      IN  IF positive = {}
                          THEN reply[h].response_id = DefaultId
                          ELSE /\ Winner(h) = FirstBest(shim, signatures)
                               /\ Total(shim, signatures[Winner(h)])
                                     >= signatures[Winner(h)].min_score
                               /\ reply[h].response_id \in signatures[Winner(h)].responses
    BY DEF ChosenIsFirstBest
  <2> DEFINE shim == RequestShim(scan[h].request)
             sc   == Scores(shim, signatures)
             best == scan[h].best_signature
             bs   == scan[h].best_score
             N    == Len(signatures)
             positive == {i \in DOMAIN signatures : score_request(shim, signatures[i]) > 0}
  <2>1. /\ sc \in [1..N -> Int] /\ bs \in Int /\ best \in Nat
        /\ IsBest(sc, N, best, bs)
        /\ best # 0 => FirstBest(shim, signatures) = best
    BY <1>1, Respond
  <2>2. /\ N \in Nat /\ DOMAIN signatures = 1..N
        /\ \A i \in 1..N : /\ Total(shim, signatures[i]) \in Int
                           /\ signatures[i].min_score \in Int
    BY <1>1, ScoresLemma DEF ResponderInv
  <2>3. positive = {i \in 1..N : sc[i] > 0}
    BY <2>2 DEF Scores
  <2>4. reply[h].response_id \in IF best # 0 /\ bs > 0 THEN signatures[best].responses
                                                       ELSE {DefaultId}
    BY <1>1 DEF Progress
  <2>5. \A i \in 1..N : sc[i] = Clamped(Total(shim, signatures[i]), signatures[i])
    BY DEF Scores, score_request
  <2> HIDE DEF sc, positive
  <2>6. CASE positive = {}
    <3>1. best # 0 => ~(bs > 0)
      BY <2>1, <2>3, <2>6 DEF IsBest
    <3> QED BY <2>4, <2>6, <3>1 DEF positive
  <2>7. CASE positive # {}
    <3>1. PICK i \in 1..N : sc[i] > 0
      BY <2>3, <2>7
    <3>2. best \in 1..N /\ bs = sc[best] /\ sc[best] > 0
      BY <2>1, <3>1 DEF IsBest
    <3>3. Winner(h) = best /\ best # 0
      BY <2>2, <3>2 DEF Winner
    <3>4. Total(shim, signatures[best]) >= signatures[best].min_score
      BY <2>2, <2>5, <3>2 DEF Clamped
    <3> QED BY <2>1, <2>4, <2>7, <3>2, <3>3, <3>4 DEF positive
  <2> QED BY <2>6, <2>7
<1> QED BY <1>1, ProgressInvariant, PTL

\* In what a client sends for an item nothing is unquoted or renamed.
LEMMA SameRequest ==
    ASSUME NEW i \in DOMAIN Traffic, NEW r, Simulates(i, r)
    PROVE  /\ RequestShim(r).path = FakeRequest(Traffic, i).path
           /\ RequestShim(r).method = FakeRequest(Traffic, i).method
           /\ RequestShim(r).headers = FakeRequest(Traffic, i).headers
           /\ RequestShim(r).cookies = {}
           /\ \A n \in FakeRequest(Traffic, i).cookies :
                 n \in Header(FakeRequest(Traffic, i), "cookie")
<1> DEFINE item      == Traffic[i]
           Name(k)   == Through(Underscored, k)
           omitting  == {j \in DOMAIN Traffic : Omits(Traffic[j])}
           Last(j)   == j \in omitting /\ \A k \in omitting : k <= j
           last      == CHOOSE j \in omitting : \A k \in omitting : k <= j
<1>1. /\ r.uri = item.uri /\ r.method = item.method /\ r.headers = OwnHeaders(item)
      /\ \A w \in r.uri : w \notin DOMAIN Quoted
      /\ \A k \in DOMAIN r.headers : k \notin DOMAIN Underscored
      /\ i \in omitting => Last(i)
  BY DEF Simulates
<1>2. {Through(Quoted, w) : w \in r.uri} = r.uri
  BY <1>1 DEF Through
<1>3. RequestShim(r).headers = r.headers
  <2>1. \A k \in DOMAIN r.headers : Name(k) = k
    BY <1>1 DEF Through
  <2>2. r.headers = [n \in DOMAIN r.headers |-> r.headers[n]]
    BY <1>1 DEF OwnHeaders, WithCookie
  <2> HIDE DEF Name
  <2>3. {Name(k) : k \in DOMAIN r.headers} = DOMAIN r.headers
    BY <2>1
  <2>4. \A n \in DOMAIN r.headers : (CHOOSE k \in DOMAIN r.headers : Name(k) = n) = n
    BY <2>1
  <2>5. [n \in {Name(k) : k \in DOMAIN r.headers} |->
            r.headers[CHOOSE k \in DOMAIN r.headers : Name(k) = n]] = r.headers
    BY <2>2, <2>3, <2>4
  <2> QED BY <2>5 DEF RequestShim, Name
<1>4. FakeRequest(Traffic, i).headers = OwnHeaders(item)
  <2>1. CASE i \notin omitting
    BY <2>1 DEF FakeRequest
  <2>2. CASE i \in omitting
    <3>1. Last(i) /\ omitting \subseteq Nat
      BY <1>1, <2>2, TrafficAssumption
    <3>2. \A j \in omitting : (\A k \in omitting : k <= j) => j = i
      BY <3>1
    <3>3. last = i
      BY <3>1, <3>2
    <3> HIDE DEF last
    <3>4. FakeRequest(Traffic, i).headers = OwnHeaders(Traffic[last])
      BY <2>2 DEF FakeRequest, last
    <3> QED BY <3>3, <3>4
  <2> QED BY <2>1, <2>2
<1>5. /\ RequestShim(r).path = r.uri /\ RequestShim(r).method = r.method
      /\ RequestShim(r).cookies = {}
  BY <1>2 DEF RequestShim
<1>6. /\ FakeRequest(Traffic, i).path = item.uri
      /\ FakeRequest(Traffic, i).method = item.method
      /\ FakeRequest(Traffic, i).cookies = DOMAIN item.cookies
  BY DEF FakeRequest
<1>7. Header(FakeRequest(Traffic, i), "cookie") = Joined(item.cookies)
  <2>1. "cookie" \in DOMAIN OwnHeaders(item) /\ OwnHeaders(item)["cookie"] = Joined(item.cookies)
    BY DEF OwnHeaders, WithCookie
  <2> QED BY <1>4, <2>1 DEF Header
<1>8. \A n \in DOMAIN item.cookies : n \in Joined(item.cookies)
  BY DEF Joined
<1> QED BY <1>1, <1>3, <1>4, <1>5, <1>6, <1>7, <1>8

\* To the checker's request each rule is worth the same, provided it is comparable.
LEMMA SameGain ==
    ASSUME NEW i \in DOMAIN Traffic, NEW r, Simulates(i, r),
           NEW rule, ~(rule.attribute = "cookies" /\ rule.condition = "absent")
    PROVE  Gain(FakeRequest(Traffic, i), rule) = Gain(RequestShim(r), rule)
<1> DEFINE shim == RequestShim(r)
           fake == FakeRequest(Traffic, i)
<1>1. /\ shim.path = fake.path /\ shim.method = fake.method
      /\ shim.headers = fake.headers /\ shim.cookies = {}
      /\ \A n \in fake.cookies : n \in Header(fake, "cookie")
  BY SameRequest
<1> HIDE DEF shim, fake
<1>2. AttrValue(fake, rule) = AttrValue(shim, rule)
  BY <1>1 DEF AttrValue, Header
<1>3. ~(/\ rule.attribute = "cookies" /\ IsOneOf(rule, shim.cookies)
        /\ AttrValue(shim, rule) = {})
  BY <1>1 DEF IsOneOf
<1>4. ~(/\ rule.attribute = "cookies" /\ IsOneOf(rule, fake.cookies)
        /\ AttrValue(fake, rule) = {})
  <2> SUFFICES ASSUME rule.attribute = "cookies", NEW n \in fake.cookies
               PROVE  AttrValue(fake, rule) # {}
    BY DEF IsOneOf
  <2>1. AttrValue(fake, rule) = Header(fake, "cookie")
    BY DEF AttrValue
  <2> QED BY <1>1, <2>1
<1>5. Holds(fake, rule) <=> Holds(shim, rule)
  BY <1>1, <1>2, <1>3, <1>4 DEF Holds
<1> QED BY <1>5 DEF Gain, shim, fake

\* The rule checker announces the signature that the handler settles on.
THEOREM CheckerIsRight == Spec => []CheckerAgrees
<1>1. ASSUME ResponderInv, \A h \in Handlers : Progress(h) PROVE CheckerAgrees
  <2> SUFFICES ASSUME NEW h \in Handlers, stage[h] = "respond", signatures # <<>>,
                      Comparable(signatures),
                      NEW t \in DOMAIN Traffic, Simulates(t, scan[h].request)
               PROVE  CheckerWinner(FakeRequest(Traffic, t), signatures) = Winner(h)
    BY DEF CheckerAgrees
  <2> DEFINE shim == RequestShim(scan[h].request)
             fake == FakeRequest(Traffic, t)
             sc   == Scores(shim, signatures)
             best == scan[h].best_signature
             bs   == scan[h].best_score
             N    == Len(signatures)
  <2>1. /\ sc \in [1..N -> Int] /\ bs \in Int /\ best \in Nat
        /\ IsBest(sc, N, best, bs)
    BY <1>1, Respond
  <2>2. /\ N \in Nat /\ DOMAIN signatures = 1..N
        /\ \A i \in 1..N : sc[i] >= 0 /\ Len(signatures[i].rules) \in Nat
    BY <1>1, ScoresLemma DEF ResponderInv
  <2>3. ASSUME NEW i \in 1..N PROVE Total(fake, signatures[i]) = Total(shim, signatures[i])
    <3>1. ASSUME NEW k \in Nat \ {0}, k <= Len(signatures[i].rules)
          PROVE  Gain(fake, signatures[i].rules[k]) = Gain(shim, signatures[i].rules[k])
      <4>1. k \in DOMAIN signatures[i].rules
        BY <1>1, <2>2, <3>1, ListLemma DEF ResponderInv
      <4>2. ~(signatures[i].rules[k].attribute = "cookies"
                /\ signatures[i].rules[k].condition = "absent")
        BY <2>2, <4>1 DEF Comparable
      <4> QED BY <4>2, SameGain
    <3> QED BY <2>2, <3>1, SameTotal
  <2>4. \A i \in 1..N : score_request(fake, signatures[i]) = score_request(shim, signatures[i])
    BY <2>3 DEF score_request
  <2>5. Scores(fake, signatures) = sc /\ \A i \in 1..N : sc[i] = score_request(fake, signatures[i])
    BY <2>4 DEF Scores
  <2>6. N >= 1
    <3>1. signatures = [j \in 1..N |-> signatures[j]]
      BY <1>1, SignatureAssumption DEF ResponderInv, TypeOK
    <3>2. N # 0
      BY <3>1
    <3> QED BY <2>2, <3>2
  <2> HIDE DEF sc, fake
  <2>7. best \in 1..N /\ bs = sc[best] /\ bs >= 0
    <3>1. 1 \in 1..N /\ sc[1] >= 0 /\ sc[1] \in Int
      BY <2>1, <2>2, <2>6
    <3>2. best # 0
      BY <2>1, <3>1 DEF IsBest
    <3>3. best \in 1..N /\ bs = sc[best]
      BY <2>1, <3>2 DEF IsBest
    <3> QED BY <2>2, <3>3
  <2>8. best # 0
    BY <2>2, <2>7
  <2>9. FirstBest(fake, signatures) = best
    BY <2>1, <2>2, <2>5, <2>8, FirstBestLemma
  <2>10. CheckerWinner(fake, signatures) = IF bs = 0 THEN 0 ELSE best
    BY <2>5, <2>7, <2>9 DEF CheckerWinner
  <2>11. Winner(h) = IF bs = 0 THEN 0 ELSE best
    BY <2>1, <2>7 DEF Winner
  <2> QED BY <2>10, <2>11 DEF fake
<1> QED BY <1>1, ProgressInvariant, PTL
=============================================================================
