----------------------------- MODULE Responder -----------------------------
(***************************************************************************)
(* The web honeypot's request handlers (srv/web/isc_agent/__main__.py):    *)
(* handle_request reads the request, scores it against the signatures,     *)
(* chooses a response, has responder send it, and records the request.     *)
(*                                                                         *)
(* responder copies the response's dictionary but not the dictionary of    *)
(* headers inside, which all handlers share that send this response, and   *)
(* it writes two headers into it and then iterates over it.  Each update   *)
(* of the rules brings dictionaries of its own, a generation; a handler    *)
(* may still use those of an earlier one.  The updates themselves, and     *)
(* that signatures and responses may be of two versions, are in Rules: a   *)
(* handler scores the one list that it has read.                           *)
(***************************************************************************)
EXTENDS Scoring, FiniteSets

CONSTANTS
    Handlers,       \* the HTTP server's request threads
    Requests,       \* requests as clients send them
    Traffic,        \* the requests that the rule checker simulates, in order
    SignatureLists, \* lists of signatures
    Ids,            \* response ids
    DefaultId,      \* the id 1 that answers a request no signature matches
    Generations,    \* bound: the sets of responses in use at a time
    Present,        \* the ids of each generation's responses
    Headerless,     \* ids of responses without a dictionary of headers
    NoBody

\* The headers that responder writes; those of the rules never change.
Keys == {"Content-Type", "Content-Length"}

\* A shared dictionary, or for a headerless response the handler's own.
Dicts == (Generations \X Ids) \cup Handlers

SignatureType(s) ==
    /\ s.rules \in Seq([condition : Conditions, attribute : Attributes,
                        name : {NoName} \cup STRING, capital : BOOLEAN,
                        text : SUBSET (STRING \cup {Unbalanced}), score : Int])
    /\ s.min_score \in Int
    /\ s.max_score \in Int
    /\ s.responses \subseteq Ids

ASSUME ResponderAssumption ==
    /\ IsFiniteSet(Handlers)
    /\ Handlers \cap (Generations \X Ids) = {}
    /\ Requests # {}
    /\ Present \in [Generations -> SUBSET Ids]
    /\ DefaultId \in Ids
    /\ Headerless \subseteq Ids
    /\ NoBody \notin Ids

ASSUME TrafficAssumption ==
    Len(Traffic) \in Nat /\ DOMAIN Traffic = 1..Len(Traffic)

ASSUME SignatureAssumption ==
    \A list \in SignatureLists :
        /\ list = [i \in 1..Len(list) |-> list[i]]
        /\ Len(list) \in Nat
        /\ \A i \in 1..Len(list) : SignatureType(list[i])

VARIABLES
    signatures,     \* the list that the handlers score against
    generation,     \* of RULES_RESPONSES
    headers,        \* for each dictionary, the keys that responder has written
    content_length, \* for each dictionary, the body that the length is of
    stage,          \* where each handler is
    scan,           \* each handler's locals in the loops over signatures and rules
    reply           \* each handler's locals in responder, and what it has sent

dicts == <<generation, headers, content_length>>
vars == <<signatures, dicts, stage, scan, reply>>

Stages == {"idle", "read", "score", "respond", "type", "length", "iterate",
           "headers", "body", "log"}

Enter(h, label) == stage' = [stage EXCEPT ![h] = label]

\* best_signature is an index, 0 for None.
NoScan(req) == [request |-> req, signature |-> 1, rule |-> 1, total_score |-> 0,
                best_signature |-> 0, best_score |-> -1]

NoReply(h) == [response_id |-> DefaultId, dict |-> h, size |-> 0,
               keys |-> {}, length |-> NoBody, body |-> NoBody]

AnyRequest == CHOOSE r \in Requests : TRUE

Init ==
    /\ signatures \in SignatureLists
    /\ generation \in Generations
    /\ headers = [d \in Dicts |-> {}]
    /\ content_length = [d \in Dicts |-> NoBody]
    /\ stage = [h \in Handlers |-> "idle"]
    /\ scan = [h \in Handlers |-> NoScan(AnyRequest)]
    /\ reply = [h \in Handlers |-> NoReply(h)]

-----------------------------------------------------------------------------
(* Outside the handlers.                                                   *)

\* The generations whose dictionaries somebody may still write to.
InUse == {generation} \cup
         {reply[h].dict[1] : h \in {g \in Handlers : reply[g].dict # g}}

\* An update has installed rules; nobody has touched their dictionaries yet.
Update ==
    \E g \in Generations \ InUse :
        /\ generation' = g
        /\ headers' = [d \in Dicts |-> IF d \in Handlers \/ d[1] # g THEN headers[d] ELSE {}]
        /\ content_length' = [d \in Dicts |-> IF d \in Handlers \/ d[1] # g
                                              THEN content_length[d] ELSE NoBody]
        /\ UNCHANGED <<signatures, stage, scan, reply>>

-----------------------------------------------------------------------------
(* handle_request up to the choice of a response.                          *)

\* The server starts a thread for the connection, which has read the headers.
Accept(h) ==
    /\ stage[h] = "idle"
    /\ \E r \in Requests : scan' = [scan EXCEPT ![h] = NoScan(r)]
    /\ Enter(h, "read")
    /\ UNCHANGED <<signatures, dicts, reply>>

\* The thread's end, in whichever way; its locals go.
End(h) ==
    /\ Enter(h, "idle")
    /\ scan' = [scan EXCEPT ![h] = NoScan(AnyRequest)]
    /\ reply' = [reply EXCEPT ![h] = NoReply(h)]

\* The body is read, and taken as empty if it cannot be decoded.  Nothing catches
\* what int raises for a Content-Length that is no number, nor what rfile.read
\* raises when the client resets the connection: the thread ends.
ReadBody(h) ==
    /\ stage[h] = "read"
    /\ \/ /\ scan[h].request.numeric
          /\ Enter(h, "score")
          /\ UNCHANGED <<scan, reply>>
       \/ End(h)
    /\ UNCHANGED <<signatures, dicts>>

Current(h) == signatures[scan[h].signature]

MoreRules(h) ==
    scan[h].signature <= Len(signatures) /\ scan[h].rule <= Len(Current(h).rules)

\* One turn of score_request's loop.  A pattern that cannot be compiled ends the
\* thread: nothing catches it either.
ScoreRule(h) ==
    /\ stage[h] = "score"
    /\ MoreRules(h)
    /\ LET rule == Current(h).rules[scan[h].rule]
       IN  IF CannotCompile(rule)
           THEN End(h)
           ELSE /\ scan' = [scan EXCEPT ![h].rule = @ + 1,
                              ![h].total_score = @ + Gain(RequestShim(scan[h].request), rule)]
                /\ UNCHANGED <<stage, reply>>
    /\ UNCHANGED <<signatures, dicts>>

\* Mutant: of two signatures with the same score, the later one.
Better_OrEqual(score, best_score) == score >= best_score

\* score > best_score
Better(score, best_score) == score > best_score

\* The score of the signature, and the next one.
EndSignature(h) ==
    /\ stage[h] = "score"
    /\ scan[h].signature <= Len(signatures)
    /\ ~MoreRules(h)
    /\ LET score == Clamped(scan[h].total_score, Current(h))
           next  == [scan[h] EXCEPT !.signature = @ + 1, !.rule = 1, !.total_score = 0]
       IN  scan' = [scan EXCEPT ![h] =
                IF Better(score, scan[h].best_score)
                THEN [next EXCEPT !.best_signature = scan[h].signature, !.best_score = score]
                ELSE next]
    /\ UNCHANGED <<signatures, dicts, stage, reply>>

\* One of the best signature's responses, or the default.  random.choice raises
\* when there is none to choose from.
ChooseResponse(h) ==
    /\ stage[h] = "score"
    /\ scan[h].signature > Len(signatures)
    /\ LET matched == scan[h].best_signature # 0 /\ scan[h].best_score > 0
           choices == IF matched THEN signatures[scan[h].best_signature].responses
                                 ELSE {DefaultId}
       IN  IF choices = {}
           THEN End(h)
           ELSE /\ \E i \in choices : reply' = [reply EXCEPT ![h].response_id = i]
                /\ Enter(h, "respond")
                /\ UNCHANGED scan
    /\ UNCHANGED <<signatures, dicts>>

-----------------------------------------------------------------------------
(* responder.                                                              *)

\* Mutant: a response without headers takes those of the default response.
DictOf_Default(h, i) == <<generation, IF i \in Headerless THEN DefaultId ELSE i>>

\* resp.get("headers", {}) of a shallow copy of the response.
DictOf(h, i) == IF i \in Headerless THEN h ELSE <<generation, i>>

\* dict(isc_agent.responses.get(response_id)): the response; or an exception,
\* which handle_request logs.
LookUp(h) ==
    /\ stage[h] = "respond"
    /\ LET d == DictOf(h, reply[h].response_id)
       IN  IF reply[h].response_id \in Present[generation]
           THEN /\ Enter(h, "type")
                /\ reply' = [reply EXCEPT ![h].dict = d]
                /\ headers' = [headers EXCEPT ![h] = {}]
                /\ content_length' = [content_length EXCEPT ![h] = NoBody]
           ELSE Enter(h, "log") /\ UNCHANGED <<reply, headers, content_length>>
    /\ UNCHANGED <<signatures, generation, scan>>

\* headers["Content-Type"] = headers.get("Content-Type", "text/html")
SetType(h) ==
    /\ stage[h] = "type"
    /\ headers' = [headers EXCEPT ![reply[h].dict] = @ \cup {"Content-Type"}]
    /\ Enter(h, "length")
    /\ UNCHANGED <<signatures, generation, content_length, scan, reply>>

\* Mutant: the length is only written once the iterator exists.
SetLength_Late(h) ==
    /\ stage[h] = "length"
    /\ reply' = [reply EXCEPT ![h].size = Cardinality(headers[reply[h].dict])]
    /\ headers' = [headers EXCEPT ![reply[h].dict] = @ \cup {"Content-Length"}]
    /\ content_length' = [content_length EXCEPT ![reply[h].dict] = reply[h].response_id]
    /\ Enter(h, "headers")
    /\ UNCHANGED <<signatures, generation, scan>>

\* headers["Content-Length"] = str(len(body_bytes))
SetLength(h) ==
    /\ stage[h] = "length"
    /\ headers' = [headers EXCEPT ![reply[h].dict] = @ \cup {"Content-Length"}]
    /\ content_length' = [content_length EXCEPT ![reply[h].dict] = reply[h].response_id]
    /\ Enter(h, "iterate")
    /\ UNCHANGED <<signatures, generation, scan, reply>>

\* headers.items(): the iterator notes the size of the dictionary.
Iterate(h) ==
    /\ stage[h] = "iterate"
    /\ reply' = [reply EXCEPT ![h].size = Cardinality(headers[reply[h].dict])]
    /\ Enter(h, "headers")
    /\ UNCHANGED <<signatures, dicts, scan>>

Resized(h) == Cardinality(headers[reply[h].dict]) # reply[h].size

\* The iterator yields another key with the value it has now; or the dictionary
\* has grown meanwhile, and its RuntimeError ends the response.
SendHeader(h) ==
    /\ stage[h] = "headers"
    /\ IF Resized(h)
       THEN Enter(h, "log") /\ UNCHANGED reply
       ELSE /\ \E key \in headers[reply[h].dict] \ reply[h].keys :
                  reply' = [reply EXCEPT
                              ![h].keys = @ \cup {key},
                              ![h].length = IF key = "Content-Length"
                                            THEN content_length[reply[h].dict] ELSE @]
            /\ UNCHANGED stage
    /\ UNCHANGED <<signatures, dicts, scan>>

\* The headers, in a buffer so far, are written.
EndHeaders(h) ==
    /\ stage[h] = "headers"
    /\ ~Resized(h)
    /\ headers[reply[h].dict] \subseteq reply[h].keys
    /\ Enter(h, "body")
    /\ UNCHANGED <<signatures, dicts, scan, reply>>

SendBody(h) ==
    /\ stage[h] = "body"
    /\ reply' = [reply EXCEPT ![h].body = reply[h].response_id]
    /\ Enter(h, "log")
    /\ UNCHANGED <<signatures, dicts, scan>>

\* Mutant: without the try statement around responder.
SendFails_NotCaught(h) ==
    /\ stage[h] = "body"
    /\ End(h)
    /\ UNCHANGED <<signatures, dicts>>

\* The client has gone: an exception, which handle_request logs.
SendFails(h) ==
    /\ stage[h] = "body"
    /\ Enter(h, "log")
    /\ UNCHANGED <<signatures, dicts, scan, reply>>

\* isc_agent.add_to_queue(log_data), and the thread ends.
AddToQueue(h) ==
    /\ stage[h] = "log"
    /\ End(h)
    /\ UNCHANGED <<signatures, dicts>>

-----------------------------------------------------------------------------

Choosing(h) ==
    Accept(h) \/ ReadBody(h) \/ ScoreRule(h) \/ EndSignature(h) \/ ChooseResponse(h)

Responding(h) ==
    \/ LookUp(h) \/ SetType(h) \/ SetLength(h) \/ Iterate(h) \/ SendHeader(h)
    \/ EndHeaders(h) \/ SendBody(h) \/ SendFails(h) \/ AddToQueue(h)

Next == Update \/ \E h \in Handlers : Choosing(h) \/ Responding(h)

Spec == Init /\ [][Next]_vars

-----------------------------------------------------------------------------
(* Properties.                                                             *)

ScanType ==
    [request : Requests, signature : Nat \ {0}, rule : Nat \ {0},
     total_score : Int, best_signature : Nat, best_score : Int]

ReplyType ==
    [response_id : Ids, dict : Dicts, size : 0..Cardinality(Keys),
     keys : SUBSET Keys, length : Ids \cup {NoBody}, body : Ids \cup {NoBody}]

\* Every variable has the type that its comment gives it.
TypeOK ==
    /\ signatures \in SignatureLists
    /\ generation \in Generations
    /\ headers \in [Dicts -> SUBSET Keys]
    /\ content_length \in [Dicts -> Ids \cup {NoBody}]
    /\ stage \in [Handlers -> Stages]
    /\ scan \in [Handlers -> ScanType]
    /\ reply \in [Handlers -> ReplyType]

\* The signature that handle_request has settled on, 0 for the default response.
Winner(h) == IF scan[h].best_score > 0 THEN scan[h].best_signature ELSE 0

\* "best_signature": a request is answered for the first of the signatures with
\* the highest score, or with the default response if none scores at all: not
\* for one that misses its min_score or whose max_score is 0.
ChosenIsFirstBest ==
    \A h \in Handlers : stage[h] = "respond" =>
        LET shim     == RequestShim(scan[h].request)
            positive == {i \in DOMAIN signatures :
                            score_request(shim, signatures[i]) > 0}
        IN  IF positive = {}
            THEN reply[h].response_id = DefaultId
            ELSE /\ Winner(h) = FirstBest(shim, signatures)
                 /\ Total(shim, signatures[Winner(h)]) >= signatures[Winner(h)].min_score
                 /\ reply[h].response_id \in signatures[Winner(h)].responses

\* Signatures that the checker sees as the honeypot does: none can score below zero,
\* and no rule asks for cookies by name, of which the handler's request has none.
Comparable(list) ==
    \A i \in DOMAIN list :
        /\ list[i].max_score >= 0
        /\ \A k \in DOMAIN list[i].rules :
              LET rule == list[i].rules[k]
              IN  /\ rule.score >= 0
                  /\ ~(rule.attribute = "cookies" /\ rule.condition = "absent")

\* The request is what a client sends for the item, nothing in it is to be unquoted
\* or renamed, and no later item writes its Cookie to the same dictionary.
Simulates(i, r) ==
    LET item == Traffic[i]
    IN  /\ r.uri = item.uri /\ r.method = item.method /\ r.headers = OwnHeaders(item)
        /\ r.uri \cap DOMAIN Quoted = {}
        /\ DOMAIN r.headers \cap DOMAIN Underscored = {}
        /\ Omits(item) => \A j \in DOMAIN Traffic : Omits(Traffic[j]) => j <= i

\* The rule checker announces the signature that the honeypot then answers for,
\* for an item that simulates the request and comparable signatures.
CheckerAgrees ==
    \A h \in Handlers : \A i \in DOMAIN Traffic :
        /\ stage[h] = "respond" /\ signatures # <<>> /\ Comparable(signatures)
        /\ Simulates(i, scan[h].request)
        => CheckerWinner(FakeRequest(Traffic, i), signatures) = Winner(h)

\* Signatures that make a handler raise where nothing catches it.
Broken(list) ==
    \E i \in DOMAIN list :
        \/ list[i].responses = {}
        \/ \E k \in DOMAIN list[i].rules : CannotCompile(list[i].rules[k])

\* "Record response for ISC": a request whose body has been read is recorded,
\* whatever becomes of the response, also when it was not found or the client has
\* gone meanwhile; only signatures that are broken prevent it.
RecordedUnlessBroken ==
    [][\A h \in Handlers :
          stage[h] \notin {"idle", "read"} /\ stage'[h] = "idle" =>
             stage[h] = "log" \/ Broken(signatures)]_vars

\* No handler's dictionary grows under its iterator: whoever iterates has put
\* both keys in before, so that the others that write to it only replace them.
IteratesUndisturbed == \A h \in Handlers : stage[h] = "headers" => ~Resized(h)

\* The Content-Length that went out is that of the body that follows, although
\* any handler may have written it.
LengthIsOfBody ==
    \A h \in Handlers : reply[h].body # NoBody =>
        reply[h].keys = Keys /\ reply[h].length = reply[h].body
=============================================================================
