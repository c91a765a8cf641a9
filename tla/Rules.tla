------------------------------- MODULE Rules -------------------------------
(***************************************************************************)
(* The honeypot's rules while it serves.  Agent.update_honeypot_rules      *)
(* fetches them and replaces RULES_SIGNATURES and RULES_RESPONSES under    *)
(* rules_lock; a request handler reads the one through Agent.signatures,   *)
(* chooses a response id and looks it up through Agent.responses, taking   *)
(* the lock each time and never for both (srv/web/isc_agent/agent.py and   *)
(* __main__.py).                                                           *)
(*                                                                         *)
(* Updates run in the threads of the hydrate timer and, for SIGHUP, in the *)
(* main thread, which is also the one that accepts connections.  A set of  *)
(* rules is the number of its version at dshield.org.                      *)
(***************************************************************************)
EXTENDS Naturals, FiniteSets

CONSTANTS
    Handlers,       \* the HTTP server's request threads
    Hydrators,      \* the threads of the hydrate timer
    MaxReloads,     \* bound: SIGHUPs the process receives
    MaxVersion,     \* bound: versions that dshield.org publishes
    Ids,            \* response ids
    DefaultId,      \* the id 1 that answers a request no signature matches
    Malformed,      \* versions in which a response has no id
    Referred,       \* the ids that each version's signatures name
    Present,        \* the ids of each version's responses
    NoOne

\* The main thread runs a reload_handler per SIGHUP, a later one on top of the
\* earlier ones: the frames that are not idle are its stack.
Frames == 1..MaxReloads

Updaters == Hydrators \cup Frames

Threads == Handlers \cup Updaters

\* Version 0 are the empty rules that Agent.__init__ sets.
Versions == 0..MaxVersion

ASSUME RulesAssumption ==
    /\ MaxReloads \in Nat
    /\ MaxVersion \in Nat \ {0}
    /\ Handlers \cap Updaters = {}
    /\ Hydrators \cap Frames = {}
    /\ NoOne \notin Threads
    /\ DefaultId \in Ids
    /\ Malformed \subseteq Versions \ {0}
    /\ Referred \in [Versions -> SUBSET Ids]
    /\ Present \in [Versions -> SUBSET Ids]
    /\ Referred[0] = {}
    /\ Present[0] = {}

VARIABLES
    published,          \* dshield.org's current version
    RULES_SIGNATURES,   \* version of self.RULES_SIGNATURES
    RULES_RESPONSES,    \* version of self.RULES_RESPONSES
    rules_lock,         \* holder of self.rules_lock, or NoOne
    pc,                 \* where each thread is
    honeypot_data,      \* the version an updater has fetched
    request,            \* the version a handler has read and the id it chose
    answer,             \* what became of a handler's last request
    reloads,            \* SIGHUPs received
    serving             \* no exception has ended the main thread

rules == <<RULES_SIGNATURES, RULES_RESPONSES>>
requests == <<request, answer>>
vars == <<published, RULES_SIGNATURES, RULES_RESPONSES, rules_lock, pc,
          honeypot_data, request, answer, reloads, serving>>

PCs == {"idle", "request", "response", "install", "swap", "respond"}

Stack == {f \in Frames : pc[f] # "idle"}

\* The main thread only runs its innermost reload.
Active(t) == t \in Frames => \A f \in Stack : f <= t

At(t, label) == Active(t) /\ pc[t] = label

Goto(t, label) == pc' = [pc EXCEPT ![t] = label]

\* start's own fetch has installed the first version, or it has failed and the
\* honeypot serves without rules.
Init ==
    /\ published = 1
    /\ RULES_SIGNATURES \in {0, 1}
    /\ RULES_RESPONSES = RULES_SIGNATURES
    /\ rules_lock = NoOne
    /\ pc = [t \in Threads |-> "idle"]
    /\ honeypot_data = [u \in Updaters |-> 0]
    /\ request = [h \in Handlers |-> [version |-> 0, id |-> DefaultId]]
    /\ answer = [h \in Handlers |-> "none"]
    /\ reloads = 0
    /\ serving = TRUE

-----------------------------------------------------------------------------
(* Outside the program.                                                    *)

\* dshield.org publishes new rules.
Publish ==
    /\ published < MaxVersion
    /\ published' = published + 1
    /\ UNCHANGED <<rules, rules_lock, pc, honeypot_data, requests, reloads,
                   serving>>

-----------------------------------------------------------------------------
(* update_honeypot_rules.                                                  *)

\* SIGHUP: reload_handler interrupts whatever the main thread is doing.
Sighup ==
    /\ serving
    /\ reloads < MaxReloads
    /\ reloads' = reloads + 1
    /\ Goto(Cardinality(Stack) + 1, "request")
    /\ UNCHANGED <<published, rules, rules_lock, honeypot_data, requests, serving>>

\* The hydrate timer fires.
Hydrate(u) ==
    /\ pc[u] = "idle"
    /\ Goto(u, "request")
    /\ UNCHANGED <<published, rules, rules_lock, honeypot_data, requests, reloads,
                   serving>>

\* The request is sent; or conn.request raises and the update returns.
SendRequest(u) ==
    /\ At(u, "request")
    /\ Goto(u, "response") \/ Goto(u, "idle")
    /\ UNCHANGED <<published, rules, rules_lock, honeypot_data, requests, reloads,
                   serving>>

\* Mutant: an updater that has fetched rules before uses those again.
GetResponse_Cached(u) ==
    /\ At(u, "response")
    /\ honeypot_data' = [honeypot_data EXCEPT ![u] = IF @ = 0 THEN published ELSE @]
    /\ Goto(u, "install")
    /\ UNCHANGED <<published, rules, rules_lock, requests, reloads, serving>>

\* Mutant: rules that were not fetched are installed all the same.
GetResponse_Unchecked(u) ==
    /\ At(u, "response")
    /\ honeypot_data' \in {[honeypot_data EXCEPT ![u] = v] : v \in {published, NoOne}}
    /\ Goto(u, "install")
    /\ UNCHANGED <<published, rules, rules_lock, requests, reloads, serving>>

\* Status 200 and the rules; or another status, and the update returns.
GetResponse(u) ==
    /\ At(u, "response")
    /\ \/ /\ honeypot_data' = [honeypot_data EXCEPT ![u] = published]
          /\ Goto(u, "install")
       \/ Goto(u, "idle") /\ UNCHANGED honeypot_data
    /\ UNCHANGED <<published, rules, rules_lock, requests, reloads, serving>>

\* An exception in an update.  It ends the thread of a timer, and the schedule
\* goes on.  In the main thread it unwinds the stack down to a reload that is
\* sending its request, whose try statement catches it; without one it ends
\* serve_forever.  Leaving a "with" statement releases the lock.
Raise(u) ==
    IF u \in Hydrators
    THEN /\ Goto(u, "idle")
         /\ rules_lock' = IF rules_lock = u THEN NoOne ELSE rules_lock
         /\ UNCHANGED serving
    ELSE LET catching == {f \in Stack \ {u} : pc[f] = "request"}
             unwound  == {f \in Stack : \A g \in catching : g <= f}
         IN  /\ pc' = [t \in Threads |-> IF t \in unwound THEN "idle" ELSE pc[t]]
             /\ rules_lock' = IF rules_lock \in unwound THEN NoOne ELSE rules_lock
             /\ serving' = (catching # {})

\* getresponse or json.loads raises; neither is in a try statement.
ResponseFails(u) ==
    /\ At(u, "response")
    /\ Raise(u)
    /\ UNCHANGED <<published, rules, honeypot_data, requests, reloads>>

\* Mutant: the rules are replaced without the lock.
Install_Unlocked(u) ==
    /\ At(u, "install")
    /\ RULES_SIGNATURES' = honeypot_data[u]
    /\ Goto(u, "swap")
    /\ UNCHANGED <<published, RULES_RESPONSES, rules_lock, honeypot_data, requests,
                   reloads, serving>>

\* with self.rules_lock: self.RULES_SIGNATURES = ...
Install(u) ==
    /\ At(u, "install")
    /\ rules_lock = NoOne
    /\ rules_lock' = u
    /\ RULES_SIGNATURES' = honeypot_data[u]
    /\ Goto(u, "swap")
    /\ UNCHANGED <<published, RULES_RESPONSES, honeypot_data, requests, reloads,
                   serving>>

\* self.RULES_RESPONSES = {r["id"]: r for r in ...}, and the lock is released.
Swap(u) ==
    /\ At(u, "swap")
    /\ honeypot_data[u] \notin Malformed
    /\ RULES_RESPONSES' = honeypot_data[u]
    /\ rules_lock' = NoOne
    /\ Goto(u, "idle")
    /\ UNCHANGED <<published, RULES_SIGNATURES, honeypot_data, requests, reloads,
                   serving>>

\* A response without an id: KeyError, with the signatures replaced already.
SwapFails(u) ==
    /\ At(u, "swap")
    /\ honeypot_data[u] \in Malformed
    /\ Raise(u)
    /\ UNCHANGED <<published, rules, honeypot_data, requests, reloads>>

-----------------------------------------------------------------------------
(* handle_request and responder.                                           *)

\* The main thread is in serve_forever.
Accepting == serving /\ Stack = {}

\* A connection is accepted and its handler has read the request.
AcceptRequest(h) ==
    /\ pc[h] = "idle"
    /\ Accepting
    /\ Goto(h, "request")
    /\ answer' = [answer EXCEPT ![h] = "none"]
    /\ UNCHANGED <<published, rules, rules_lock, honeypot_data, request, reloads,
                   serving>>

\* isc_agent.signatures, and the choice of a response of the best signature.
ReadSignatures(h) ==
    /\ pc[h] = "request"
    /\ rules_lock = NoOne
    /\ \E i \in Referred[RULES_SIGNATURES] \cup {DefaultId} :
          request' = [request EXCEPT ![h] = [version |-> RULES_SIGNATURES, id |-> i]]
    /\ Goto(h, "respond")
    /\ UNCHANGED <<published, rules, rules_lock, honeypot_data, answer, reloads,
                   serving>>

\* Mutant: the responses are read without the lock.
Respond_Unlocked(h) ==
    /\ pc[h] = "respond"
    /\ answer' = [answer EXCEPT ![h] =
                    IF request[h].id \in Present[RULES_RESPONSES] THEN "sent"
                                                                 ELSE "failed"]
    /\ Goto(h, "idle")
    /\ UNCHANGED <<published, rules, rules_lock, honeypot_data, request, reloads,
                   serving>>

\* Mutant: the handler tries again until the id is there.
Respond_Retries(h) ==
    /\ pc[h] = "respond"
    /\ rules_lock = NoOne
    /\ request[h].id \in Present[RULES_RESPONSES]
    /\ answer' = [answer EXCEPT ![h] = "sent"]
    /\ Goto(h, "idle")
    /\ UNCHANGED <<published, rules, rules_lock, honeypot_data, request, reloads,
                   serving>>

\* isc_agent.responses.get(response_id).  For an id that is not there it is
\* None, and dict(None) raises: handle_request logs the exception and goes on
\* without having sent anything.
Respond(h) ==
    /\ pc[h] = "respond"
    /\ rules_lock = NoOne
    /\ answer' = [answer EXCEPT ![h] =
                    IF request[h].id \in Present[RULES_RESPONSES] THEN "sent"
                                                                 ELSE "failed"]
    /\ Goto(h, "idle")
    /\ UNCHANGED <<published, rules, rules_lock, honeypot_data, request, reloads,
                   serving>>

-----------------------------------------------------------------------------

UpdateStep(u) ==
    \/ SendRequest(u) \/ GetResponse(u) \/ ResponseFails(u)
    \/ Install(u) \/ Swap(u) \/ SwapFails(u)

HandlerStep(h) == ReadSignatures(h) \/ Respond(h)

Next ==
    \/ Publish
    \/ Sighup
    \/ \E u \in Hydrators : Hydrate(u)
    \/ \E u \in Updaters : UpdateStep(u)
    \/ \E h \in Handlers : AcceptRequest(h) \/ HandlerStep(h)

Spec == Init /\ [][Next]_vars

\* The hydrate timer fires again and again (module Scheduler), threads that can
\* go on do, requests for the rules end, and they do not fail for ever.
Fairness ==
    /\ \A u \in Hydrators :
          /\ WF_vars(Hydrate(u))
          /\ SF_vars(SendRequest(u) /\ pc'[u] = "response")
          /\ SF_vars(GetResponse(u) /\ pc'[u] = "install")
    /\ \A u \in Updaters : WF_vars(SendRequest(u) \/ GetResponse(u)
                                   \/ ResponseFails(u) \/ Swap(u) \/ SwapFails(u))
    /\ \A u \in Updaters : SF_vars(Install(u))
    /\ \A h \in Handlers : SF_vars(HandlerStep(h))

FairSpec == Spec /\ Fairness

-----------------------------------------------------------------------------
(* Properties.                                                             *)

\* Every variable has the type that its comment gives it.
TypeOK ==
    /\ published \in Versions \ {0}
    /\ RULES_SIGNATURES \in Versions
    /\ RULES_RESPONSES \in Versions
    /\ rules_lock \in Updaters \cup {NoOne}
    /\ pc \in [Threads -> PCs]
    /\ honeypot_data \in [Updaters -> Versions]
    /\ request \in [Handlers -> [version : Versions, id : Ids]]
    /\ answer \in [Handlers -> {"none", "sent", "failed"}]
    /\ reloads \in 0..MaxReloads
    /\ serving \in BOOLEAN

\* What dshield.org is taken to publish: a well-formed version has the responses
\* that its signatures name, and the default one.
Complete(v) ==
    v \notin Malformed /\ Referred[v] \cup {DefaultId} \subseteq Present[v]

\* The signatures and responses properties of Agent: "Make sure we don't read
\* rules in the middle of an update".  Whoever gets the lock finds signatures
\* and responses of one version, whichever updates overlapped before, unless
\* the installation of a malformed version stopped half-way.
RulesSwappedTogether ==
    rules_lock = NoOne =>
        RULES_SIGNATURES = RULES_RESPONSES \/ RULES_SIGNATURES \in Malformed

\* With complete rules, a request goes without its response only when an update
\* has replaced the rules between the handler's two reads.
MissNeedsUpdate ==
    [][\A h \in Handlers :
          Respond(h) /\ answer'[h] = "failed" =>
             RULES_SIGNATURES # request[h].version \/ ~Complete(request[h].version)]_vars

\* Once dshield.org stays with a version that is well formed, the honeypot ends
\* up with that version and keeps it, although overlapping updates may install
\* an older version over a newer one, malformed rules leave an update half done,
\* and the main thread may end.
EventuallyFresh ==
    <>[](published \notin Malformed) =>
        <>[](RULES_SIGNATURES = published /\ RULES_RESPONSES = published)

\* A handler always gets past rules_lock.
RequestsEnd == \A h \in Handlers : pc[h] # "idle" ~> pc[h] = "idle"

=============================================================================
