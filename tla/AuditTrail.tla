----------------------------- MODULE AuditTrail -----------------------------
(***************************************************************************)
(* The audit events of mutations: auditMiddleware of src/middleware/audit.js*)
(* around the handlers under /api/, createAuditLog() and getAuditLogs() of *)
(* src/services/auditLog.js, appendAuditEvent() of                         *)
(* src/services/auditLogStore.js.                                          *)
(*                                                                         *)
(* The middleware wraps res.json() and res.send().  Express's json() sends *)
(* through this.send(), so the wrapped functions meet the same answer more *)
(* than once.  An event is inserted without being awaited: it takes its    *)
(* created_at, commits later or fails, and the answer does not wait.       *)
(* Meanwhile a reader pages through the events, newest first.  Triggers    *)
(* keep rows from being changed or deleted; clearAuditLogs(), which drops  *)
(* them and refuses to run in production, is left out.                     *)
(***************************************************************************)
EXTENDS Naturals, FiniteSets

CONSTANTS
  Mutations,    \* requests
  PageCap,      \* MAX_PAGE_SIZE
  AskedLimit    \* the limit the reader asks for

ASSUME AuditAssumption ==
  {PageCap, AskedLimit} \subseteq Nat \ {0}

VARIABLES
  stamp,    \* the database clock
  answers,  \* each request: method, answer, how far it is, captures so far
  inserts,  \* inserts under way: [by, nth, at], the nth of a request with its created_at
  events,   \* audit_log_events
  reader    \* the reader: [at, offset, got, first], first the events it began with

auditVars == <<stamp, answers, inserts, events, reader>>

Methods == {"mutation", "read"}
Codes == {200, 201, 400, 500}

AuditTypeOK ==
  /\ stamp \in Nat
  /\ \A r \in Mutations :
       /\ answers[r].method \in Methods /\ answers[r].api \in BOOLEAN /\ answers[r].code \in Codes
       /\ answers[r].via \in {"json", "send"} /\ answers[r].body \in {"object", "text", "none"}
       /\ answers[r].at \in {"handler", "json", "string", "sent"}
  /\ inserts \union events \subseteq [by : Mutations, nth : 0..2, at : Nat]

\* How a handler will answer: by json() or by send() with an object, a text that
\* is not JSON, or nothing.
Handling == [method : Methods, api : BOOLEAN, code : Codes, via : {"json", "send"},
             body : {"object", "text", "none"}, at : {"handler"}]

AuditInit ==
  /\ stamp = 1
  /\ answers \in [Mutations -> Handling]
  /\ inserts = {}
  /\ events = {}
  /\ reader = [at |-> "idle", offset |-> 0, got |-> {}, first |-> {}]

-----------------------------------------------------------------------------
(* The middleware.                                                         *)

\* auditMiddleware() passes reads and other paths by.
Watched(r) == answers[r].method = "mutation" /\ answers[r].api

\* wasSuccessful.
Successful(code) == code >= 200 /\ code < 300

Taken(r) == Cardinality({e \in inserts \union events : e.by = r})

\* createAuditLog(): the database gives the event its created_at.
CreateAuditLog(r) ==
  /\ stamp' \in {stamp, stamp + 1}
  /\ inserts' = inserts \union {[by |-> r, nth |-> Taken(r), at |-> stamp']}

\* captureResponse(): a 2xx answer with a body is logged, and nobody waits for it.
Capture(r, body) ==
  IF Watched(r) /\ Successful(answers[r].code) /\ body = "object" THEN CreateAuditLog(r)
  ELSE UNCHANGED <<inserts, stamp>>

\* res.send() of the handler: an object goes on to json(), text is sent.
SendOverride(r) ==
  /\ answers[r].at = "handler" /\ answers[r].via = "send"
  /\ Capture(r, answers[r].body)
  /\ answers' = [answers EXCEPT ![r].at = IF answers[r].body = "object" THEN "json" ELSE "sent"]
  /\ UNCHANGED <<events, reader>>

\* res.json(): captured, then written as a string by this.send().
JsonOverride(r) ==
  /\ \/ answers[r].at = "handler" /\ answers[r].via = "json"
     \/ answers[r].at = "json"
  /\ Capture(r, answers[r].body)
  /\ answers' = [answers EXCEPT ![r].at = "string"]
  /\ UNCHANGED <<events, reader>>

\* The wrapped send() parses the string and captures it again.
SendString(r) ==
  /\ answers[r].at = "string"
  /\ Capture(r, answers[r].body)
  /\ answers' = [answers EXCEPT ![r].at = "sent"]
  /\ UNCHANGED <<events, reader>>

\* appendAuditEvent(): committed in any order.
AppendAuditEvent(e) ==
  /\ inserts' = inserts \ {e}
  /\ events' = events \union {e}
  /\ UNCHANGED <<stamp, answers, reader>>

\* The insert fails or the process dies; the error is only logged.
LoseEvent(e) ==
  /\ inserts' = inserts \ {e}
  /\ UNCHANGED <<stamp, answers, events, reader>>

-----------------------------------------------------------------------------
(* The reader.                                                             *)

StartReading ==
  /\ reader.at = "idle"
  /\ reader' = [at |-> "paging", offset |-> 0, got |-> {}, first |-> events]
  /\ UNCHANGED <<stamp, answers, inserts, events>>

\* cappedLimit.
CappedLimit == IF AskedLimit > PageCap THEN PageCap ELSE AskedLimit

\* The places an event may have in the order of the query: after the newer ones,
\* in any order with those of the same created_at.
Places(e) ==
  LET newer == Cardinality({d \in events : d.at > e.at})
  IN (newer + 1)..(newer + Cardinality({d \in events : d.at = e.at}))

PagesBetween(from, to) ==
  {rows \in SUBSET events : \A e \in events :
     Cardinality({d \in rows : d.at = e.at}) = Cardinality(Places(e) \intersect (from..to))}

PageRowsShort(offset) == PagesBetween(offset + 1, offset + CappedLimit - 1)

\* getAuditLogs(): ORDER BY created_at DESC LIMIT OFFSET.
PageRows(offset) == PagesBetween(offset + 1, offset + CappedLimit)

\* "use the offset parameter to paginate", until a page is empty.
ReadEvents ==
  /\ reader.at = "paging"
  /\ \E rows \in PageRows(reader.offset) :
       reader' = [reader EXCEPT !.at = IF rows = {} THEN "done" ELSE "paging",
                                 !.offset = @ + CappedLimit, !.got = @ \union rows]
  /\ UNCHANGED <<stamp, answers, inserts, events>>

AuditNext ==
  \/ \E r \in Mutations : SendOverride(r) \/ JsonOverride(r) \/ SendString(r)
  \/ \E e \in inserts : AppendAuditEvent(e) \/ LoseEvent(e)
  \/ StartReading \/ ReadEvents

AuditSpec == AuditInit /\ [][AuditNext]_auditVars

-----------------------------------------------------------------------------
(* Properties.                                                             *)

\* Paging by offset through the newest-first log, to the first empty page, meets
\* every event that was there at the start and shares its created_at with no
\* other: events that commit meanwhile, late ones with an older created_at
\* included, only push rows to later pages, and none is ever removed.  Events of
\* one created_at may change places between two pages and be missed.
TrailReadWhole ==
  reader.at = "done" =>
    \A e \in reader.first : e \in reader.got \/ \E d \in events \ {e} : d.at = e.at

-----------------------------------------------------------------------------
(* The inductive invariant behind TrailReadWhole.                          *)

Newer(e) == {d \in events : d.at > e.at}
Shared(e) == \E d \in events \ {e} : d.at = e.at

\* An event that was there at the start and is alone with its created_at has been
\* read, or it still lies behind at least offset newer ones.
AuditInv ==
  /\ stamp \in Nat
  /\ IsFiniteSet(inserts) /\ IsFiniteSet(events)
  /\ \A e \in inserts \union events : e.at \in 0..stamp
  /\ reader.at \in {"idle", "paging", "done"} /\ reader.offset \in Nat /\ reader.first \subseteq events
  /\ reader.at # "idle" =>
       \A e \in reader.first :
         \/ e \in reader.got \/ Shared(e)
         \/ reader.at = "paging" /\ Cardinality(Newer(e)) >= reader.offset

=============================================================================
