---------------------------- MODULE RequestGates ----------------------------
(***************************************************************************)
(* What stands in front of the handlers, in the order of createApp()       *)
(* (src/app.js): the CORS allowlist (src/config/cors.js), the body-size    *)
(* guards (src/middleware/bodySizeLimits.js), API keys and tokens          *)
(* (src/middleware/apiKeyAuth.js, auth.js, stacks.js,                      *)
(* src/config/apiKeys.js), the tenant (src/middleware/tenant.js) and the   *)
(* limiter of sensitive operations (src/middleware/rateLimit.js).          *)
(*                                                                         *)
(* An origin is written in one of several ways, of which normalizeOrigin() *)
(* makes one, or nothing ("null") of one that is no URL.  URLs of a scheme *)
(* without origins all have one normalised origin, a member of Origins     *)
(* like any other.  Preflights, which the cors package answers itself, are *)
(* not among the requests.                                                 *)
(*                                                                         *)
(* Several requests pass the gates at once, and only the limiter has state *)
(* they share.  express-rate-limit's MemoryStore is external: a window per *)
(* key that opens with the first request.                                  *)
(***************************************************************************)
EXTENDS Naturals, FiniteSets

CONSTANTS
  Arrivals,        \* requests
  Origins,         \* origins, normalised
  DevOrigins,      \* DEV_DEFAULT_ORIGINS
  Environments,    \* values of CORS_ALLOWED_ORIGINS and NODE_ENV: [listed, development]
  JsonLimit, FormLimit, InvoiceLimit,   \* DEFAULT_LIMITS
  Sizes,           \* body sizes
  Users,           \* ids a token may carry
  Keys,            \* API keys
  Registries,      \* values API_KEYS may have: sequences of [key, valid, revoked]
  Addresses,       \* client addresses
  SensitiveMax,    \* RATE_LIMIT_SENSITIVE_MAX
  SensitiveWindow, \* RATE_LIMIT_SENSITIVE_WINDOW_MS
  Absent,          \* a header or claim that is missing
  GateHorizon      \* bound on the clock

\* How an origin is written in the list or in a request's header.
Written == [of : Origins \union {"null"}, plain : BOOLEAN]

ASSUME GateAssumption ==
  /\ IsFiniteSet(Arrivals)
  /\ DevOrigins \subseteq Origins /\ "null" \notin Origins
  /\ Environments \subseteq [listed : SUBSET Written, development : BOOLEAN]
  /\ {JsonLimit, FormLimit, InvoiceLimit, SensitiveMax, SensitiveWindow} \subseteq Nat \ {0}
  /\ Sizes \subseteq Nat /\ GateHorizon \in Nat
  /\ Keys \intersect (Users \union {"subject"}) = {}
  /\ \A entries \in Registries : \A i \in DOMAIN entries : entries[i].key \in Keys

Routes == {"invoices", "admin", "tenant", "sensitive"}

\* A request: where its page is from, its body, as sent and as its Content-Length says, and what it
\* shows of itself.  A token is missing, refused by jwt.verify(), or carries an
\* id; one without an id carries the name of its subject only.
Messages ==
  [origin : Written \union {Absent}, route : Routes, type : {"json", "form", "other"}, size : Sizes,
   declared : BOOLEAN, key : Keys \union {Absent, "unknown"},
   token : Users \union {Absent, "bad", "subject"}, tenant : BOOLEAN, ip : Addresses]

VARIABLES
  corsEnv,  \* the environment of this process, as createCorsOptions() reads it
  apiKeys,  \* API_KEYS of this process
  gateNow,  \* the clock
  arrivals, \* each request: its message, the gate it is at, who it was taken for
  windows   \* the MemoryStore: key -> [hits, resetAt]

gateVars == <<corsEnv, apiKeys, gateNow, arrivals, windows>>

Gates == {"unsent", "origin", "body", "auth", "limit", "handler", "403", "413", "401", "400", "429", "500"}
Counted == Users \union Keys \union Addresses

Arrival == [msg : Messages, at : Gates, client : Keys \union Users \union {Absent, "subject"},
            admitted : Nat]

GateTypeOK ==
  /\ corsEnv \in Environments /\ apiKeys \in Registries
  /\ gateNow \in 0..GateHorizon
  /\ arrivals \in [Arrivals -> Arrival]
  /\ windows \in [Counted -> [hits : Nat, resetAt : Nat]]

GateInit ==
  /\ corsEnv \in Environments /\ apiKeys \in Registries
  /\ gateNow = 0
  /\ arrivals \in [Arrivals -> [msg : Messages, at : {"unsent", "origin"}, client : {Absent}, admitted : {0}]]
  /\ windows = [k \in Counted |-> [hits |-> 0, resetAt |-> 0]]

-----------------------------------------------------------------------------
(* The origin.                                                             *)

\* getAllowedOriginsFromEnv(): the entries listed, or the defaults of development.
AllowedOrigins ==
  IF corsEnv.listed # {} THEN corsEnv.listed
  ELSE IF corsEnv.development THEN [of : DevOrigins, plain : {TRUE}] ELSE {}

\* isAllowedOrigin() compares what normalizeOrigin() makes of the header and of
\* the entries.
IsAllowedOrigin(origin) ==
  origin.of # "null" /\ \E entry \in AllowedOrigins : entry.of = origin.of

\* The origin function of createCorsOptions(): without the header a request passes.
PassesCors(msg) == IF msg.origin = Absent THEN TRUE ELSE IsAllowedOrigin(msg.origin)

\* handleCorsError() answers the error.
CheckOrigin(r) ==
  /\ arrivals[r].at = "origin"
  /\ arrivals' = [arrivals EXCEPT ![r].at = IF PassesCors(arrivals[r].msg) THEN "body" ELSE "403"]
  /\ UNCHANGED <<corsEnv, apiKeys, gateNow, windows>>

-----------------------------------------------------------------------------
(* The body.                                                               *)

\* enforceDeclaredBodyLimit(): only a declared length is looked at, whatever
\* the type of the body.
TooLong(msg, limit) == msg.declared /\ msg.size > limit

NeverOverflows(msg, type, limit) == FALSE

\* express.json() and express.urlencoded() read and measure a body of their type;
\* payloadTooLargeHandler() answers for a stream that grows too long.
Overflows(msg, type, limit) == msg.type = type /\ msg.size > limit

\* jsonBodyLimit() and urlencodedBodyLimit() for every request, invoiceBodyLimit()
\* for POST /api/invoices, which finds the body read.
RejectsBody(msg) ==
  \/ TooLong(msg, JsonLimit) \/ Overflows(msg, "json", JsonLimit)
  \/ TooLong(msg, FormLimit) \/ Overflows(msg, "form", FormLimit)
  \/ msg.route = "invoices" /\ TooLong(msg, InvoiceLimit)

ReadBody(r) ==
  LET msg == arrivals[r].msg
  IN /\ arrivals[r].at = "body"
     /\ arrivals' = [arrivals EXCEPT ![r].at = IF RejectsBody(msg) THEN "413"
                                              ELSE IF msg.route = "invoices" THEN "handler" ELSE "auth"]
     /\ UNCHANGED <<corsEnv, apiKeys, gateNow, windows>>

-----------------------------------------------------------------------------
(* Who asks, and for which tenant.                                         *)

\* adminAuth(): a key, when one is sent, and the token only otherwise.
UsesKey(msg) == msg.route \in {"admin", "sensitive"} /\ msg.key # Absent

\* parseApiKeys() stops at an entry that validateEntry() refuses or that is not
\* JSON, and buildKeyRegistry() at a key it has already.
RegistryBroken ==
  \/ \E i \in DOMAIN apiKeys : ~ apiKeys[i].valid
  \/ \E i, j \in DOMAIN apiKeys : i # j /\ apiKeys[i].key = apiKeys[j].key

Granted == {apiKeys[i].key : i \in {j \in DOMAIN apiKeys : ~ apiKeys[j].revoked}}

\* authenticateApiKey() with findEntry(), and authenticateToken().
Accepted(msg) ==
  IF UsesKey(msg) THEN msg.key \in Granted ELSE msg.token \notin {Absent, "bad"}

\* The stacks of src/middleware/stacks.js: who asks, then extractTenant(), from
\* the header or the token.  The retention routes have the limiter instead.  The
\* registry is loaded for each request with a key, and its error is answered by
\* the error handler.
Admit(msg) ==
  IF UsesKey(msg) /\ RegistryBroken THEN "500"
  ELSE IF ~ Accepted(msg) THEN "401"
  ELSE IF msg.route = "sensitive" THEN "limit"
  ELSE IF msg.tenant THEN "handler" ELSE "400"

Authenticate(r) ==
  LET msg == arrivals[r].msg
  IN /\ arrivals[r].at = "auth"
     /\ arrivals' = [arrivals EXCEPT ![r].at = Admit(msg),
                                     ![r].client = IF Admit(msg) \in {"401", "500"} THEN Absent
                                                   ELSE IF UsesKey(msg) THEN msg.key ELSE msg.token]
     /\ UNCHANGED <<corsEnv, apiKeys, gateNow, windows>>

-----------------------------------------------------------------------------
(* sensitiveLimiter.                                                       *)

ByAddress(r) == arrivals[r].msg.ip

\* keyGenerator(): the user's id, or the key sent, or the address.
KeyGenerator(r) ==
  IF arrivals[r].client \in Users THEN arrivals[r].client
  ELSE IF arrivals[r].msg.key \in Keys THEN arrivals[r].msg.key
  ELSE arrivals[r].msg.ip

\* MemoryStore.increment(): a window that has ended begins again.
Hit(k) ==
  IF windows[k].resetAt <= gateNow THEN [hits |-> 1, resetAt |-> gateNow + SensitiveWindow]
                                   ELSE [windows[k] EXCEPT !.hits = @ + 1]

Limit(r) ==
  LET k == KeyGenerator(r)
  IN /\ arrivals[r].at = "limit"
     /\ windows' = [windows EXCEPT ![k] = Hit(k)]
     /\ arrivals' = [arrivals EXCEPT ![r].at = IF Hit(k).hits <= SensitiveMax THEN "handler" ELSE "429",
                                     ![r].admitted = gateNow]
     /\ UNCHANGED <<corsEnv, apiKeys, gateNow>>

GateTick ==
  /\ gateNow < GateHorizon
  /\ gateNow' = gateNow + 1
  /\ UNCHANGED <<corsEnv, apiKeys, arrivals, windows>>

GateNext ==
  \/ \E r \in Arrivals :
       CheckOrigin(r) \/ ReadBody(r) \/ Authenticate(r) \/ Limit(r)
  \/ GateTick

GateSpec == GateInit /\ [][GateNext]_gateVars

-----------------------------------------------------------------------------
(* Properties.                                                             *)

\* The sensitive requests of a client that the limiter let through at the times given.
Served(client, times) ==
  {r \in Arrivals : /\ arrivals[r].at = "handler" /\ arrivals[r].msg.route = "sensitive"
                    /\ arrivals[r].client = client /\ arrivals[r].admitted \in times}

Admitted(client, from) == Served(client, from..(from + SensitiveWindow - 1))

\* In any interval as long as the limiter's window, a user with an id or an API
\* key gets at most 2 * max - 1 sensitive requests through, from however many
\* addresses: the windows are fixed, so two of them may meet, but each opens
\* with a request of its own.
RateBounded ==
  \A client \in Users \union Keys : \A from \in 0..GateHorizon :
    Cardinality(Admitted(client, from)) <= 2 * SensitiveMax - 1

\* A handler is reached only through its gates: from a page of an origin the
\* configuration names, and of one of the development defaults only in development
\* and with an empty list; with a body that was measured,
\* also when no length was declared, with a credential that is known, a bad key
\* sent along with a good token included, and with a tenant where the stack asks
\* for one.  A key opens nothing once an entry of the registry revokes it, also
\* when another entry lists it again.
HandlersGuarded ==
  \A r \in Arrivals : LET msg == arrivals[r].msg IN
    arrivals[r].at = "handler" =>
      /\ msg.origin # Absent =>
           /\ msg.origin.of \in Origins
           /\ \/ \E entry \in corsEnv.listed : entry.of = msg.origin.of
              \/ corsEnv.listed = {} /\ corsEnv.development /\ msg.origin.of \in DevOrigins
      /\ msg.type = "json" => msg.size <= JsonLimit
      /\ msg.type = "form" => msg.size <= FormLimit
      /\ msg.route # "invoices" =>
           /\ arrivals[r].client # Absent
           /\ \A i \in DOMAIN apiKeys : apiKeys[i].revoked => arrivals[r].client # apiKeys[i].key
      /\ msg.route \in {"admin", "tenant"} => msg.tenant

\* What the gates a request is past have made sure of.
Passed ==
  \A r \in Arrivals : LET msg == arrivals[r].msg IN
    /\ arrivals[r].at \in {"body", "auth", "limit", "handler"} => PassesCors(msg)
    /\ arrivals[r].at \in {"auth", "limit", "handler"} => ~ RejectsBody(msg)
    /\ arrivals[r].at = "auth" => msg.route # "invoices"
    /\ arrivals[r].at = "limit" => msg.route = "sensitive"
    /\ arrivals[r].at \in {"limit", "handler"} /\ msg.route # "invoices"
       => /\ Accepted(msg) /\ (UsesKey(msg) => ~ RegistryBroken)
          /\ arrivals[r].client = IF UsesKey(msg) THEN msg.key ELSE msg.token
    /\ arrivals[r].at = "handler" /\ msg.route \in {"admin", "tenant"} => msg.tenant

\* The inductive invariant of the gates.
GateInv == GateTypeOK /\ Passed

\* The window of a client's key accounts for what it let through: those of the
\* window, less one after the instant that opened it, and at most max - 1 in the
\* stretch before it that an interval reaching into it may cover.
WindowCounts(k) ==
  LET resetAt == windows[k].resetAt
      hits == windows[k].hits
      opened == resetAt - SensitiveWindow
  IN IF resetAt = 0 THEN Served(k, Nat) = {}
     ELSE /\ opened \in 0..gateNow /\ hits > 0
          /\ \A r \in Served(k, Nat) : arrivals[r].admitted < resetAt /\ arrivals[r].admitted <= gateNow
          /\ LET within == Cardinality(Served(k, {t \in Nat : t >= opened}))
                 later == Cardinality(Served(k, {t \in Nat : t > opened}))
             IN within <= hits /\ within <= SensitiveMax /\ later < hits /\ later < SensitiveMax
          /\ \A from \in 0..GateHorizon : from + SensitiveWindow > opened =>
               Cardinality(Served(k, from..(opened - 1))) < SensitiveMax

\* The inductive invariant of the limiter.
RateInv == GateInv /\ RateBounded /\ \A k \in Users \union Keys : WindowCounts(k)

=============================================================================
