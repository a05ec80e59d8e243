------------------------- MODULE RequestGatesProofs -------------------------
(***************************************************************************)
(* The gates in front of a handler and the window of the rate limiter, for *)
(* any requests, origins, users, keys, tenants and values of               *)
(* CORS_ALLOWED_ORIGINS and API_KEYS, any limit and any window.            *)
(*                                                                         *)
(* GateInv: what a request has passed on its way.  RateInv: a window counts *)
(* the requests it let through since it opened, and what was let through   *)
(* before it opened fitted the windows before it.                          *)
(***************************************************************************)
EXTENDS RequestGates, FiniteSetTheorems, TLAPS

-----------------------------------------------------------------------------
(* The sum of two windows.                                                 *)

\* Fewer than a window's worth before it opened, and up to a window's worth in it.
LEMMA TwoWindows ==
  ASSUME NEW a \in Nat, NEW b \in Nat, NEW n \in Nat, NEW c \in Nat, NEW most \in Nat, NEW used \in Nat,
         n <= a + b, a < most, b <= used, used + 1 <= most, c <= n + 1
  PROVE  c <= 2 * most - 1
OBVIOUS

-----------------------------------------------------------------------------
(* The gates.                                                              *)

\* Nobody is past a gate.
LEMMA GateStart == GateInit => GateInv
<1> SUFFICES ASSUME GateInit PROVE GateInv
  OBVIOUS
<1>1. GateTypeOK
  BY GateAssumption DEF GateInit, GateTypeOK, Arrival, Gates
<1>2. \A r \in Arrivals : arrivals[r].at \in {"unsent", "origin"}
  BY DEF GateInit
<1> QED BY <1>1, <1>2 DEF GateInv, Passed

\* A step of one request that leaves the keys alone preserves the invariant if the
\* request itself is in order after it.
LEMMA OneArrival ==
  ASSUME GateInv, NEW r \in Arrivals, NEW a \in Arrival,
         arrivals' = [arrivals EXCEPT ![r] = a], UNCHANGED <<corsEnv, apiKeys>>,
         gateNow' \in 0..GateHorizon, windows' \in [Counted -> [hits : Nat, resetAt : Nat]],
         a.msg = arrivals[r].msg,
         a.at \in {"body", "auth", "limit", "handler"} => PassesCors(a.msg),
         a.at \in {"auth", "limit", "handler"} => ~ RejectsBody(a.msg),
         a.at = "auth" => a.msg.route # "invoices",
         a.at = "limit" => a.msg.route = "sensitive",
         a.at \in {"limit", "handler"} /\ a.msg.route # "invoices" =>
           /\ Accepted(a.msg) /\ (UsesKey(a.msg) => ~ RegistryBroken)
           /\ a.client = IF UsesKey(a.msg) THEN a.msg.key ELSE a.msg.token,
         a.at = "handler" /\ a.msg.route \in {"admin", "tenant"} => a.msg.tenant
  PROVE  GateInv'
<1>1. GateTypeOK'
  BY DEF GateInv, GateTypeOK
<1>2. arrivals'[r] = a /\ \A q \in Arrivals \ {r} : arrivals'[q] = arrivals[q]
  BY DEF GateInv, GateTypeOK
<1>3. \A m : (Accepted(m)' <=> Accepted(m))
  BY Zenon DEF Accepted, UsesKey, Granted
<1>4. RegistryBroken' <=> RegistryBroken
  BY DEF RegistryBroken
<1>5. \A m : (PassesCors(m)' <=> PassesCors(m))
  BY DEF PassesCors, IsAllowedOrigin, AllowedOrigins
<1>6. Passed'
  BY <1>2, <1>3, <1>4, <1>5 DEF GateInv, Passed
<1> QED BY <1>1, <1>6 DEF GateInv

\* The CORS check: what goes on has no origin or an allowed one.
LEMMA OriginStep ==
  ASSUME GateInv, NEW r \in Arrivals, CheckOrigin(r)
  PROVE  GateInv'
<1> DEFINE to == IF PassesCors(arrivals[r].msg) THEN "body" ELSE "403"
           a == [arrivals[r] EXCEPT !.at = to]
<1>1. arrivals' = [arrivals EXCEPT ![r] = a] /\ UNCHANGED <<corsEnv, apiKeys, gateNow, windows>>
  BY DEF CheckOrigin
<1>2. a \in Arrival /\ a.at = to /\ a.msg = arrivals[r].msg
  BY DEF GateInv, GateTypeOK, Arrival, Gates
<1>3. to \in {"body", "403"} /\ (to = "body" => PassesCors(arrivals[r].msg))
  OBVIOUS
<1> HIDE DEF to
<1> QED BY Zenon, <1>1, <1>2, <1>3, OneArrival DEF GateInv, GateTypeOK

\* The body guards: what goes on was measured.
LEMMA BodyStep ==
  ASSUME GateInv, NEW r \in Arrivals, ReadBody(r)
  PROVE  GateInv'
<1> DEFINE msg == arrivals[r].msg
           to == IF RejectsBody(msg) THEN "413" ELSE IF msg.route = "invoices" THEN "handler" ELSE "auth"
           a == [arrivals[r] EXCEPT !.at = to]
<1>1. arrivals' = [arrivals EXCEPT ![r] = a] /\ UNCHANGED <<corsEnv, apiKeys, gateNow, windows>>
  BY DEF ReadBody
<1>2. a \in Arrival /\ a.at = to /\ a.msg = msg
  BY ZenonT(60) DEF GateInv, GateTypeOK, Arrival, Gates
<1>3. /\ to \in {"auth", "handler"} => ~ RejectsBody(msg)
      /\ to = "auth" => msg.route # "invoices"
      /\ to = "handler" => msg.route = "invoices"
      /\ to # "limit"
  OBVIOUS
<1>4. PassesCors(msg)
  BY DEF GateInv, Passed, ReadBody
<1> HIDE DEF to
<1> QED BY Zenon, <1>1, <1>2, <1>3, <1>4, OneArrival DEF GateInv, GateTypeOK

\* The credentials: what goes on was accepted, and is known by what it showed.
LEMMA AuthStep ==
  ASSUME GateInv, NEW r \in Arrivals, Authenticate(r)
  PROVE  GateInv'
<1> DEFINE msg == arrivals[r].msg
           who == IF Admit(msg) \in {"401", "500"} THEN Absent
                  ELSE IF UsesKey(msg) THEN msg.key ELSE msg.token
           a == [arrivals[r] EXCEPT !.at = Admit(msg), !.client = who]
<1>1. arrivals' = [arrivals EXCEPT ![r] = a] /\ UNCHANGED <<corsEnv, apiKeys, gateNow, windows>>
  BY Zenon DEF Authenticate
<1>2. msg \in Messages /\ Admit(msg) \in {"401", "500", "limit", "handler", "400"}
  BY DEF GateInv, GateTypeOK, Arrival, Admit
<1>3. who \in Keys \union Users \union {Absent, "subject"}
  <2>1. CASE Admit(msg) \in {"401", "500"}
    BY <2>1
  <2>2. CASE Admit(msg) \notin {"401", "500"}
    <3>1. Accepted(msg) /\ (UsesKey(msg) => ~ RegistryBroken)
      BY <2>2 DEF Admit
    <3>2. UsesKey(msg) => msg.key \in Keys
      BY <3>1, GateAssumption DEF Accepted, Granted, GateInv, GateTypeOK
    <3>3. ~ UsesKey(msg) => msg.token \in Users \union {"subject"}
      BY <1>2, <3>1 DEF Accepted, Messages
    <3> QED BY <3>2, <3>3
  <2> QED BY <2>1, <2>2
<1>4. a \in Arrival /\ a.at = Admit(msg) /\ a.msg = msg /\ a.client = who
  BY ZenonT(60), <1>2, <1>3 DEF GateInv, GateTypeOK, Arrival, Gates
<1>5. PassesCors(msg) /\ ~ RejectsBody(msg) /\ msg.route # "invoices"
  BY Zenon DEF GateInv, Passed, Authenticate
<1>6. Admit(msg) = "limit" => msg.route = "sensitive"
  BY DEF Admit
<1>7. Admit(msg) \in {"limit", "handler"} =>
        /\ Accepted(msg) /\ (UsesKey(msg) => ~ RegistryBroken)
        /\ who = IF UsesKey(msg) THEN msg.key ELSE msg.token
  BY DEF Admit
<1>8. Admit(msg) = "handler" => msg.tenant
  BY DEF Admit
<1>9. Admit(msg) # "auth"
  BY <1>2
<1> QED BY ZenonT(60), <1>1, <1>4, <1>5, <1>6, <1>7, <1>8, <1>9, OneArrival DEF GateInv, GateTypeOK

\* The limiter counts and lets pass or refuses; what it lets pass is unchanged.
LEMMA LimitStep ==
  ASSUME GateInv, NEW r \in Arrivals, Limit(r)
  PROVE  GateInv'
<1> DEFINE k == KeyGenerator(r)
           to == IF Hit(k).hits <= SensitiveMax THEN "handler" ELSE "429"
           a == [arrivals[r] EXCEPT !.at = to, !.admitted = gateNow]
<1>1. /\ arrivals' = [arrivals EXCEPT ![r] = a]
      /\ windows' = [windows EXCEPT ![k] = Hit(k)] /\ UNCHANGED <<corsEnv, apiKeys, gateNow>>
  BY Zenon DEF Limit
<1>2. arrivals[r].msg \in Messages /\ arrivals[r].at = "limit" /\ gateNow \in Nat
  BY GateAssumption DEF GateInv, GateTypeOK, Arrival, Limit
<1>3. k \in Counted
  BY <1>2 DEF KeyGenerator, Counted, Messages
<1>4. Hit(k) \in [hits : Nat, resetAt : Nat]
  BY <1>2, <1>3, GateAssumption DEF Hit, GateInv, GateTypeOK
<1>5. windows' \in [Counted -> [hits : Nat, resetAt : Nat]]
  BY <1>1, <1>3, <1>4 DEF GateInv, GateTypeOK
<1>6. a \in Arrival /\ a.at = to /\ a.msg = arrivals[r].msg /\ a.client = arrivals[r].client
  BY Zenon, <1>2 DEF GateInv, GateTypeOK, Arrival, Gates
<1>7. to # "auth" /\ to # "limit"
  OBVIOUS
<1>8. /\ PassesCors(a.msg) /\ ~ RejectsBody(a.msg) /\ a.msg.route = "sensitive"
      /\ Accepted(a.msg) /\ (UsesKey(a.msg) => ~ RegistryBroken)
      /\ a.client = IF UsesKey(a.msg) THEN a.msg.key ELSE a.msg.token
  BY <1>2, <1>6 DEF GateInv, Passed
<1> QED BY Zenon, <1>1, <1>5, <1>6, <1>7, <1>8, OneArrival DEF GateInv, GateTypeOK

\* The clock alone disturbs nothing.
LEMMA NobodyMoves ==
  ASSUME GateInv, UNCHANGED <<corsEnv, apiKeys, arrivals, windows>>, gateNow' \in 0..GateHorizon
  PROVE  GateInv'
<1>1. GateTypeOK'
  BY DEF GateInv, GateTypeOK
<1>2. \A m : (Accepted(m)' <=> Accepted(m)) /\ (PassesCors(m)' <=> PassesCors(m))
  BY DEF Accepted, UsesKey, Granted, PassesCors, IsAllowedOrigin, AllowedOrigins
<1>3. RegistryBroken' <=> RegistryBroken
  BY DEF RegistryBroken
<1>4. Passed'
  BY Zenon, <1>2, <1>3 DEF GateInv, Passed
<1> QED BY <1>1, <1>4 DEF GateInv

\* The invariant of the stacks of src/middleware/stacks.js: a request that is past
\* a gate has what the gate asks for.
THEOREM GateInvariant == GateSpec => []GateInv
<1>1. GateInv /\ [GateNext]_gateVars => GateInv'
  <2> SUFFICES ASSUME GateInv, [GateNext]_gateVars
               PROVE  GateInv'
    OBVIOUS
  <2>1. CASE GateTick
    <3>1. gateNow' \in 0..GateHorizon /\ UNCHANGED <<corsEnv, apiKeys, arrivals, windows>>
      BY <2>1, GateAssumption DEF GateTick, GateInv, GateTypeOK
    <3> QED BY <3>1, NobodyMoves
  <2>2. CASE UNCHANGED gateVars
    <3>1. gateNow' \in 0..GateHorizon /\ UNCHANGED <<corsEnv, apiKeys, arrivals, windows>>
      BY <2>2 DEF gateVars, GateInv, GateTypeOK
    <3> QED BY <3>1, NobodyMoves
  <2> QED BY <2>1, <2>2, OriginStep, BodyStep, AuthStep, LimitStep DEF GateNext
<1> QED BY <1>1, GateStart, PTL DEF GateSpec

\* With a registry in order, a key that is accepted is revoked by no entry.
LEMMA GrantedNotRevoked ==
  ASSUME ~ RegistryBroken, NEW key \in Granted, NEW i \in DOMAIN apiKeys, apiKeys[i].revoked
  PROVE  key # apiKeys[i].key
<1>1. PICK j \in DOMAIN apiKeys : ~ apiKeys[j].revoked /\ key = apiKeys[j].key
  BY DEF Granted
<1>2. i # j
  BY <1>1
<1> QED BY <1>1, <1>2 DEF RegistryBroken

\* A handler is reached from an allowed origin, with a measured body, a credential that is known and that
\* no entry of API_KEYS revokes, and a tenant where the stack asks for one.
THEOREM HandlersAreGuarded == GateSpec => []HandlersGuarded
<1>1. GateInv => HandlersGuarded
  <2> SUFFICES ASSUME GateInv, NEW r \in Arrivals, arrivals[r].at = "handler"
               PROVE  LET msg == arrivals[r].msg IN
                        /\ msg.origin # Absent =>
                             /\ msg.origin.of \in Origins
                             /\ \/ \E entry \in corsEnv.listed : entry.of = msg.origin.of
                                \/ corsEnv.listed = {} /\ corsEnv.development /\ msg.origin.of \in DevOrigins
                        /\ msg.type = "json" => msg.size <= JsonLimit
                        /\ msg.type = "form" => msg.size <= FormLimit
                        /\ msg.route # "invoices" =>
                             /\ arrivals[r].client # Absent
                             /\ \A i \in DOMAIN apiKeys :
                                  apiKeys[i].revoked => arrivals[r].client # apiKeys[i].key
                        /\ msg.route \in {"admin", "tenant"} => msg.tenant
    BY Zenon DEF HandlersGuarded
  <2> DEFINE msg == arrivals[r].msg
  <2>1. msg \in Messages
    BY DEF GateInv, GateTypeOK, Arrival
  <2>2. (msg.type = "json" => msg.size <= JsonLimit) /\ (msg.type = "form" => msg.size <= FormLimit)
    <3>1. ~ RejectsBody(msg)
      BY DEF GateInv, Passed
    <3>2. msg.size \in Nat /\ JsonLimit \in Nat /\ FormLimit \in Nat
      BY Zenon, <2>1, GateAssumption DEF Messages
    <3> QED BY <3>1, <3>2 DEF RejectsBody, Overflows
  <2>3. msg.route \in {"admin", "tenant"} => msg.tenant
    BY DEF GateInv, Passed
  <2>4. ASSUME msg.route # "invoices"
        PROVE  /\ arrivals[r].client # Absent
               /\ \A i \in DOMAIN apiKeys : apiKeys[i].revoked => arrivals[r].client # apiKeys[i].key
    <3>1. /\ Accepted(msg) /\ (UsesKey(msg) => ~ RegistryBroken)
          /\ arrivals[r].client = IF UsesKey(msg) THEN msg.key ELSE msg.token
      BY <2>4 DEF GateInv, Passed
    <3>2. CASE UsesKey(msg)
      <4>1. arrivals[r].client = msg.key /\ msg.key \in Granted /\ msg.key # Absent /\ ~ RegistryBroken
        BY <3>1, <3>2 DEF Accepted, UsesKey
      <4> QED BY <4>1, GrantedNotRevoked
    <3>3. CASE ~ UsesKey(msg)
      <4>1. arrivals[r].client = msg.token /\ msg.token # Absent /\ msg.token \in Users \union {"subject"}
        BY <2>1, <3>1, <3>3 DEF Accepted, Messages
      <4>2. \A i \in DOMAIN apiKeys : apiKeys[i].key \in Keys
        BY GateAssumption DEF GateInv, GateTypeOK
      <4> QED BY <4>1, <4>2, GateAssumption
    <3> QED BY <3>2, <3>3
  <2>5. ASSUME msg.origin # Absent
        PROVE  /\ msg.origin.of \in Origins
               /\ \/ \E entry \in corsEnv.listed : entry.of = msg.origin.of
                  \/ corsEnv.listed = {} /\ corsEnv.development /\ msg.origin.of \in DevOrigins
    <3>1. msg.origin \in Written /\ IsAllowedOrigin(msg.origin)
      BY Zenon, <2>1, <2>5 DEF GateInv, Passed, PassesCors, Messages
    <3>2. msg.origin.of \in Origins
      BY <3>1 DEF IsAllowedOrigin, Written
    <3>3. PICK entry \in AllowedOrigins : entry.of = msg.origin.of
      BY <3>1 DEF IsAllowedOrigin
    <3>4. CASE corsEnv.listed # {}
      BY <3>2, <3>3, <3>4 DEF AllowedOrigins
    <3>5. CASE corsEnv.listed = {}
      <4>1. corsEnv.development /\ entry \in [of : DevOrigins, plain : {TRUE}]
        BY Zenon, <3>3, <3>5 DEF AllowedOrigins
      <4> QED BY <3>2, <3>3, <3>5, <4>1
    <3> QED BY Zenon, <3>4, <3>5
  <2> QED BY Zenon, <2>2, <2>3, <2>4, <2>5
<1> QED BY <1>1, GateInvariant, PTL

-----------------------------------------------------------------------------
(* The rate limiter.                                                       *)

\* What a client was served at some times is finite, and no more than at times that
\* cover them.
LEMMA ServedCovered ==
  ASSUME NEW k, NEW T, NEW U, NEW V, T \subseteq U \union V
  PROVE  /\ IsFiniteSet(Served(k, T)) /\ Cardinality(Served(k, T)) \in Nat
         /\ Cardinality(Served(k, T)) <= Cardinality(Served(k, U)) + Cardinality(Served(k, V))
         /\ T \subseteq U => Cardinality(Served(k, T)) <= Cardinality(Served(k, U))
<1>1. \A W : IsFiniteSet(Served(k, W)) /\ Cardinality(Served(k, W)) \in Nat
  <2> SUFFICES ASSUME NEW W PROVE IsFiniteSet(Served(k, W)) /\ Cardinality(Served(k, W)) \in Nat
    OBVIOUS
  <2>1. Served(k, W) \in SUBSET Arrivals
    BY DEF Served
  <2>2. IsFiniteSet(Served(k, W))
    BY <2>1, FS_Subset, GateAssumption
  <2> QED BY <2>2, FS_CardinalityType
<1> DEFINE A == Served(k, U)
           B == Served(k, V)
<1>2. Served(k, T) \subseteq A \union B
  BY DEF Served
<1>3. IsFiniteSet(A \union B) /\ Cardinality(A \union B) = Cardinality(A) + Cardinality(B) - Cardinality(A \cap B)
  BY <1>1, FS_Union
<1>4. IsFiniteSet(A \cap B)
  BY Zenon, <1>1, FS_Intersection
<1>5. Cardinality(A \cap B) \in Nat
  BY <1>4, FS_CardinalityType
<1>6. Cardinality(Served(k, T)) <= Cardinality(A \union B)
  BY <1>2, <1>3, FS_Subset
<1>7. ASSUME T \subseteq U PROVE Cardinality(Served(k, T)) <= Cardinality(A)
  <2>1. Served(k, T) \in SUBSET A
    BY <1>7 DEF Served
  <2> QED BY <1>1, <2>1, FS_Subset
<1> HIDE DEF A, B
<1>8. /\ Cardinality(A) \in Nat /\ Cardinality(B) \in Nat /\ Cardinality(Served(k, T)) \in Nat
  BY <1>1 DEF A, B
<1>9. Cardinality(Served(k, T)) <= Cardinality(A) + Cardinality(B)
  BY <1>3, <1>5, <1>6, <1>8
<1> QED BY Zenon, <1>1, <1>7, <1>9 DEF A, B

\* A request that the gates before the limiter move on is served by nobody.
LEMMA EarlierGates ==
  ASSUME GateInv, NEW r \in Arrivals, CheckOrigin(r) \/ ReadBody(r) \/ Authenticate(r), NEW k, NEW T
  PROVE  Served(k, T)' = Served(k, T)
<1>1. \A q \in Arrivals \ {r} : arrivals'[q] = arrivals[q]
  BY DEF GateInv, GateTypeOK, CheckOrigin, ReadBody, Authenticate
<1>2. r \notin Served(k, T)
  BY Zenon DEF Served, CheckOrigin, ReadBody, Authenticate
<1>3. ~ (arrivals'[r].at = "handler" /\ arrivals'[r].msg.route = "sensitive")
  <2>1. CASE CheckOrigin(r)
    BY <2>1 DEF CheckOrigin, GateInv, GateTypeOK, Arrival
  <2>2. CASE ReadBody(r)
    <3> DEFINE to == IF RejectsBody(arrivals[r].msg) THEN "413"
                     ELSE IF arrivals[r].msg.route = "invoices" THEN "handler" ELSE "auth"
    <3>1. arrivals'[r].at = to /\ arrivals'[r].msg = arrivals[r].msg
      BY <2>2 DEF ReadBody, GateInv, GateTypeOK, Arrival
    <3> QED BY <3>1
  <2>3. CASE Authenticate(r)
    <3>1. arrivals'[r].at = Admit(arrivals[r].msg) /\ arrivals'[r].msg = arrivals[r].msg
      BY <2>3 DEF Authenticate, GateInv, GateTypeOK, Arrival
    <3>2. Admit(arrivals[r].msg) = "handler" => arrivals[r].msg.route # "sensitive"
      BY DEF Admit
    <3> QED BY <3>1, <3>2
  <2> QED BY <2>1, <2>2, <2>3
<1>4. Served(k, T)' = {q \in Arrivals : /\ arrivals'[q].at = "handler" /\ arrivals'[q].msg.route = "sensitive"
                                        /\ arrivals'[q].client = k /\ arrivals'[q].admitted \in T}
  BY DEF Served
<1> QED BY Zenon, <1>1, <1>2, <1>3, <1>4 DEF Served

\* A request about to be counted and known by an id or a key is counted under it.
LEMMA CountedUnderClient ==
  ASSUME GateInv, NEW r \in Arrivals, arrivals[r].at = "limit", arrivals[r].client \in Users \union Keys
  PROVE  KeyGenerator(r) = arrivals[r].client
<1> DEFINE msg == arrivals[r].msg
<1>1. /\ Accepted(msg) /\ msg.route = "sensitive" /\ msg \in Messages
      /\ arrivals[r].client = IF UsesKey(msg) THEN msg.key ELSE msg.token
  BY DEF GateInv, Passed, GateTypeOK, Arrival
<1>2. CASE arrivals[r].client \in Users
  BY <1>2 DEF KeyGenerator
<1>3. CASE arrivals[r].client \notin Users
  <2>1. UsesKey(msg)
    BY Zenon, <1>1, <1>3, GateAssumption DEF Accepted, Messages
  <2> QED BY Zenon, <1>1, <1>3, <2>1 DEF KeyGenerator
<1> QED BY <1>2, <1>3

\* A key is counted, and what its client is served grows by at most the request that
\* is counted, and only within the limit: the window still accounts for it.
LEMMA HitCounts ==
  ASSUME RateInv, NEW k \in Users \union Keys, NEW r \in Arrivals, NEW D \in {{}, {r}},
         windows'[k] = Hit(k), gateNow' = gateNow,
         D # {} => Hit(k).hits <= SensitiveMax /\ arrivals'[r].admitted = gateNow,
         \A q \in Arrivals \ {r} : arrivals'[q] = arrivals[q],
         \A T : Served(k, T)' = Served(k, T) \union (IF gateNow \in T THEN D ELSE {}),
         \A T : r \notin Served(k, T)
  PROVE  /\ WindowCounts(k)'
         /\ \A start \in 0..GateHorizon : Cardinality(Admitted(k, start))' <= 2 * SensitiveMax - 1
<1> DEFINE max == SensitiveMax
           W == SensitiveWindow
           N(T) == Cardinality(Served(k, T))
           resetAt == windows[k].resetAt
           hits == windows[k].hits
           opened == resetAt - W
<1>1. /\ max \in Nat \ {0} /\ W \in Nat \ {0} /\ gateNow \in Nat /\ GateHorizon \in Nat
           /\ gateNow <= GateHorizon
      /\ k \in Counted /\ resetAt \in Nat /\ hits \in Nat
  BY GateAssumption DEF RateInv, GateInv, GateTypeOK, Counted
<1>2. /\ windows'[k].resetAt = IF resetAt <= gateNow THEN gateNow + W ELSE resetAt
      /\ windows'[k].hits = IF resetAt <= gateNow THEN 1 ELSE hits + 1
      /\ Hit(k).hits = windows'[k].hits
  <2>1. windows[k] \in [hits : Nat, resetAt : Nat]
    BY <1>1 DEF RateInv, GateInv, GateTypeOK
  <2> QED BY <1>1, <2>1 DEF Hit
<1>3. ASSUME NEW T
      PROVE  /\ N(T) \in Nat /\ Cardinality(Served(k, T)') \in Nat
             /\ gateNow \notin T => Cardinality(Served(k, T)') = N(T)
             /\ D = {} => Cardinality(Served(k, T)') = N(T)
             /\ Cardinality(Served(k, T)') <= N(T) + 1
  <2>1. IsFiniteSet(Served(k, T)) /\ N(T) \in Nat
    BY ServedCovered
  <2>2. r \notin Served(k, T)
    OBVIOUS
  <2>3. Cardinality(Served(k, T) \union {r}) = N(T) + 1
    BY Zenon, <2>1, <2>2, FS_AddElement
  <2>4. Served(k, T)' = Served(k, T) \/ Served(k, T)' = Served(k, T) \union {r}
    OBVIOUS
  <2>5. (gateNow \notin T \/ D = {}) => Served(k, T)' = Served(k, T)
    OBVIOUS
  <2> HIDE DEF N
  <2>6. Cardinality(Served(k, T)) = N(T)
    BY DEF N
  <2>7. Cardinality(Served(k, T)') \in {N(T), N(T) + 1}
    BY Zenon, <2>3, <2>4, <2>6
  <2>8. (gateNow \notin T \/ D = {}) => Cardinality(Served(k, T)') = N(T)
    BY <2>5, <2>6
  <2>9. N(T) \in Nat
    BY <2>1 DEF N
  <2> QED BY <2>7, <2>8, <2>9
<1>4. WindowCounts(k)
  BY DEF RateInv
<1>5. \A q \in Served(k, Nat)' : /\ arrivals'[q].admitted <= gateNow /\ arrivals'[q].admitted \in Nat
                                 /\ resetAt # 0 => arrivals'[q].admitted < windows'[k].resetAt
  <2> SUFFICES ASSUME NEW q \in Served(k, Nat)'
               PROVE  /\ arrivals'[q].admitted <= gateNow /\ arrivals'[q].admitted \in Nat
                      /\ resetAt # 0 => arrivals'[q].admitted < windows'[k].resetAt
    OBVIOUS
  <2>1. CASE q \in D
    BY <1>1, <1>2, <2>1
  <2>2. CASE q \in Served(k, Nat)
    <3>1. q # r /\ q \in Arrivals /\ arrivals'[q] = arrivals[q] /\ resetAt # 0 /\ arrivals[q].admitted \in Nat
      BY Zenon, <1>4, <2>2 DEF WindowCounts, Served
    <3>2. arrivals[q].admitted < resetAt /\ arrivals[q].admitted <= gateNow
      BY Zenon, <1>4, <2>2, <3>1 DEF WindowCounts
    <3> QED BY <1>1, <1>2, <3>1, <3>2
  <2> QED BY Zenon, <2>1, <2>2
<1>6. \A q \in Served(k, Nat)' : arrivals'[q].admitted < windows'[k].resetAt
  BY <1>1, <1>2, <1>5
<1>7. CASE resetAt <= gateNow
  <2> DEFINE from0(T) == N(T)
  <2>1. windows'[k].resetAt = gateNow + W /\ windows'[k].hits = 1 /\ (gateNow + W) - W = gateNow
          /\ gateNow + W # 0
    BY <1>1, <1>2, <1>7
  <2>2. N({t \in Nat : t >= gateNow}) = 0 /\ N({t \in Nat : t > gateNow}) = 0
    <3>1. Served(k, {t \in Nat : t >= gateNow}) = {} /\ Served(k, {t \in Nat : t > gateNow}) = {}
      <4>1. \A q \in Served(k, Nat) : arrivals[q].admitted < gateNow /\ arrivals[q].admitted \in Nat
        BY <1>1, <1>4, <1>7 DEF WindowCounts, Served
      <4>2. \A T : T \subseteq Nat => Served(k, T) \subseteq Served(k, Nat) /\ \A q \in Served(k, T) :
              arrivals[q].admitted \in T
        BY Zenon DEF Served
      <4> QED BY <1>1, <4>1, <4>2
    <3> QED BY Zenon, <3>1, FS_EmptySet
  <2>3. ASSUME NEW start \in 0..GateHorizon, start + W > gateNow
        PROVE  N(start..(gateNow - 1)) < max
    <3>1. CASE resetAt = 0
      <4>1. Served(k, start..(gateNow - 1)) = {}
        <5>1. start..(gateNow - 1) \subseteq Nat
          BY <1>1
        <5>2. Served(k, Nat) = {}
          BY Zenon, <1>4, <3>1 DEF WindowCounts
        <5> QED BY Zenon, <5>1, <5>2 DEF Served
      <4>2. N(start..(gateNow - 1)) = 0
        BY Zenon, <4>1, FS_EmptySet
      <4> HIDE DEF N
      <4> QED BY <1>1, <4>2
    <3>2. CASE resetAt # 0
      <4>1. start..(gateNow - 1) \subseteq {t \in Nat : t > opened}
        BY <1>1, <1>7, <2>3
      <4>2. N(start..(gateNow - 1)) <= N({t \in Nat : t > opened}) /\ N(start..(gateNow - 1)) \in Nat
        BY Zenon, <4>1, ServedCovered
      <4>3. N({t \in Nat : t > opened}) < max /\ N({t \in Nat : t > opened}) \in Nat
        BY Zenon, <1>3, <1>4, <3>2 DEF WindowCounts
      <4> HIDE DEF N
      <4> QED BY <1>1, <4>2, <4>3
    <3> QED BY Zenon, <3>1, <3>2
  <2>4. \A start \in 0..GateHorizon : start + W > gateNow => Cardinality(Served(k, start..(gateNow - 1))') < max
    <3> SUFFICES ASSUME NEW start \in 0..GateHorizon, start + W > gateNow
                 PROVE  Cardinality(Served(k, start..(gateNow - 1))') < max
      OBVIOUS
    <3>1. gateNow \notin start..(gateNow - 1)
      BY <1>1
    <3> QED BY Zenon, <1>3, <2>3, <3>1
  <2>5. /\ Cardinality(Served(k, {t \in Nat : t >= gateNow})') <= 1
        /\ Cardinality(Served(k, {t \in Nat : t > gateNow})') = 0
    <3>1. gateNow \notin {t \in Nat : t > gateNow}
      BY <1>1
    <3> HIDE DEF N
    <3>2. Cardinality(Served(k, {t \in Nat : t >= gateNow})') <= N({t \in Nat : t >= gateNow}) + 1
      BY <1>3
    <3>3. Cardinality(Served(k, {t \in Nat : t > gateNow})') = N({t \in Nat : t > gateNow})
      BY Zenon, <1>3, <3>1
    <3> QED BY <2>2, <3>2, <3>3
  <2>6. \A T : Cardinality(Served(k, T)') \in Nat
    BY <1>3
  <2>7. WindowCounts(k)'
    <3>1. Cardinality(Served(k, {t \in Nat : t >= gateNow})') <= max
            /\ Cardinality(Served(k, {t \in Nat : t > gateNow})') < max
      BY <1>1, <2>5, <2>6
    <3>2. \A q \in Served(k, Nat)' : arrivals'[q].admitted < gateNow + W /\ arrivals'[q].admitted <= gateNow
      BY Zenon, <1>5, <1>6, <2>1
    <3> QED BY <1>1, <2>1, <2>4, <2>5, <3>1, <3>2 DEF WindowCounts
  <2>8. ASSUME NEW start \in 0..GateHorizon PROVE Cardinality(Admitted(k, start))' <= 2 * max - 1
    <3> DEFINE T == start..(start + W - 1)
    <3>1. Cardinality(Admitted(k, start))' = Cardinality(Served(k, T)')
      BY DEF Admitted
    <3>2. CASE gateNow \notin T
      <4>1. N(T) <= 2 * max - 1
        BY DEF RateInv, RateBounded, Admitted
      <4> QED BY Zenon, <1>3, <3>1, <3>2, <4>1
    <3>3. CASE gateNow \in T
      <4>1. T \subseteq start..(gateNow - 1) \union {t \in Nat : t >= gateNow}
        BY <1>1
      <4>2. N(T) <= N(start..(gateNow - 1)) + N({t \in Nat : t >= gateNow})
        BY Zenon, <4>1, ServedCovered
      <4>3. N(start..(gateNow - 1)) < max /\ N(start..(gateNow - 1)) \in Nat /\ N(T) \in Nat
        BY <1>1, <1>3, <2>3, <3>3
      <4>4. Cardinality(Served(k, T)') <= N(T) + 1 /\ Cardinality(Served(k, T)') \in Nat
        BY <1>3
      <4> HIDE DEF N
      <4> QED BY <1>1, <2>2, <3>1, <4>2, <4>3, <4>4
    <3> QED BY Zenon, <3>2, <3>3
  <2> QED BY <2>7, <2>8
<1>8. CASE ~ (resetAt <= gateNow)
  <2>1. windows'[k].resetAt = resetAt /\ windows'[k].hits = hits + 1 /\ resetAt # 0
    BY <1>1, <1>2, <1>8
  <2>0. PICK o : o = opened /\ o = windows'[k].resetAt - W
    BY <2>1
  <2>2. /\ o \in 0..gateNow /\ hits > 0
        /\ N({t \in Nat : t >= o}) <= hits /\ N({t \in Nat : t >= o}) <= max
        /\ N({t \in Nat : t > o}) < hits /\ N({t \in Nat : t > o}) < max
        /\ \A start \in 0..GateHorizon : start + W > o => N(start..(o - 1)) < max
    BY <1>4, <2>0, <2>1 DEF WindowCounts
  <2>3. D # {} => hits + 1 <= max
    BY Zenon, <1>2, <2>1
  <2> HIDE DEF N
  <2>4. /\ Cardinality(Served(k, {t \in Nat : t >= o})') <= hits + 1
        /\ Cardinality(Served(k, {t \in Nat : t >= o})') <= max
    <3> DEFINE T == {t \in Nat : t >= o}
    <3>1. /\ N(T) \in Nat /\ Cardinality(Served(k, T)') \in Nat
          /\ D = {} => Cardinality(Served(k, T)') = N(T)
          /\ Cardinality(Served(k, T)') <= N(T) + 1
      BY <1>3
    <3>2. N(T) <= hits /\ N(T) <= max
      BY <2>2
    <3> HIDE DEF T
    <3>3. Cardinality(Served(k, T)') <= hits + 1 /\ Cardinality(Served(k, T)') <= max
      BY <1>1, <2>3, <3>1, <3>2
    <3> QED BY <3>3 DEF T
  <2>5. /\ Cardinality(Served(k, {t \in Nat : t > o})') < hits + 1
        /\ Cardinality(Served(k, {t \in Nat : t > o})') < max
    <3> DEFINE T == {t \in Nat : t > o}
    <3>1. /\ N(T) \in Nat /\ Cardinality(Served(k, T)') \in Nat
          /\ D = {} => Cardinality(Served(k, T)') = N(T)
          /\ Cardinality(Served(k, T)') <= N(T) + 1
      BY <1>3
    <3>2. N(T) < hits /\ N(T) < max
      BY <2>2
    <3> HIDE DEF T
    <3>3. Cardinality(Served(k, T)') < hits + 1 /\ Cardinality(Served(k, T)') < max
      BY <1>1, <2>3, <3>1, <3>2
    <3> QED BY <3>3 DEF T
  <2>6. \A start \in 0..GateHorizon : start + W > o => Cardinality(Served(k, start..(o - 1))') < max
    <3> SUFFICES ASSUME NEW start \in 0..GateHorizon, start + W > o
                 PROVE  Cardinality(Served(k, start..(o - 1))') < max
      OBVIOUS
    <3>1. gateNow \notin start..(o - 1)
      BY <1>1, <2>2
    <3>2. Cardinality(Served(k, start..(o - 1))') = N(start..(o - 1))
      BY Zenon, <1>3, <3>1
    <3>3. N(start..(o - 1)) < max
      BY Zenon, <2>2
    <3> QED BY <3>2, <3>3
  <2>7. WindowCounts(k)'
    <3>1. \A q \in Served(k, Nat)' : arrivals'[q].admitted < resetAt /\ arrivals'[q].admitted <= gateNow
      BY Zenon, <1>5, <1>6, <2>1
    <3> QED BY <1>1, <2>0, <2>1, <2>2, <2>4, <2>5, <2>6, <3>1 DEF WindowCounts
  <2>8. ASSUME NEW start \in 0..GateHorizon PROVE Cardinality(Admitted(k, start))' <= 2 * max - 1
    <3> DEFINE T == start..(start + W - 1)
    <3>1. Cardinality(Admitted(k, start))' = Cardinality(Served(k, T)')
      BY DEF Admitted
    <3>0. N(T) <= 2 * max - 1
      BY DEF RateInv, RateBounded, Admitted, N
    <3>2. CASE gateNow \notin T \/ D = {}
      <4>1. Cardinality(Served(k, T)') = N(T)
        BY Zenon, <1>3, <3>2
      <4> QED BY Zenon, <3>0, <3>1, <4>1
    <3>3. CASE gateNow \in T /\ D # {}
      <4>1. T \subseteq start..(o - 1) \union {t \in Nat : t >= o}
        BY <1>1, <2>2
      <4>2. N(T) <= N(start..(o - 1)) + N({t \in Nat : t >= o})
        BY Zenon, <4>1, ServedCovered DEF N
      <4>3. start + W > o
        BY <1>1, <2>2, <3>3
      <4>4. N(start..(o - 1)) < max /\ N({t \in Nat : t >= o}) <= hits /\ hits + 1 <= max
        BY Zenon, <2>2, <2>3, <3>3, <4>3
      <4>5. /\ N(start..(o - 1)) \in Nat /\ N({t \in Nat : t >= o}) \in Nat /\ N(T) \in Nat
            /\ Cardinality(Served(k, T)') <= N(T) + 1 /\ Cardinality(Served(k, T)') \in Nat
        BY <1>3
      <4> HIDE DEF T
      <4>6. max \in Nat /\ hits \in Nat
        BY Zenon, <1>1
      <4> QED BY Zenon, <3>1, <4>2, <4>4, <4>5, <4>6, TwoWindows
    <3> QED BY <3>2, <3>3
  <2> QED BY <2>7, <2>8
<1> QED BY <1>7, <1>8

\* A client whose requests and window stay as they are keeps its account.
LEMMA AccountKept ==
  ASSUME RateInv, NEW k \in Users \union Keys, windows'[k] = windows[k], gateNow' \in {gateNow, gateNow + 1},
         \A T : Served(k, T)' = Served(k, T),
         \A q \in Served(k, Nat) : arrivals'[q] = arrivals[q]
  PROVE  /\ WindowCounts(k)'
         /\ \A start \in 0..GateHorizon : Cardinality(Admitted(k, start))' <= 2 * SensitiveMax - 1
<1>1. WindowCounts(k) /\ \A start \in 0..GateHorizon : Cardinality(Admitted(k, start)) <= 2 * SensitiveMax - 1
  BY DEF RateInv, RateBounded
<1>2. \A start : Admitted(k, start)' = Admitted(k, start)
  BY DEF Admitted
<1>3. /\ gateNow \in Nat /\ windows[k].resetAt \in Nat /\ SensitiveWindow \in Nat
      /\ \A q \in Served(k, Nat) : arrivals[q].admitted \in Nat
  BY GateAssumption DEF RateInv, GateInv, GateTypeOK, Counted, Served
<1>4. windows[k].resetAt - SensitiveWindow \in 0..gateNow =>
        windows[k].resetAt - SensitiveWindow \in 0..gateNow'
  BY <1>3
<1>5. \A q \in Served(k, Nat) : arrivals[q].admitted <= gateNow => arrivals[q].admitted <= gateNow'
  BY <1>3
<1>6. WindowCounts(k)'
  BY <1>1, <1>4, <1>5 DEF WindowCounts
<1> QED BY Zenon, <1>1, <1>2, <1>6

\* Counting a request keeps the account of every client, the counted one's included.
LEMMA LimitCounts ==
  ASSUME RateInv, NEW r \in Arrivals, Limit(r)
  PROVE  RateInv'
<1> DEFINE g == KeyGenerator(r)
           pass == Hit(g).hits <= SensitiveMax
           who == arrivals[r].client
<1>1. GateInv /\ GateInv'
  BY LimitStep DEF RateInv
<1>2. /\ arrivals[r].at = "limit" /\ arrivals[r].msg.route = "sensitive" /\ g \in Counted /\ gateNow' = gateNow
      /\ windows'[g] = Hit(g) /\ \A k \in Counted \ {g} : windows'[k] = windows[k]
      /\ \A q \in Arrivals \ {r} : arrivals'[q] = arrivals[q]
      /\ arrivals'[r].at = (IF pass THEN "handler" ELSE "429") /\ arrivals'[r].msg = arrivals[r].msg
      /\ arrivals'[r].client = who /\ arrivals'[r].admitted = gateNow
  <2>1. arrivals[r] \in Arrival /\ arrivals[r].msg \in Messages
    BY <1>1 DEF GateInv, GateTypeOK, Arrival
  <2>2. g \in Counted
    BY Zenon, <2>1 DEF KeyGenerator, Counted, Messages
  <2>3. /\ windows' = [windows EXCEPT ![g] = Hit(g)]
        /\ arrivals' = [arrivals EXCEPT ![r].at = IF pass THEN "handler" ELSE "429", ![r].admitted = gateNow]
        /\ gateNow' = gateNow /\ arrivals[r].at = "limit"
    BY DEF Limit
  <2>4. arrivals[r].msg.route = "sensitive"
    BY Zenon, <1>1, <2>3 DEF GateInv, Passed
  <2> HIDE DEF g, pass
  <2> QED BY Zenon, <1>1, <2>1, <2>2, <2>3, <2>4 DEF GateInv, GateTypeOK, Arrival
<1>3. \A k, T : r \notin Served(k, T)
  BY <1>2 DEF Served
<1>4. \A k, T : Served(k, T)' =
        Served(k, T) \union (IF gateNow \in T THEN (IF pass /\ k = who THEN {r} ELSE {}) ELSE {})
  <2> SUFFICES ASSUME NEW k, NEW T
               PROVE  Served(k, T)' = Served(k, T) \union (IF gateNow \in T THEN (IF pass /\ k = who THEN {r} ELSE {}) ELSE {})
    OBVIOUS
  <2> HIDE DEF pass, who, g
  <2>1. Served(k, T)' = {q \in Arrivals : /\ arrivals'[q].at = "handler" /\ arrivals'[q].msg.route = "sensitive"
                                          /\ arrivals'[q].client = k /\ arrivals'[q].admitted \in T}
    BY DEF Served
  <2>2. \A q \in Arrivals \ {r} : q \in Served(k, T)' <=> q \in Served(k, T)
    BY Zenon, <1>2, <2>1 DEF Served
  <2>3. r \in Served(k, T)' <=> pass /\ k = who /\ gateNow \in T
    BY Zenon, <1>2, <2>1
  <2>4. Served(k, T) \subseteq Arrivals /\ Served(k, T)' \subseteq Arrivals
    BY <2>1 DEF Served
  <2> QED BY <1>3, <2>2, <2>3, <2>4
<1>5. who \in Users \union Keys => g = who
  BY Zenon, <1>1, <1>2, CountedUnderClient
<1>6. ASSUME NEW k \in Users \union Keys
      PROVE  /\ WindowCounts(k)'
             /\ \A start \in 0..GateHorizon : Cardinality(Admitted(k, start))' <= 2 * SensitiveMax - 1
  <2> HIDE DEF who, pass, g
  <2>1. CASE k = g
    <3> DEFINE D == IF pass /\ k = who THEN {r} ELSE {}
    <3>1. D \in {{}, {r}} /\ (D # {} => Hit(k).hits <= SensitiveMax /\ arrivals'[r].admitted = gateNow)
      BY <1>2, <2>1 DEF pass
    <3>2. \A T : Served(k, T)' = Served(k, T) \union (IF gateNow \in T THEN D ELSE {})
      BY <1>4
    <3> HIDE DEF D
    <3> QED BY ZenonT(60), <1>2, <1>3, <2>1, <3>1, <3>2, HitCounts
  <2>2. CASE k # g
    <3>1. k # who
      BY <1>5, <1>6, <2>2
    <3>2. \A T : Served(k, T)' = Served(k, T)
      BY Zenon, <1>4, <3>1
    <3>3. \A q \in Served(k, Nat) : q \in Arrivals \ {r}
      BY <1>3 DEF Served
    <3>4. k \in Counted
      BY DEF Counted
    <3> QED BY Zenon, <1>2, <2>2, <3>2, <3>3, <3>4, AccountKept
  <2> QED BY <2>1, <2>2
<1>7. RateBounded'
  BY <1>6 DEF RateBounded
<1> QED BY Zenon, <1>1, <1>6, <1>7 DEF RateInv

\* rateLimit.js: however requests of however many addresses interleave, a client gets
\* less than two windows' worth of sensitive requests into one window's length.
THEOREM RateInvariant == GateSpec => []RateInv
<1>1. GateInit => RateInv
  <2> SUFFICES ASSUME GateInit PROVE RateInv
    OBVIOUS
  <2>1. \A k, T : Served(k, T) = {}
    BY DEF GateInit, Served
  <2>2. \A k \in Users \union Keys : windows[k].resetAt = 0
    BY DEF GateInit, Counted
  <2>3. \A k \in Users \union Keys : WindowCounts(k)
    BY Zenon, <2>1, <2>2 DEF WindowCounts
  <2>4. RateBounded
    <3>1. \A k, start : Cardinality(Admitted(k, start)) = 0
      BY <2>1, FS_EmptySet DEF Admitted
    <3>2. 0 <= 2 * SensitiveMax - 1
      BY GateAssumption
    <3> QED BY <3>1, <3>2 DEF RateBounded
  <2> QED BY <2>3, <2>4, GateStart DEF RateInv
<1>2. RateInv /\ [GateNext]_gateVars => RateInv'
  <2> SUFFICES ASSUME RateInv, [GateNext]_gateVars PROVE RateInv'
    OBVIOUS
  <2>1. ASSUME NEW r \in Arrivals, Limit(r) PROVE RateInv'
    BY <2>1, LimitCounts
  <2>2. ASSUME GateInv', UNCHANGED windows, gateNow' \in {gateNow, gateNow + 1},
               \A k, T : Served(k, T)' = Served(k, T),
               \A k : \A q \in Served(k, Nat) : arrivals'[q] = arrivals[q]
        PROVE  RateInv'
    <3>1. \A k \in Users \union Keys :
            /\ WindowCounts(k)'
            /\ \A start \in 0..GateHorizon : Cardinality(Admitted(k, start))' <= 2 * SensitiveMax - 1
      BY <2>2, AccountKept
    <3>2. RateBounded'
      BY <3>1 DEF RateBounded
    <3> QED BY <2>2, <3>1, <3>2 DEF RateInv
  <2>3. ASSUME NEW r \in Arrivals, CheckOrigin(r) \/ ReadBody(r) \/ Authenticate(r) PROVE RateInv'
    <3>1. GateInv /\ GateInv'
      BY Zenon, <2>3, OriginStep, BodyStep, AuthStep DEF RateInv
    <3>2. UNCHANGED <<windows, gateNow>> /\ arrivals[r].at \in {"origin", "body", "auth"}
          /\ \A q \in Arrivals \ {r} : arrivals'[q] = arrivals[q]
      BY Zenon, <2>3, <3>1 DEF CheckOrigin, ReadBody, Authenticate, GateInv, GateTypeOK
    <3>3. \A k, T : Served(k, T)' = Served(k, T)
      BY Zenon, <2>3, <3>1, EarlierGates
    <3>4. \A k : \A q \in Served(k, Nat) : q \in Arrivals \ {r}
      BY <3>2 DEF Served
    <3> QED BY Zenon, <2>2, <3>1, <3>2, <3>3, <3>4
  <2>4. CASE GateTick \/ UNCHANGED gateVars
    <3>1. UNCHANGED <<corsEnv, apiKeys, arrivals, windows>> /\ gateNow' \in 0..GateHorizon
          /\ gateNow' \in {gateNow, gateNow + 1}
      BY <2>4, GateAssumption DEF GateTick, gateVars, RateInv, GateInv, GateTypeOK
    <3>2. GateInv'
      BY <3>1, NobodyMoves DEF RateInv
    <3>3. \A k, T : Served(k, T)' = Served(k, T)
      BY <3>1 DEF Served
    <3> QED BY Zenon, <2>2, <3>1, <3>2, <3>3
  <2> QED BY <2>1, <2>3, <2>4 DEF GateNext
<1> QED BY <1>1, <1>2, PTL DEF GateSpec

\* The property of the run, for every value of the constants.
THEOREM RateIsBounded == GateSpec => []RateBounded
<1>1. RateInv => RateBounded
  BY DEF RateInv
<1> QED BY <1>1, RateInvariant, PTL

=============================================================================
