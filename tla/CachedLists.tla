----------------------------- MODULE CachedLists -----------------------------
(***************************************************************************)
(* Lists served through the response cache: the marketplace                *)
(* (src/routes/marketplace.js, src/services/marketplaceService.js,         *)
(* src/utils/cursorPagination.js) and the investor locks                   *)
(* (src/routes/investor.js, src/services/investorCommitment.js), behind    *)
(* cacheResponse() of src/middleware/cache.js and the shared               *)
(* MemoryCacheStore of src/services/cacheStore.js.                         *)
(*                                                                         *)
(* Clients walk through the marketplace by signed cursors while invoices   *)
(* change and pages are answered from the cache; principals with different *)
(* rights ask for locks under the same URLs.                               *)
(***************************************************************************)
EXTENDS Naturals, FiniteSets, Sequences, SequencesExt

CONSTANTS
  Clients,      \* marketplace clients
  Rows,         \* invoice ids, ordered as the database orders them
  TenantOf,     \* the tenant of each invoice
  SortValues,   \* values of the sort column
  PageLimit,    \* limit of a marketplace page
  CursorTtl,    \* CURSOR_TTL_SECONDS
  Principals,   \* users of the lock routes, [admin, role, funder]
  Funders,      \* well-formed Stellar addresses
  LockInvoices, \* invoices with locks
  LockLimit,    \* limit of a page of locks
  ResponseTtl,  \* CACHE_TTL_MS
  MaxEntries,   \* _maxEntries of the store
  NoValue,      \* an absent parameter, cursor or claim
  Malformed,    \* an address validateAddress() refuses
  ListHorizon,  \* bound on the clock
  MaxEdits      \* bound on changes of invoices

ASSUME CachedAssumption ==
  /\ Rows \subseteq Nat /\ IsFiniteSet(Rows)
  /\ SortValues \subseteq Nat
  /\ {PageLimit, LockLimit, MaxEntries} \subseteq Nat \ {0}
  /\ {CursorTtl, ResponseTtl, ListHorizon, MaxEdits} \subseteq Nat
  /\ DOMAIN TenantOf = Rows

VARIABLES
  listNow,  \* the clock
  market,   \* the invoices: [open, value]
  edits,    \* changes of invoices so far
  locks,    \* _lockStore, <<invoice, funder>> in order of insertion
  store,    \* the cache, least recently used first: [key, body, expiresAt]
  asks,     \* what each client's walk is doing
  served    \* history: who was answered last, and with what

cachedVars == <<listNow, market, edits, locks, store, asks, served>>

Orders == {"asc", "desc"}
Cursors == [value : SortValues, id : Rows, iat : Nat]

\* A page: its rows, nextCursor, and (history) the rows listed and unchanged
\* since it was read.
NoPage == [ids |-> <<>>, next |-> NoValue, steady |-> {}]

CachedTypeOK ==
  /\ listNow \in 0..ListHorizon
  /\ \A i \in Rows : market[i].open \in BOOLEAN /\ market[i].value \in SortValues
  /\ edits \in 0..MaxEdits
  /\ IsInjective(locks) /\ ToSet(locks) \subseteq LockInvoices \X Funders
  /\ Len(store) <= MaxEntries
  /\ \A c \in Clients :
       /\ asks[c].at \in {"ask", "query", "answer", "done", "refused"}
       /\ asks[c].tenant \in Range(TenantOf)
       /\ asks[c].order \in Orders /\ asks[c].cursor \in Cursors \union {NoValue}
       /\ asks[c].got \in Seq(Rows) /\ asks[c].steady \subseteq Rows

CachedInit ==
  /\ listNow = 0
  /\ market \in [Rows -> [open : BOOLEAN, value : SortValues]]
  /\ edits = 0
  /\ locks = <<>>
  /\ store = <<>>
  /\ asks \in [Clients -> [at : {"ask"}, tenant : Range(TenantOf), order : Orders, page : {1, 2}, cursor : {NoValue},
                           keep : {FALSE}, body : {NoPage}, got : {<<>>}, steady : {Rows}]]
  /\ served = [to |-> NoValue, holds |-> {}]

-----------------------------------------------------------------------------
(* The store.                                                              *)

Without(s, key) == SelectSeq(s, LAMBDA e : e.key # key)

\* get(): an expired entry counts as missing.
Cached(key) == {e \in ToSet(store) : e.key = key /\ listNow <= e.expiresAt}

\* What get() leaves of the store: a hit becomes the most recently used, an
\* expired entry goes.
AfterGet(key) == Without(store, key) \o SetToSeq(Cached(key))

\* set(), with the eviction of the least recently used entries.
AfterSet(key, body) ==
  LET added == Append(Without(store, key),
                      [key |-> key, body |-> body, expiresAt |-> listNow + ResponseTtl])
      excess == IF Len(added) > MaxEntries THEN Len(added) - MaxEntries ELSE 0
  IN SubSeq(added, excess + 1, Len(added))

-----------------------------------------------------------------------------
(* The marketplace.                                                        *)

\* The order of the query, with the id to break ties.
Precedes(order, v, i, w, j) ==
  IF order = "asc" THEN v < w \/ (v = w /\ i < j) ELSE v > w \/ (v = w /\ i > j)

\* The rows of a tenant that pass the visibility and the filters.
Visible(tenant) == {i \in Rows : market[i].open /\ TenantOf[i] = tenant}

PastCursorByValue(order, cursor, i) ==
  IF order = "asc" THEN market[i].value > cursor.value ELSE market[i].value < cursor.value

\* The keyset predicate of a cursor.
PastCursor(order, cursor, i) == Precedes(order, cursor.value, cursor.id, market[i].value, i)

\* getMarketplaceInvoices(): limit + 1 rows past the cursor, or past the offset.
Page(tenant, order, page, cursor) ==
  LET matches == {i \in Visible(tenant) : cursor = NoValue \/ PastCursor(order, cursor, i)}
      sorted == SetToSortSeq(matches,
                  LAMBDA i, j : Precedes(order, market[i].value, i, market[j].value, j))
      rest == IF cursor = NoValue THEN SubSeq(sorted, (page - 1) * PageLimit + 1, Len(sorted))
                                  ELSE sorted
      hasMore == Len(rest) > PageLimit
      data == IF hasMore THEN SubSeq(rest, 1, PageLimit) ELSE rest
  IN [ids |-> data,
      next |-> IF hasMore THEN [value |-> market[Last(data)].value, id |-> Last(data), iat |-> listNow]
                          ELSE NoValue,
      steady |-> Visible(tenant)]

\* makeMarketplaceKey(): the tenant and the URL.
MarketplaceKey(c) == <<"marketplace", asks[c].tenant, asks[c].order, asks[c].page, asks[c].cursor>>

\* A page reaches the client, who goes on with its cursor.
Deliver(c, page) ==
  /\ asks' = [asks EXCEPT ![c] = [@ EXCEPT !.at = IF page.next = NoValue THEN "done" ELSE "ask",
                                           !.cursor = page.next, !.keep = FALSE, !.body = NoPage,
                                           !.got = @ \o page.ids,
                                           !.steady = @ \intersect page.steady]]
  /\ served' = [to |-> c, holds |-> ToSet(page.ids)]

\* cacheResponse() on a hit.
ServeCached(c) ==
  /\ asks[c].at = "ask"
  /\ \E e \in Cached(MarketplaceKey(c)) : Deliver(c, e.body)
  /\ store' = AfterGet(MarketplaceKey(c))
  /\ UNCHANGED <<listNow, market, edits, locks>>

\* cacheResponse() on a miss: res.json() will store a 2xx answer.
Miss(c) ==
  /\ asks[c].at = "ask"
  /\ Cached(MarketplaceKey(c)) = {}
  /\ store' = AfterGet(MarketplaceKey(c))
  /\ asks' = [asks EXCEPT ![c].at = "query", ![c].keep = TRUE]
  /\ UNCHANGED <<listNow, market, edits, locks, served>>

\* Cache-Control: no-cache, or a store that throws: neither read nor written.
Bypass(c) ==
  /\ asks[c].at = "ask"
  /\ asks' = [asks EXCEPT ![c].at = "query"]
  /\ UNCHANGED <<listNow, market, edits, locks, store, served>>

\* decodeCursor() refuses a cursor that is too old.
Expired(c) == asks[c].cursor # NoValue /\ listNow - asks[c].cursor.iat > CursorTtl

\* A 400 (parameters or cursor) or a failed query: nothing is cached.
Refuse(c) ==
  /\ asks[c].at = "query"
  /\ asks' = [asks EXCEPT ![c].at = "refused", ![c].keep = FALSE]
  /\ UNCHANGED <<listNow, market, edits, locks, store, served>>

\* The query of the page.
Query(c) ==
  /\ asks[c].at = "query"
  /\ ~ Expired(c)
  /\ asks' = [asks EXCEPT ![c].at = "answer",
                          ![c].body = Page(asks[c].tenant, asks[c].order, asks[c].page, asks[c].cursor)]
  /\ UNCHANGED <<listNow, market, edits, locks, store, served>>

\* res.json(): stored under the key of the request, then sent.
Answer(c) ==
  /\ asks[c].at = "answer"
  /\ store' = IF asks[c].keep THEN AfterSet(MarketplaceKey(c), asks[c].body) ELSE store
  /\ Deliver(c, asks[c].body)
  /\ UNCHANGED <<listNow, market, edits, locks>>

\* An invoice opens, closes or gets another sort value; nothing in the code
\* calls invalidatePrefix(), so the pages in the cache stay.
Unsteady(page, i) == [page EXCEPT !.steady = @ \ {i}]
Edit(i) ==
  /\ edits < MaxEdits
  /\ edits' = edits + 1
  /\ \E row \in [open : BOOLEAN, value : SortValues] :
       row # market[i] /\ market' = [market EXCEPT ![i] = row]
  /\ store' = [n \in DOMAIN store |->
                 IF store[n].key[1] = "marketplace"
                 THEN [store[n] EXCEPT !.body = Unsteady(@, i)] ELSE store[n]]
  /\ asks' = [c \in Clients |-> [asks[c] EXCEPT !.body = Unsteady(@, i), !.steady = @ \ {i}]]
  /\ UNCHANGED <<listNow, locks, served>>

ListTick ==
  /\ listNow < ListHorizon
  /\ listNow' = listNow + 1
  /\ UNCHANGED <<market, edits, locks, store, asks, served>>

MarketNext ==
  \/ \E c \in Clients : ServeCached(c) \/ Miss(c) \/ Bypass(c) \/ Refuse(c) \/ Query(c) \/ Answer(c)
  \/ \E i \in Rows : Edit(i)
  \/ ListTick

-----------------------------------------------------------------------------
(* The investor locks.  The handlers do not wait, so a request is one step.*)

\* setInvestorLock(): a Map keeps the place of a key set again.
SetInvestorLock(invoice, funder) ==
  /\ locks' = IF <<invoice, funder>> \in ToSet(locks) THEN locks
                                                      ELSE Append(locks, <<invoice, funder>>)
  /\ UNCHANGED <<listNow, market, edits, store, asks, served>>

\* getInvestorLockPrincipalScope().
Scope(p) == IF p.admin THEN <<"admin", p.role>> ELSE <<"funder", p.funder>>

WithoutScope(p, url) == <<"locks", url>>

\* makeInvestorLocksKey() and makeInvestorLockKey(): one tenant's principals.
LockKey(p, url) == <<"locks", Scope(p), url>>

\* The checks of both handlers: 400 for a bad address, 403 for a caller who
\* is not an admin and not bound to the address asked for.
Allowed(p, asked) ==
  /\ asked # Malformed
  /\ p.admin \/ (p.funder \in Funders /\ asked \in {NoValue, p.funder})

\* getAllInvestorLocks() and getInvestorLocksByAddress().
LocksPage(p, url) ==
  LET by == IF p.admin THEN url.funder ELSE p.funder
      items == SelectSeq(locks, LAMBDA l : /\ by = NoValue \/ l[2] = by
                                           /\ url.invoice = NoValue \/ l[1] = url.invoice)
      offset == (url.page - 1) * LockLimit
  IN {items[n] : n \in DOMAIN items \intersect (offset + 1)..(offset + LockLimit)}

\* Answer p and keep the answer under its key, or answer from the cache.
Respond(p, key, ok, body) ==
  LET hits == Cached(key)
  IN \/ /\ hits # {}
        /\ \E e \in hits : served' = [to |-> p, holds |-> e.body]
        /\ store' = AfterGet(key)
     \/ /\ hits = {} /\ ok
        /\ served' = [to |-> p, holds |-> body]
        /\ store' = AfterSet(key, body)

\* GET /locks.  The invoice is a filter.
GetLocks(p, url) ==
  /\ Respond(p, LockKey(p, url), Allowed(p, url.funder), LocksPage(p, url))
  /\ UNCHANGED <<listNow, market, edits, locks, asks>>

\* GET /locks/:invoiceId.  The address is required; a missing lock is a 404.
GetLock(p, invoice, funder) ==
  /\ Respond(p, LockKey(p, [invoice |-> invoice, of |-> funder]),
             funder # NoValue /\ Allowed(p, funder) /\ <<invoice, funder>> \in ToSet(locks),
             {<<invoice, funder>>})
  /\ UNCHANGED <<listNow, market, edits, locks, asks>>

LockNext ==
  \/ \E i \in LockInvoices, f \in Funders : SetInvestorLock(i, f)
  \/ \E p \in Principals, f \in Funders \union {NoValue, Malformed} :
       \/ \E i \in LockInvoices \union {NoValue}, n \in {1, 2} :
            GetLocks(p, [funder |-> f, invoice |-> i, page |-> n])
       \/ \E i \in LockInvoices : GetLock(p, i, f)
  \/ ListTick

CachedNext == MarketNext \/ LockNext

CachedSpec == CachedInit /\ [][CachedNext]_cachedVars

-----------------------------------------------------------------------------
(* Properties.                                                             *)

Count(s, i) == Cardinality({n \in DOMAIN s : s[n] = i})

\* A cursor walk through the marketplace never returns twice an invoice that
\* stayed listed with the same sort value since the oldest page of the walk
\* was read, and one that began at the first page and came to its end has
\* returned it: whatever else changed, however its pages were spread over
\* cache and database, and with equal sort values broken by id.
CursorWalkExact ==
  \A c \in Clients : \A i \in asks[c].steady :
    /\ Count(asks[c].got, i) <= 1
    /\ asks[c].at = "done" /\ asks[c].page = 1 => Count(asks[c].got, i) = 1

\* cacheResponse() answers a hit before the handler checks anything, so the
\* key must carry every right the handler would have checked: no client is
\* sent an invoice of another tenant, and nobody but an admin a lock of
\* another funder.
ServedInScope ==
  /\ served.to \in Clients => \A i \in served.holds : TenantOf[i] = asks[served.to].tenant
  /\ served.to \in Principals =>
       served.to.admin \/ \A l \in served.holds : l[2] = served.to.funder

=============================================================================
