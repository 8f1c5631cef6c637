------------------------------- MODULE Catalogue -------------------------------
(***************************************************************************)
(* The product list and its caches in the workers of a cluster: the list   *)
(* cache of routes/products.js under the signature of lib/db.js, the ETag  *)
(* of middleware.js with a browser's copy, and the settings cache from     *)
(* which the signature takes reviews_rev.  The caches belong to one        *)
(* process, what they copy to all of them.  Contents are numbers: how many *)
(* writes a table has seen.                                                *)
(***************************************************************************)
EXTENDS Integers, Sequences, FiniteSets

CONSTANTS
  Processes,      \* the workers
  Filters,        \* what a list may be asked for
  LIST_CACHE_MAX,
  NoSettings,
  NoSignature,
  NoCopy,
  MaxWrites       \* bound: of the writes to each table

ASSUME CatalogueAssumption ==
  /\ IsFiniteSet(Processes)
  /\ LIST_CACHE_MAX \in Nat \ {0}
  /\ NoSettings \notin Nat
  /\ NoSignature \notin [reviews : Nat, catalog : Nat]
  /\ MaxWrites \in Nat

Signature == [reviews : Nat, catalog : Nat]
Body == [filter : Filters, products : Nat, ratings : Nat]

\* What a worker may be doing between two of its statements.
Signing == [doing : {"signing"}, filter : Filters, began : Nat, reviews : Nat]
Signed == [doing : {"signed"}, filter : Filters, began : Nat, sig : Signature]
Building == [doing : {"building"}, filter : Filters, began : Nat, sig : Signature,
             ratings : Nat]
Jobs == [doing : {"idle", "bumping"}] \cup Signing \cup Signed \cup Building

VARIABLES
  catalog_rev,   \* settings.catalog_rev: triggers count every visible product write
  reviews,       \* writes to the table of reviews
  reviews_rev,   \* settings.reviews_rev
  settingsCache, \* of each process, of its rows reviews_rev alone
  listCache,     \* a Map, oldest entry first
  listCacheSig,
  process,       \* what each worker is doing
  answer,        \* history: the last answer, with what it had to show
  browser        \* a browser's copy and the signature in its ETag

catalogueVars == <<catalog_rev, reviews, reviews_rev, settingsCache, listCache,
                   listCacheSig, process, answer, browser>>

AtRestIn == [doing |-> "idle"]

CatalogueInit ==
  /\ catalog_rev = 0
  /\ reviews = 0
  /\ reviews_rev = 0
  /\ settingsCache = [w \in Processes |-> NoSettings]
  /\ listCache = [w \in Processes |-> <<>>]
  /\ listCacheSig = [w \in Processes |-> NoSignature]
  /\ process = [w \in Processes |-> AtRestIn]
  /\ answer = NoCopy
  /\ browser = NoCopy

becomes(w, state) == process' = [process EXCEPT ![w] = state]

idle(w) == process[w] = AtRestIn

-----------------------------------------------------------------------------
\* Writes.

\* A product is edited, sold or published: the trigger counts in the statement.
WriteProduct ==
  /\ catalog_rev < MaxWrites
  /\ catalog_rev' = catalog_rev + 1
  /\ UNCHANGED <<reviews, reviews_rev, settingsCache, listCache, listCacheSig,
                 process, answer, browser>>

\* upsertReview and adminSetReviewStatus: two statements and no transaction.
WriteReview(w) ==
  /\ idle(w)
  /\ reviews < MaxWrites
  /\ reviews' = reviews + 1
  /\ becomes(w, [doing |-> "bumping"])
  /\ UNCHANGED <<catalog_rev, reviews_rev, settingsCache, listCache, listCacheSig,
                 answer, browser>>

BumpReviewsRev(w) ==
  /\ process[w].doing = "bumping"
  /\ reviews_rev' = reviews_rev + 1
  /\ settingsCache' = [settingsCache EXCEPT ![w] = NoSettings]
  /\ becomes(w, AtRestIn)
  /\ UNCHANGED <<catalog_rev, reviews, listCache, listCacheSig, answer, browser>>

\* setSettingsTx writes other rows of the table and fills the cache anew.
setSettingsTx(w) ==
  /\ idle(w)
  /\ settingsCache' = [settingsCache EXCEPT ![w] = reviews_rev]
  /\ UNCHANGED <<catalog_rev, reviews, reviews_rev, listCache, listCacheSig, process,
                 answer, browser>>

-----------------------------------------------------------------------------
\* GET /api/products.

getSettings(w) ==
  IF settingsCache[w] = NoSettings THEN reviews_rev ELSE settingsCache[w]

\* getCatalogSignature, its first half, ...
ReadReviewsRev(w, f) ==
  /\ idle(w)
  /\ settingsCache' = [settingsCache EXCEPT ![w] = getSettings(w)]
  /\ becomes(w, [doing |-> "signing", filter |-> f, began |-> catalog_rev,
                 reviews |-> getSettings(w)])
  /\ UNCHANGED <<catalog_rev, reviews, reviews_rev, listCache, listCacheSig, answer,
                 browser>>

\* ... and its second, which takes catalog_rev past the settings cache.
ReadCatalogRev(w) ==
  /\ process[w].doing = "signing"
  /\ becomes(w, [doing |-> "signed", filter |-> process[w].filter,
                 began |-> process[w].began,
                 sig |-> [reviews |-> process[w].reviews, catalog |-> catalog_rev]])
  /\ UNCHANGED <<catalog_rev, reviews, reviews_rev, settingsCache, listCache,
                 listCacheSig, answer, browser>>

answers(w, body) ==
  /\ answer' = [products |-> body.products, ratings |-> body.ratings,
                began |-> process[w].began, signed |-> process[w].sig.reviews]
  /\ browser' = [sig |-> process[w].sig, body |-> body]
  /\ becomes(w, AtRestIn)

\* etagJson: the browser's copy has this signature.
NotModified(w) ==
  /\ process[w].doing = "signed"
  /\ browser # NoCopy
  /\ browser.sig = process[w].sig
  /\ browser.body.filter = process[w].filter
  /\ answers(w, browser.body)
  /\ UNCHANGED <<catalog_rev, reviews, reviews_rev, settingsCache, listCache,
                 listCacheSig>>

\* Faulty: a new signature leaves the old lists in place.
kept_always(w) == listCache[w]

\* What cachedList has left of the lists under this signature.
kept(w) == IF process[w].sig = listCacheSig[w] THEN listCache[w] ELSE <<>>

hits(w) == {i \in DOMAIN kept(w) : kept(w)[i].filter = process[w].filter}

CacheHit(w) ==
  /\ process[w].doing = "signed"
  /\ \E i \in hits(w) : answers(w, kept(w)[i])
  /\ listCache' = [listCache EXCEPT ![w] = kept(w)]
  /\ listCacheSig' = [listCacheSig EXCEPT ![w] = process[w].sig]
  /\ UNCHANGED <<catalog_rev, reviews, reviews_rev, settingsCache>>

\* A miss: build reads the ratings, ...
ReadRatings(w) ==
  /\ process[w].doing = "signed"
  /\ hits(w) = {}
  /\ listCache' = [listCache EXCEPT ![w] = kept(w)]
  /\ listCacheSig' = [listCacheSig EXCEPT ![w] = process[w].sig]
  /\ becomes(w, [doing |-> "building", filter |-> process[w].filter,
                 began |-> process[w].began, sig |-> process[w].sig,
                 ratings |-> reviews])
  /\ UNCHANGED <<catalog_rev, reviews, reviews_rev, settingsCache, answer, browser>>

\* ... then the products; a full cache drops its oldest list.
ReadProducts(w) ==
  LET body == [filter |-> process[w].filter, products |-> catalog_rev,
               ratings |-> process[w].ratings]
      rest == IF Len(listCache[w]) >= LIST_CACHE_MAX THEN Tail(listCache[w])
              ELSE listCache[w]
  IN /\ process[w].doing = "building"
     /\ listCache' = [listCache EXCEPT ![w] = Append(rest, body)]
     /\ answers(w, body)
     /\ UNCHANGED <<catalog_rev, reviews, reviews_rev, settingsCache, listCacheSig>>

\* A worker dies and its successor starts with empty caches.
Restart(w) ==
  /\ settingsCache' = [settingsCache EXCEPT ![w] = NoSettings]
  /\ listCache' = [listCache EXCEPT ![w] = <<>>]
  /\ listCacheSig' = [listCacheSig EXCEPT ![w] = NoSignature]
  /\ becomes(w, AtRestIn)
  /\ UNCHANGED <<catalog_rev, reviews, reviews_rev, answer, browser>>

CatalogueNext ==
  \/ WriteProduct
  \/ \E w \in Processes :
       \/ WriteReview(w)
       \/ BumpReviewsRev(w)
       \/ setSettingsTx(w)
       \/ \E f \in Filters : ReadReviewsRev(w, f)
       \/ ReadCatalogRev(w)
       \/ NotModified(w)
       \/ CacheHit(w)
       \/ ReadRatings(w)
       \/ ReadProducts(w)
       \/ Restart(w)

CatalogueSpec == CatalogueInit /\ [][CatalogueNext]_catalogueVars

-----------------------------------------------------------------------------
\* Properties.

CatalogueTypeOK ==
  /\ catalog_rev \in Nat /\ reviews \in Nat
  /\ reviews_rev \in Nat
  /\ settingsCache \in [Processes -> Nat \cup {NoSettings}]
  /\ listCache \in [Processes -> Seq(Body)]
  /\ listCacheSig \in [Processes -> Signature \cup {NoSignature}]
  /\ process \in [Processes -> Jobs]
  /\ answer \in [products : Nat, ratings : Nat, began : Nat, signed : Nat]
                \cup {NoCopy}
  /\ browser \in [sig : Signature, body : Body] \cup {NoCopy}

\* An answer, be it built, taken from the list cache of its worker or confirmed
\* as the browser's own copy, shows every product write that was done before the
\* request came, and every review that the worker's settings snapshot counts.
ListIsCurrent ==
  answer # NoCopy =>
    /\ answer.products >= answer.began
    /\ answer.ratings >= answer.signed
=============================================================================
