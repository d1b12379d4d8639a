----------------------------- MODULE ListingLife -----------------------------
(***************************************************************************)
(* The life of one listing in the database: crawls find it in a list,      *)
(* decide by its record whether to fetch its page, save the record, the    *)
(* price revision and the evaluation that says whether it is published;    *)
(* the validation step of the pipelines goes over the evaluations too      *)
(* (package/api/differential.py, package/api/api.py,                       *)
(* package/utils/data_validator.py, scripts/maintenance/validate_data.py). *)
(***************************************************************************)
EXTENDS Integers, FiniteSets

CONSTANTS
  Crawls,        \* crawls whose lists may hold the listing
  Prices,        \* the prices it may have
  NoPrice,       \* the site does not show the listing, a list shows no price
  TTL,           \* DIFFERENTIAL_TTL_DAYS
  SkipUrlCheck,  \* validate_data runs with --skip-url-check
  MaxDay,        \* bound: the last day looked at
  MaxAtOnce      \* bound: crawls and validations at the listing at once

ASSUME ListingLifeAssumption ==
  /\ IsFiniteSet(Crawls)
  /\ NoPrice \notin Prices
  /\ TTL \in Nat /\ SkipUrlCheck \in BOOLEAN /\ MaxDay \in Nat
  /\ MaxAtOnce \in Nat

VARIABLES
  day,
  site,     \* the price the site shows, Gone when the listing is not there
  carries,  \* the lists show prices
  rec,      \* the record of the listing
  eval,     \* its PropertyEvaluation: whether there is one, and is_published
  revised,  \* PropertyPriceHistory: what was appended since rec.price changed
  crawl,    \* where each crawl is with the listing, and what it has read
  check,    \* where validate_data is, and the verdict it is going to save
  shown,    \* history: when the site last showed a price
  accepted, \* history: since it was last unpublished a crawl has read its page, or
            \* the URL check has accepted it
  trouble   \* history: since the listing was last left alone, an answer was
            \* "lost", or there was an "overlap" of two

vars == <<day, site, carries, rec, eval, revised, crawl, check, shown, accepted, trouble>>
world == <<day, site, carries, shown>>

Days == 0 .. MaxDay
Gone == NoPrice
NoRow == [price |-> NoPrice, input |-> 0, seen |-> 0]
NoBase == [price |-> NoPrice, input |-> 0]
Exists(r) == r.price # NoPrice

Rows == {NoRow} \cup [price : Prices, input : Days, seen : Days]
Bases == {NoBase} \cup [price : Prices, input : Days]
Evals == {"none", "published", "delisted"}
Steps == {"idle", "listed", "touch", "fetch", "read", "revise", "save", "merge",
          "tag", "ended", "delist", "failed", "flag"}

\* now: the day the crawl began; price: the list's, then the page's; base: of
\* the row it found, the price and inputDate; eval: the evaluation it found.
Idle == [step |-> "idle", now |-> 0, price |-> NoPrice, base |-> NoBase, eval |-> "none"]

TypeOK ==
  /\ day \in Days
  /\ site \in Prices \cup {Gone}
  /\ carries \in BOOLEAN
  /\ rec \in Rows
  /\ eval \in Evals
  /\ revised \subseteq Prices \X Prices
  /\ crawl \in [Crawls -> [step : Steps, now : Days, price : Prices \cup {NoPrice},
                            base : Bases, eval : Evals]]
  /\ \A c \in Crawls : crawl[c].step = "idle" => crawl[c] = Idle
  /\ \A c \in Crawls : crawl[c].step = "revise" => Exists(crawl[c].base)
  /\ \A c \in Crawls : crawl[c].step = "touch" => Exists(rec)
  /\ \A c \in Crawls :
       crawl[c].step \in {"read", "revise", "save", "merge"} => crawl[c].price \in Prices
  /\ check \in {"idle", "loaded", "published", "delisted"}
  /\ shown \in [Prices -> Days]
  /\ accepted \in BOOLEAN
  /\ trouble \in {"none", "lost", "overlap"}

Init ==
  /\ day = 0 /\ site \in Prices \cup {Gone} /\ carries \in BOOLEAN
  /\ rec = NoRow /\ eval = "none" /\ revised = {}
  /\ crawl = [c \in Crawls |-> Idle] /\ check = "idle"
  /\ shown = [p \in Prices |-> 0] /\ accepted = FALSE /\ trouble = "none"

-----------------------------------------------------------------------------
InFlight == {c \in Crawls : crawl[c].step # "idle"}

AtOnce == Cardinality(InFlight) + IF check = "idle" THEN 0 ELSE 1

Begins ==
  /\ AtOnce < MaxAtOnce
  /\ trouble' = IF AtOnce = 0 THEN "none" ELSE "overlap"

Loses == trouble' = IF trouble = "none" THEN "lost" ELSE trouble

\* What a crawl has read and needs no more is forgotten.
Goto(c, step) ==
  crawl' = [crawl EXCEPT ![c] =
    IF step \in {"touch", "fetch", "tag"} THEN [Idle EXCEPT !.step = step, !.now = crawl[c].now]
    ELSE [@ EXCEPT !.step = step]]
Leave(c) == crawl' = [crawl EXCEPT ![c] = Idle]

Store(r) ==
  /\ rec' = r
  /\ revised' = IF r.price = rec.price THEN revised ELSE {}

Evaluate(e) ==
  /\ eval' = e
  /\ accepted' = IF e = "delisted" /\ eval # "delisted" THEN FALSE ELSE accepted

-----------------------------------------------------------------------------
(* A list holds the listing: filter_differential_items                     *)

List(c) ==
  /\ crawl[c].step = "idle" /\ site # Gone
  /\ crawl' = [crawl EXCEPT ![c] =
       [Idle EXCEPT !.step = "listed", !.now = day,
                    !.price = IF carries THEN site ELSE NoPrice]]
  /\ Begins
  /\ UNCHANGED <<world, rec, eval, revised, check, accepted>>

\* _is_ttl_expired: a record's age counts from its updateDateTime.
Expired(c) == TTL > 0 /\ crawl[c].now - rec.seen > TTL

ShouldFetch_ByAge(c) == ~Exists(rec) \/ Expired(c)

\* _should_fetch_item.
ShouldFetch(c) ==
  \/ ~Exists(rec)
  \/ crawl[c].price # NoPrice /\ crawl[c].price # rec.price
  \/ Expired(c)

\* The query of the chunk, and the partition.
Query(c) ==
  /\ crawl[c].step = "listed"
  /\ Goto(c, IF ShouldFetch(c) THEN "fetch" ELSE "touch")
  /\ UNCHANGED <<world, rec, eval, revised, check, accepted, trouble>>

\* An error of the query that is not one of the connection, or
\* FORCE_FULL_CRAWL: everything is fetched.
FetchAnyway(c) ==
  /\ crawl[c].step = "listed"
  /\ Goto(c, "fetch")
  /\ UNCHANGED <<world, rec, eval, revised, check, accepted, trouble>>

\* _batch_update_cached writes the time at which the filter began.
Touch(c) ==
  /\ crawl[c].step = "touch"
  /\ Store([rec EXCEPT !.seen = crawl[c].now])
  /\ Leave(c)
  /\ UNCHANGED <<world, eval, check, accepted, trouble>>

-----------------------------------------------------------------------------
(* Its page: _treatPage                                                    *)

FetchPage(c) ==
  /\ crawl[c].step = "fetch"
  /\ \/ /\ site # Gone
        /\ crawl' = [crawl EXCEPT ![c].step = "read", ![c].price = site]
        /\ accepted' = TRUE
     \/ /\ site = Gone
        /\ Goto(c, "ended") /\ UNCHANGED accepted
     \/ Goto(c, "failed") /\ UNCHANGED accepted
  /\ UNCHANGED <<world, rec, eval, revised, check, trouble>>

After_SaveFirst(step, changed) ==
  IF step = "read" THEN "save"
  ELSE IF step = "save" /\ changed THEN "revise"
  ELSE "tag"

\* The order of _save_property_and_price_history.
After(step, changed) ==
  IF step = "read" /\ changed THEN "revise"
  ELSE IF step \in {"read", "revise"} THEN "save"
  ELSE "tag"

BaseOf(r) == [price |-> r.price, input |-> r.input]

Changed(c, base) == Exists(base) /\ base.price # crawl[c].price

\* The lookup of the existing record.  Most errors are swallowed in url_matcher
\* and answered with None, as if there were no record.
LookUp(c) ==
  /\ crawl[c].step = "read"
  /\ \/ /\ crawl' = [crawl EXCEPT ![c].base = BaseOf(rec),
                                  ![c].step = After("read", Changed(c, rec))]
        /\ UNCHANGED trouble
     \/ /\ Goto(c, After("read", FALSE))
        /\ Loses
  /\ UNCHANGED <<world, rec, eval, revised, check, accepted>>

\* _record_price_revision swallows every error.
Revise(c) ==
  /\ crawl[c].step = "revise"
  /\ \/ /\ revised' = revised \cup {<<crawl[c].base.price, crawl[c].price>>}
        /\ UNCHANGED trouble
     \/ /\ Loses
        /\ UNCHANGED revised
  /\ Goto(c, After("revise", TRUE))
  /\ UNCHANGED <<world, rec, eval, check, accepted>>

RegisteredOn_Update(c) == day

\* inputDate of the row that is saved: kept from the row that was read.
RegisteredOn(c) == crawl[c].base.input

\* item.save() updates every field of a row that was found, and inserts
\* otherwise.  pageUrl is unique.
Save(c) ==
  /\ crawl[c].step = "save"
  /\ LET base == crawl[c].base
         p == crawl[c].price
     IN  IF ~Exists(base) /\ Exists(rec)
         THEN Goto(c, "merge") /\ UNCHANGED <<rec, revised>>
         ELSE /\ Store([price |-> p, seen |-> day,
                        input |-> IF Exists(base) THEN RegisteredOn(c) ELSE day])
              /\ Goto(c, After("save", Changed(c, base)))
  /\ UNCHANGED <<world, eval, check, accepted, trouble>>

\* _handle_duplicate_entry_fallback: the row is looked up once more, and saved
\* over without a revision.
Merge(c) ==
  /\ crawl[c].step = "merge"
  /\ crawl' = [crawl EXCEPT ![c].base = BaseOf(rec), ![c].step = "save"]
  /\ UNCHANGED <<world, rec, eval, revised, check, accepted, trouble>>

\* tag_property_integrity: published, whether the data are valid or not.
Tag(c) ==
  /\ crawl[c].step = "tag"
  /\ Evaluate("published")
  /\ Leave(c)
  /\ UNCHANGED <<world, rec, revised, check, trouble>>

-----------------------------------------------------------------------------
(* No page: _sync_persist_delisted and _sync_persist_parser_failure        *)

FindEval(c) ==
  /\ crawl[c].step \in {"ended", "failed"}
  /\ crawl' = [crawl EXCEPT ![c].eval = eval,
                 ![c].step = IF @ = "ended" THEN "delist" ELSE "flag"]
  /\ UNCHANGED <<world, rec, eval, revised, check, accepted, trouble>>

\* create() fails, and that is swallowed, if there is one by now.
MayWrite(c) == crawl[c].eval # "none" \/ eval = "none"

Delist(c) ==
  /\ crawl[c].step = "delist"
  /\ IF MayWrite(c) THEN Evaluate("delisted") ELSE UNCHANGED <<eval, accepted>>
  /\ Leave(c)
  /\ UNCHANGED <<world, rec, revised, check, trouble>>

Flagged_Published(c) == "published"

\* The whole row is saved, is_published as it was read; a new one is published.
Flagged(c) == IF crawl[c].eval = "none" THEN "published" ELSE crawl[c].eval

FlagParser(c) ==
  /\ crawl[c].step = "flag"
  /\ IF MayWrite(c) THEN Evaluate(Flagged(c)) ELSE UNCHANGED <<eval, accepted>>
  /\ Leave(c)
  /\ UNCHANGED <<world, rec, revised, check, trouble>>

\* An error that ends the work on the listing, a page that was blocked, a
\* cancelled crawl or a crash.
GivesUp(c) ==
  /\ crawl[c].step # "idle"
  /\ Leave(c)
  /\ UNCHANGED <<world, rec, eval, revised, check, accepted, trouble>>

-----------------------------------------------------------------------------
(* validate_data: all evaluations are read, then all pages looked at, then  *)
(* all evaluations saved                                                    *)

LoadEvals ==
  /\ check = "idle" /\ Exists(rec) /\ eval # "none"
  /\ check' = "loaded"
  /\ Begins
  /\ UNCHANGED <<world, rec, eval, revised, crawl, accepted>>

\* process_property_validation: without a look every row is published, and with
\* one the answer does not follow the site.  verify_url_active knows a few phrases
\* of an ended listing and takes every other page with status 200 for a listing,
\* also those that a parser tells apart; an error of the request is an end.
Verdicts == IF SkipUrlCheck THEN {"published"} ELSE {"published", "delisted"}

Judge ==
  /\ check = "loaded"
  /\ check' \in Verdicts
  /\ accepted' = (accepted \/ (check' = "published" /\ ~SkipUrlCheck))
  /\ UNCHANGED <<world, rec, eval, revised, crawl, trouble>>

SaveVerdict ==
  /\ check \in {"published", "delisted"}
  /\ Evaluate(check)
  /\ check' = "idle"
  /\ UNCHANGED <<world, rec, revised, crawl, trouble>>

ValidationDies ==
  /\ check # "idle" /\ check' = "idle"
  /\ UNCHANGED <<world, rec, eval, revised, crawl, accepted, trouble>>

-----------------------------------------------------------------------------
\* Kept only for lists that show prices.
Shows(price, d) ==
  shown' = [p \in Prices |-> IF carries /\ p = price THEN d ELSE shown[p]]

\* The site changes the price, takes the listing down or puts it up again.
SiteChanges ==
  /\ site' \in (Prices \cup {Gone}) \ {site}
  /\ Shows(site', day)
  /\ UNCHANGED <<day, carries, rec, eval, revised, crawl, check, accepted, trouble>>

\* A crawl ends within a day of its beginning.
Tick ==
  /\ day < MaxDay /\ day' = day + 1
  /\ \A c \in InFlight : crawl[c].now = day
  /\ Shows(site, day')
  /\ UNCHANGED <<site, carries, rec, eval, revised, crawl, check, accepted, trouble>>

Next ==
  \/ \E c \in Crawls :
       \/ List(c) \/ Query(c) \/ FetchAnyway(c) \/ Touch(c) \/ FetchPage(c)
       \/ LookUp(c) \/ Revise(c) \/ Save(c) \/ Merge(c) \/ Tag(c)
       \/ FindEval(c) \/ Delist(c) \/ FlagParser(c) \/ GivesUp(c)
  \/ LoadEvals \/ Judge \/ SaveVerdict \/ ValidationDies
  \/ SiteChanges \/ Tick

Spec == Init /\ [][Next]_vars

-----------------------------------------------------------------------------
\* The day a listing was registered stays with its record, through updates,
\* lost answers and two crawls that both take it for new.
RegistrationDateIsKept == [][Exists(rec) => rec'.input = rec.input]_vars

\* No price is overwritten without a trace: the revision from the old to the new
\* one has been appended before, whatever is cut off in between.  Two crawls at
\* the same listing, or an answer that was lost, may lose one.
NoSilentPriceChange ==
  [][Exists(rec) /\ rec'.price # rec.price /\ trouble = "none" =>
       <<rec.price, rec'.price>> \in revised]_vars

\* With lists that show prices, a price is confirmed in the database only as
\* long as the site shows it: a skipped page never hides a change of price.
StoredPriceIsConfirmed ==
  carries /\ Exists(rec) => rec.seen <= shown[rec.price] + 1

\* A listing that was found to have ended is published again only after somebody
\* has looked and was not told so: a crawl that read its page, or the URL check
\* that accepted it, as long as only one crawl or validation is at it at a time.
\* What the check accepts may be the page of an ended listing all the same.
DelistedNeedsALook ==
  [][eval = "delisted" /\ eval' = "published" /\ trouble # "overlap" => accepted]_vars
=============================================================================
