-------------------------- MODULE ListingLifeProofs --------------------------
(***************************************************************************)
(* Proofs about ListingLife.                                               *)
(***************************************************************************)
EXTENDS ListingLife, FiniteSetTheorems, TLAPS

\* What a crawl may know while it is under way.
CrawlTypes == [step : Steps, now : Days, price : Prices \cup {NoPrice},
               base : Bases, eval : Evals]

\* The crawl that has nothing under way is well typed.
LEMMA IdleType == Idle \in CrawlTypes
BY ListingLifeAssumption DEF Idle, CrawlTypes, Steps, Days, Bases, NoBase, Evals

\* The part of the types that is about the crawls.
CrawlOK ==
  /\ crawl \in [Crawls -> CrawlTypes]
  /\ \A d \in Crawls : crawl[d].step = "idle" => crawl[d] = Idle
  /\ \A d \in Crawls : crawl[d].step = "revise" => Exists(crawl[d].base)
  /\ \A d \in Crawls :
       crawl[d].step \in {"read", "revise", "save", "merge"} => crawl[d].price \in Prices

\* The part of the types that is about the world, the record and the validation.
OthersOK ==
  /\ day \in Days /\ site \in Prices \cup {Gone} /\ carries \in BOOLEAN
  /\ rec \in Rows /\ eval \in Evals /\ revised \subseteq Prices \X Prices
  /\ check \in {"idle", "loaded", "published", "delisted"}
  /\ shown \in [Prices -> Days] /\ accepted \in BOOLEAN
  /\ trouble \in {"none", "lost", "overlap"}

\* A record is touched only where there is one.
TouchOK == \A c \in Crawls : crawl[c].step = "touch" => Exists(rec)

\* The three parts make up the type invariant,
LEMMA TypeParts == TypeOK <=> CrawlOK /\ OthersOK /\ TouchOK
BY DEF TypeOK, CrawlTypes, CrawlOK, OthersOK, TouchOK

\* before a step and after it.
LEMMA TypePartsPrimed == TypeOK' <=> CrawlOK' /\ OthersOK' /\ TouchOK'
BY DEF TypeOK, CrawlTypes, CrawlOK, OthersOK, TouchOK

\* A crawl that goes on keeps its type.
LEMMA GotoType ==
  ASSUME TypeOK, NEW c \in Crawls, NEW step \in Steps \ {"idle"}, Goto(c, step),
         step = "revise" => Exists(crawl[c].base),
         step \in {"read", "revise", "save", "merge"} => crawl[c].price \in Prices
  PROVE  /\ CrawlOK'
         /\ \A d \in Crawls : crawl'[d].step = "touch" => d = c \/ crawl[d].step = "touch"
         /\ crawl'[c].step = step
<1> DEFINE new == IF step \in {"touch", "fetch", "tag"}
                  THEN [Idle EXCEPT !.step = step, !.now = crawl[c].now]
                  ELSE [crawl[c] EXCEPT !.step = step]
<1>1. crawl \in [Crawls -> CrawlTypes]
  BY DEF TypeOK, CrawlTypes
<1>2. crawl' = [crawl EXCEPT ![c] = new]
  BY DEF Goto
<1>3. new \in CrawlTypes /\ new.step = step
  BY <1>1, IdleType DEF CrawlTypes, Idle
<1>4. step \notin {"touch", "fetch", "tag"} => new.base = crawl[c].base /\ new.price = crawl[c].price
  BY <1>1 DEF CrawlTypes
<1> HIDE DEF new
<1> QED
  BY <1>1, <1>2, <1>3, <1>4 DEF TypeOK, CrawlOK

\* A crawl that leaves the listing keeps the types.
LEMMA LeaveType ==
  ASSUME TypeOK, NEW c \in Crawls, Leave(c)
  PROVE  /\ CrawlOK'
         /\ \A d \in Crawls : crawl'[d].step = "touch" => crawl[d].step = "touch"
<1>1. crawl \in [Crawls -> CrawlTypes]
  BY DEF TypeOK, CrawlTypes
<1>2. Idle.step = "idle"
  BY DEF Idle
<1> QED
  BY <1>1, <1>2, IdleType DEF TypeOK, CrawlOK, Leave

\* A row that is stored replaces a row, or is the first.
LEMMA StoreType ==
  ASSUME TypeOK, NEW r \in Rows, Exists(r), Store(r)
  PROVE  rec' \in Rows /\ Exists(rec') /\ revised' \subseteq Prices \X Prices
BY DEF TypeOK, Store

\* So does writing an evaluation,
LEMMA EvaluateType ==
  ASSUME TypeOK, NEW e \in Evals, Evaluate(e)
  PROVE  eval' \in Evals /\ accepted' \in BOOLEAN
BY DEF TypeOK, Evaluate

\* beginning at the listing,
LEMMA BeginsType == ASSUME Begins PROVE trouble' \in {"none", "lost", "overlap"}
BY DEF Begins

\* losing an answer,
LEMMA LosesType == ASSUME TypeOK, Loses PROVE trouble' \in {"none", "lost", "overlap"}
BY DEF Loses, TypeOK

\* and showing a price on a day.
LEMMA ShowsType ==
  ASSUME TypeOK, NEW price, NEW d \in Days, Shows(price, d)
  PROVE  shown' \in [Prices -> Days]
BY DEF Shows, TypeOK

-----------------------------------------------------------------------------
\* Every reachable state is well typed.
THEOREM TypeCorrect == Spec => []TypeOK
<1>1. Init => TypeOK
  <2> SUFFICES ASSUME Init PROVE TypeOK
    OBVIOUS
  <2>1. CrawlOK /\ TouchOK
    BY IdleType DEF Init, CrawlOK, TouchOK, Idle
  <2>2. OthersOK
    <3>1. 0 \in Days
      BY ListingLifeAssumption DEF Days
    <3> QED
      BY <3>1 DEF Init, OthersOK, Rows, Evals
  <2> QED
    BY <2>1, <2>2, TypeParts
<1>2. TypeOK /\ [Next]_vars => TypeOK'
  <2> SUFFICES ASSUME TypeOK, [Next]_vars PROVE CrawlOK' /\ OthersOK' /\ TouchOK'
    BY TypePartsPrimed
  <2>t. CrawlOK /\ OthersOK /\ TouchOK
    BY TypeParts
  <2>1. ASSUME NEW c \in Crawls, List(c) PROVE CrawlOK' /\ OthersOK' /\ TouchOK'
    <3> DEFINE new == [Idle EXCEPT !.step = "listed", !.now = day,
                                   !.price = IF carries THEN site ELSE NoPrice]
    <3>1. new \in CrawlTypes /\ new.step = "listed"
      BY <2>t DEF Idle, CrawlTypes, Steps, Bases, NoBase, Evals, Gone, OthersOK
    <3>2. crawl' = [crawl EXCEPT ![c] = new]
      BY <2>1 DEF List
    <3> HIDE DEF new
    <3>3. CrawlOK'
      BY <3>1, <3>2, <2>t DEF CrawlOK
    <3>4. TouchOK'
      BY <3>1, <3>2, <2>t, <2>1 DEF CrawlOK, TouchOK, List
    <3>5. OthersOK'
      BY <2>t, <2>1, BeginsType DEF OthersOK, List, world
    <3> QED
      BY <3>3, <3>4, <3>5
  <2>2. ASSUME NEW c \in Crawls, Query(c) PROVE CrawlOK' /\ OthersOK' /\ TouchOK'
    <3> DEFINE step == IF ShouldFetch(c) THEN "fetch" ELSE "touch"
    <3>1. step \in Steps \ {"idle", "revise", "read", "save", "merge"} /\ Goto(c, step)
      BY <2>2 DEF Query, Steps
    <3>2. step = "touch" => Exists(rec)
      BY DEF ShouldFetch
    <3> HIDE DEF step
    <3>3. CrawlOK' /\ TouchOK'
      BY <3>1, <3>2, <2>t, <2>2, GotoType DEF TouchOK, Query
    <3>4. OthersOK'
      BY <2>t, <2>2 DEF OthersOK, Query, world
    <3> QED
      BY <3>3, <3>4
  <2>3. ASSUME NEW c \in Crawls, FetchAnyway(c) PROVE CrawlOK' /\ OthersOK' /\ TouchOK'
    <3>1. CrawlOK' /\ TouchOK'
      BY <2>t, <2>3, GotoType DEF TouchOK, FetchAnyway, Steps
    <3>2. OthersOK'
      BY <2>t, <2>3 DEF OthersOK, FetchAnyway, world
    <3> QED
      BY <3>1, <3>2
  <2>4. ASSUME NEW c \in Crawls, Touch(c) PROVE CrawlOK' /\ OthersOK' /\ TouchOK'
    <3> DEFINE r == [rec EXCEPT !.seen = crawl[c].now]
    <3>1. r \in Rows /\ Exists(r)
      BY <2>t, <2>4 DEF Touch, TouchOK, OthersOK, CrawlOK, CrawlTypes, Rows, NoRow, Exists
    <3>2. Store(r) /\ Leave(c)
      BY <2>4 DEF Touch
    <3> HIDE DEF r
    <3>3. CrawlOK' /\ TouchOK' /\ rec' \in Rows /\ revised' \subseteq Prices \X Prices
      BY <3>1, <3>2, StoreType, LeaveType DEF TouchOK
    <3>4. OthersOK'
      BY <3>3, <2>t, <2>4 DEF OthersOK, Touch, world
    <3> QED
      BY <3>3, <3>4
  <2>5. ASSUME NEW c \in Crawls, FetchPage(c) PROVE CrawlOK' /\ OthersOK' /\ TouchOK'
    <3>1. CASE site # Gone /\ crawl' = [crawl EXCEPT ![c].step = "read", ![c].price = site]
      <4> DEFINE new == [crawl[c] EXCEPT !.step = "read", !.price = site]
      <4>1. new \in CrawlTypes /\ new.step = "read" /\ new.price \in Prices
        BY <3>1, <2>t DEF CrawlOK, CrawlTypes, OthersOK, Steps
      <4>2. crawl' = [crawl EXCEPT ![c] = new]
        BY <3>1, <2>t DEF CrawlOK, CrawlTypes
      <4> HIDE DEF new
      <4> QED
        BY <4>1, <4>2, <2>t, <2>5 DEF CrawlOK, TouchOK, OthersOK, FetchPage, world
    <3>2. ASSUME NEW step \in {"ended", "failed"}, Goto(c, step) PROVE CrawlOK' /\ TouchOK'
      BY <3>2, <2>t, <2>5, GotoType DEF TouchOK, FetchPage, Steps
    <3>3. OthersOK'
      BY <2>t, <2>5 DEF OthersOK, FetchPage, world
    <3> QED
      BY <3>1, <3>2, <3>3, <2>5 DEF FetchPage
  <2>6. ASSUME NEW c \in Crawls, LookUp(c) PROVE CrawlOK' /\ OthersOK' /\ TouchOK'
    <3>0. OthersOK'
      BY <2>t, <2>6, LosesType DEF OthersOK, LookUp, world
    <3>1. CASE crawl' = [crawl EXCEPT ![c].base = BaseOf(rec), ![c].step = After("read", Changed(c, rec))]
      <4> DEFINE next == After("read", Changed(c, rec))
                 new == [crawl[c] EXCEPT !.base = BaseOf(rec), !.step = next]
      <4>1. next \in {"revise", "save"} /\ (next = "revise" => Exists(BaseOf(rec)))
        BY DEF After, Changed, Exists, BaseOf
      <4>2. BaseOf(rec) \in Bases
        BY <2>t DEF OthersOK, Rows, NoRow, Bases, NoBase, BaseOf
      <4>3. crawl' = [crawl EXCEPT ![c] = new]
        BY <3>1, <2>t DEF CrawlOK, CrawlTypes
      <4> HIDE DEF next
      <4>4. /\ new \in CrawlTypes /\ new.step = next
            /\ new.base = BaseOf(rec) /\ new.price = crawl[c].price
        BY <4>1, <4>2, <2>t DEF CrawlOK, CrawlTypes, Steps
      <4> HIDE DEF new
      <4>5. crawl[c].price \in Prices
        BY <2>t, <2>6 DEF CrawlOK, LookUp
      <4>6. CrawlOK'
        BY <4>1, <4>3, <4>4, <4>5, <2>t DEF CrawlOK
      <4> QED
        BY <3>0, <4>1, <4>3, <4>4, <4>6, <2>t, <2>6 DEF TouchOK, CrawlOK, LookUp
    <3>2. CASE Goto(c, After("read", FALSE))
      <4>1. Goto(c, "save") /\ crawl[c].price \in Prices
        BY <3>2, <2>t, <2>6 DEF After, CrawlOK, LookUp
      <4> QED
        BY <3>0, <4>1, <2>t, <2>6, GotoType DEF TouchOK, LookUp, Steps
    <3> QED
      BY <3>1, <3>2, <2>6 DEF LookUp
  <2>7. ASSUME NEW c \in Crawls, Revise(c) PROVE CrawlOK' /\ OthersOK' /\ TouchOK'
    <3>1. Goto(c, "save") /\ crawl[c].price \in Prices
      BY <2>t, <2>7 DEF Revise, After, CrawlOK
    <3>2. CrawlOK' /\ TouchOK'
      BY <3>1, <2>t, <2>7, GotoType DEF TouchOK, Revise, Steps
    <3>3. crawl[c].base.price \in Prices
      BY <2>t, <2>7 DEF Revise, CrawlOK, CrawlTypes, Bases, NoBase, Exists
    <3>4. OthersOK'
      BY <3>1, <3>3, <2>t, <2>7, LosesType DEF OthersOK, Revise, world
    <3> QED
      BY <3>2, <3>4
  <2>8. ASSUME NEW c \in Crawls, Save(c) PROVE CrawlOK' /\ OthersOK' /\ TouchOK'
    <3> DEFINE base == crawl[c].base
               r == [price |-> crawl[c].price, seen |-> day,
                     input |-> IF Exists(base) THEN RegisteredOn(c) ELSE day]
    <3>0. crawl[c].price \in Prices /\ base \in Bases
      BY <2>t, <2>8 DEF Save, CrawlOK, CrawlTypes
    <3>1. CASE ~Exists(base) /\ Exists(rec)
      <4>1. Goto(c, "merge") /\ UNCHANGED <<rec, revised>>
        BY <3>1, <2>8 DEF Save
      <4> QED
        BY <4>1, <3>0, <2>t, <2>8, GotoType DEF TouchOK, OthersOK, Save, Steps, world
    <3>2. CASE ~(~Exists(base) /\ Exists(rec))
      <4>1. Store(r) /\ Goto(c, After("save", Changed(c, base)))
        BY <3>2, <2>8 DEF Save
      <4>2. r \in Rows /\ Exists(r)
        BY <3>0, <2>t, ListingLifeAssumption
           DEF OthersOK, RegisteredOn, Rows, Bases, NoBase, Exists
      <4> HIDE DEF r
      <4>3. rec' \in Rows /\ Exists(rec') /\ revised' \subseteq Prices \X Prices
        BY <4>1, <4>2, StoreType
      <4>4. Goto(c, "tag")
        BY <4>1 DEF After
      <4>5. CrawlOK'
        BY <4>4, GotoType DEF Steps
      <4> QED
        BY <4>3, <4>5, <2>t, <2>8 DEF TouchOK, OthersOK, Save, world
    <3> QED
      BY <3>1, <3>2
  <2>9. ASSUME NEW c \in Crawls, Merge(c) PROVE CrawlOK' /\ OthersOK' /\ TouchOK'
    <3> DEFINE new == [crawl[c] EXCEPT !.base = BaseOf(rec), !.step = "save"]
    <3>1. BaseOf(rec) \in Bases
      BY <2>t DEF OthersOK, Rows, NoRow, Bases, NoBase, BaseOf
    <3>2. crawl' = [crawl EXCEPT ![c] = new]
      BY <2>9, <2>t DEF Merge, CrawlOK, CrawlTypes
    <3>3. new \in CrawlTypes /\ new.step = "save" /\ new.price \in Prices
      BY <3>1, <2>t, <2>9 DEF CrawlOK, CrawlTypes, Steps, Merge
    <3> HIDE DEF new
    <3>4. CrawlOK'
      BY <3>2, <3>3, <2>t DEF CrawlOK
    <3>5. TouchOK' /\ OthersOK'
      BY <3>2, <3>3, <2>t, <2>9 DEF TouchOK, CrawlOK, OthersOK, Merge, world
    <3> QED
      BY <3>4, <3>5
  <2>10. ASSUME NEW c \in Crawls, Tag(c) PROVE CrawlOK' /\ OthersOK' /\ TouchOK'
    <3>1. CrawlOK' /\ TouchOK'
      BY <2>t, <2>10, LeaveType DEF TouchOK, Tag
    <3>2. OthersOK'
      BY <2>t, <2>10, EvaluateType DEF OthersOK, Tag, Evals, world
    <3> QED
      BY <3>1, <3>2
  <2>11. ASSUME NEW c \in Crawls, FindEval(c) PROVE CrawlOK' /\ OthersOK' /\ TouchOK'
    <3> DEFINE new == [crawl[c] EXCEPT !.eval = eval,
                         !.step = IF crawl[c].step = "ended" THEN "delist" ELSE "flag"]
    <3>1. crawl' = [crawl EXCEPT ![c] = new]
      BY <2>11, <2>t DEF FindEval, CrawlOK, CrawlTypes
    <3>2. new \in CrawlTypes /\ new.step \in {"delist", "flag"}
      BY <2>t DEF CrawlOK, CrawlTypes, Steps, OthersOK
    <3> HIDE DEF new
    <3> QED
      BY <3>1, <3>2, <2>t, <2>11 DEF TouchOK, CrawlOK, OthersOK, FindEval, world
  <2>12. ASSUME NEW c \in Crawls, Delist(c) PROVE CrawlOK' /\ OthersOK' /\ TouchOK'
    <3>1. CrawlOK' /\ TouchOK'
      BY <2>t, <2>12, LeaveType DEF TouchOK, Delist
    <3>2. OthersOK'
      BY <2>t, <2>12, EvaluateType DEF OthersOK, Delist, Evals, world
    <3> QED
      BY <3>1, <3>2
  <2>13. ASSUME NEW c \in Crawls, FlagParser(c) PROVE CrawlOK' /\ OthersOK' /\ TouchOK'
    <3>1. CrawlOK' /\ TouchOK'
      BY <2>t, <2>13, LeaveType DEF TouchOK, FlagParser
    <3>2. Flagged(c) \in Evals
      BY <2>t DEF Flagged, CrawlOK, CrawlTypes, Evals
    <3>3. OthersOK'
      BY <3>2, <2>t, <2>13, EvaluateType DEF OthersOK, FlagParser, world
    <3> QED
      BY <3>1, <3>3
  <2>14. ASSUME NEW c \in Crawls, GivesUp(c) PROVE CrawlOK' /\ OthersOK' /\ TouchOK'
    BY <2>t, <2>14, LeaveType DEF TouchOK, OthersOK, GivesUp, world
  <2>15. ASSUME LoadEvals PROVE CrawlOK' /\ OthersOK' /\ TouchOK'
    BY <2>t, <2>15, BeginsType DEF CrawlOK, TouchOK, OthersOK, LoadEvals, world
  <2>16. ASSUME Judge PROVE CrawlOK' /\ OthersOK' /\ TouchOK'
    BY <2>t, <2>16 DEF CrawlOK, TouchOK, OthersOK, Judge, Verdicts, world
  <2>17. ASSUME SaveVerdict PROVE CrawlOK' /\ OthersOK' /\ TouchOK'
    BY <2>t, <2>17, EvaluateType DEF CrawlOK, TouchOK, OthersOK, SaveVerdict, Evals, world
  <2>18. ASSUME ValidationDies PROVE CrawlOK' /\ OthersOK' /\ TouchOK'
    BY <2>t, <2>18 DEF CrawlOK, TouchOK, OthersOK, ValidationDies, world
  <2>19. ASSUME SiteChanges PROVE CrawlOK' /\ OthersOK' /\ TouchOK'
    <3>1. shown' \in [Prices -> Days]
      BY <2>t, <2>19, ShowsType DEF SiteChanges, OthersOK
    <3> QED
      BY <3>1, <2>t, <2>19 DEF CrawlOK, TouchOK, OthersOK, SiteChanges
  <2>20. ASSUME Tick PROVE CrawlOK' /\ OthersOK' /\ TouchOK'
    <3>1. day' \in Days
      BY <2>t, <2>20, ListingLifeAssumption DEF Tick, Days, OthersOK
    <3>2. shown' \in [Prices -> Days]
      BY <3>1, <2>20, ShowsType DEF Tick
    <3> QED
      BY <3>1, <3>2, <2>t, <2>20 DEF CrawlOK, TouchOK, OthersOK, Tick
  <2>21. CASE UNCHANGED vars
    BY <2>t, <2>21 DEF CrawlOK, TouchOK, OthersOK, vars, world
  <2> QED
    BY <2>1, <2>2, <2>3, <2>4, <2>5, <2>6, <2>7, <2>8, <2>9, <2>10, <2>11, <2>12, <2>13,
       <2>14, <2>15, <2>16, <2>17, <2>18, <2>19, <2>20, <2>21 DEF Next
<1> QED
  BY <1>1, <1>2, PTL DEF Spec

-----------------------------------------------------------------------------
(* What the steps of a crawl do to the crawls                              *)

\* A crawl that goes on changes only itself, and keeps its day; where it does not need
\* them any more it drops the price and the record that it has read.
LEMMA GotoEffect ==
  ASSUME TypeOK, NEW c \in Crawls, NEW step \in Steps \ {"idle"}, Goto(c, step)
  PROVE  /\ \A d \in Crawls \ {c} : crawl'[d] = crawl[d]
         /\ crawl'[c].step = step /\ crawl'[c].now = crawl[c].now
         /\ step \in {"touch", "fetch", "tag"} => crawl'[c].base = NoBase
         /\ step \notin {"touch", "fetch", "tag"} =>
              crawl'[c].base = crawl[c].base /\ crawl'[c].price = crawl[c].price
<1>1. crawl \in [Crawls -> CrawlTypes]
  BY TypeParts DEF CrawlOK
<1>2. CASE step \in {"touch", "fetch", "tag"}
  <2>1. crawl'[c] = [step |-> step, now |-> crawl[c].now, price |-> NoPrice,
                     base |-> NoBase, eval |-> "none"]
    BY <1>1, <1>2 DEF Goto, Idle
  <2> QED
    BY <1>1, <1>2, <2>1 DEF Goto
<1>3. CASE step \notin {"touch", "fetch", "tag"}
  <2>1. crawl'[c] = [crawl[c] EXCEPT !.step = step]
    BY <1>1, <1>3 DEF Goto
  <2> QED
    BY <1>1, <1>3, <2>1 DEF Goto, CrawlTypes
<1> QED
  BY <1>2, <1>3

\* A crawl that leaves changes only itself.
LEMMA LeaveEffect ==
  ASSUME TypeOK, NEW c \in Crawls, Leave(c)
  PROVE  /\ \A d \in Crawls \ {c} : crawl'[d] = crawl[d]
         /\ crawl'[c] = Idle /\ Idle.step = "idle" /\ Idle.base = NoBase
<1>1. crawl \in [Crawls -> CrawlTypes]
  BY TypeParts DEF CrawlOK
<1> QED
  BY <1>1 DEF Leave, Idle

\* Beginning alone is beginning with nobody in flight.
LEMMA NobodyThere == AtOnce = 0 => InFlight = {} /\ check = "idle"
<1>1. IsFiniteSet(InFlight)
  BY ListingLifeAssumption, FS_Subset DEF InFlight
<1>2. Cardinality(InFlight) \in Nat
  BY <1>1, FS_CardinalityType
<1>3. Cardinality(InFlight) = 0 => InFlight = {}
  BY <1>1, FS_EmptySet
<1> QED
  BY <1>2, <1>3 DEF AtOnce

\* A crawl begins with the price on the list, if there is one, and with nothing read;
\* without an overlap it finds nobody at the listing.
LEMMA ListEffect ==
  ASSUME TypeOK, NEW c \in Crawls, List(c)
  PROVE  /\ \A d \in Crawls \ {c} : crawl'[d] = crawl[d]
         /\ crawl'[c].step = "listed" /\ crawl'[c].now = day /\ crawl'[c].base = NoBase
         /\ crawl'[c].price = IF carries THEN site ELSE NoPrice
         /\ trouble' # "overlap" => trouble' = "none" /\ InFlight = {} /\ check = "idle"
<1>1. crawl \in [Crawls -> CrawlTypes]
  BY TypeParts DEF CrawlOK
<1>2. crawl'[c] = [step |-> "listed", now |-> day, price |-> IF carries THEN site ELSE NoPrice,
                   base |-> NoBase, eval |-> "none"]
  BY <1>1 DEF List, Idle
<1> QED
  BY <1>1, <1>2, NobodyThere DEF List, Begins

\* The look before a save reads the record, or loses the answer and keeps what it had.
LEMMA LookUpEffect ==
  ASSUME TypeOK, NEW c \in Crawls, LookUp(c)
  PROVE  /\ \A d \in Crawls \ {c} : crawl'[d] = crawl[d]
         /\ crawl'[c].step \in {"revise", "save"}
         /\ crawl'[c].now = crawl[c].now /\ crawl'[c].price = crawl[c].price
         /\ \/ /\ trouble' = trouble /\ crawl'[c].base = BaseOf(rec)
               /\ crawl'[c].step = "revise" <=> Changed(c, rec)
            \/ /\ Loses /\ crawl'[c].base = crawl[c].base
<1>1. crawl \in [Crawls -> CrawlTypes]
  BY TypeParts DEF CrawlOK
<1> DEFINE next == After("read", Changed(c, rec))
<1>2. next \in {"revise", "save"} /\ (next = "revise" <=> Changed(c, rec))
  BY DEF After
<1>3. CASE crawl' = [crawl EXCEPT ![c].base = BaseOf(rec), ![c].step = next] /\ UNCHANGED trouble
  <2> HIDE DEF next
  <2>1. crawl'[c] = [crawl[c] EXCEPT !.base = BaseOf(rec), !.step = next]
    BY <1>1, <1>3 DEF CrawlTypes
  <2>2. /\ crawl'[c].base = BaseOf(rec) /\ crawl'[c].step = next
        /\ crawl'[c].now = crawl[c].now /\ crawl'[c].price = crawl[c].price
    BY <1>1, <2>1 DEF CrawlTypes
  <2> QED
    BY <1>1, <1>2, <1>3, <2>2
<1>4. CASE Goto(c, "save") /\ Loses
  BY <1>4, GotoEffect DEF Steps
<1> QED
  BY <1>3, <1>4 DEF LookUp, After

\* The look after a lost insertion reads the record.
LEMMA MergeEffect ==
  ASSUME TypeOK, NEW c \in Crawls, Merge(c)
  PROVE  /\ \A d \in Crawls \ {c} : crawl'[d] = crawl[d]
         /\ crawl'[c].step = "save" /\ crawl'[c].base = BaseOf(rec)
         /\ crawl'[c].now = crawl[c].now /\ crawl'[c].price = crawl[c].price
<1>1. crawl \in [Crawls -> CrawlTypes]
  BY TypeParts DEF CrawlOK
<1>2. crawl'[c] = [crawl[c] EXCEPT !.base = BaseOf(rec), !.step = "save"]
  BY <1>1 DEF Merge, CrawlTypes
<1> QED
  BY <1>1, <1>2 DEF Merge, CrawlTypes

\* A fetch reads the page as it is, or finds that the listing has ended, or fails.
LEMMA FetchEffect ==
  ASSUME TypeOK, NEW c \in Crawls, FetchPage(c)
  PROVE  /\ \A d \in Crawls \ {c} : crawl'[d] = crawl[d]
         /\ crawl'[c].now = crawl[c].now /\ crawl'[c].base = crawl[c].base
         /\ \/ /\ crawl'[c].step = "read" /\ crawl'[c].price = site
               /\ site # Gone /\ accepted' = TRUE
            \/ /\ crawl'[c].step \in {"ended", "failed"} /\ accepted' = accepted
<1>1. crawl \in [Crawls -> CrawlTypes]
  BY TypeParts DEF CrawlOK
<1>2. CASE site # Gone /\ crawl' = [crawl EXCEPT ![c].step = "read", ![c].price = site] /\ accepted' = TRUE
  <2>1. crawl'[c] = [crawl[c] EXCEPT !.step = "read", !.price = site]
    BY <1>1, <1>2 DEF CrawlTypes
  <2> QED
    BY <1>1, <1>2, <2>1 DEF CrawlTypes
<1>3. ASSUME NEW step \in {"ended", "failed"}, Goto(c, step), UNCHANGED accepted
      PROVE  /\ \A d \in Crawls \ {c} : crawl'[d] = crawl[d]
             /\ crawl'[c].now = crawl[c].now /\ crawl'[c].base = crawl[c].base
             /\ crawl'[c].step \in {"ended", "failed"} /\ accepted' = accepted
  BY <1>3, GotoEffect DEF Steps
<1> QED
  BY <1>2, <1>3 DEF FetchPage

\* What a crawl finds of the evaluation is the evaluation as it is.
LEMMA FindEvalEffect ==
  ASSUME TypeOK, NEW c \in Crawls, FindEval(c)
  PROVE  /\ \A d \in Crawls \ {c} : crawl'[d] = crawl[d]
         /\ crawl'[c].step \in {"delist", "flag"} /\ crawl'[c].eval = eval
         /\ crawl'[c].now = crawl[c].now /\ crawl'[c].base = crawl[c].base
<1>1. crawl \in [Crawls -> CrawlTypes]
  BY TypeParts DEF CrawlOK
<1>2. crawl'[c] = [crawl[c] EXCEPT !.eval = eval,
                     !.step = IF crawl[c].step = "ended" THEN "delist" ELSE "flag"]
  BY <1>1 DEF FindEval, CrawlTypes
<1> QED
  BY <1>1, <1>2 DEF FindEval, CrawlTypes

\* A save meets a record that it did not know of and changes nothing, or writes the
\* price read, today, and the registration date of the record it knows.
LEMMA SaveEffect ==
  ASSUME TypeOK, NEW c \in Crawls, Save(c)
  PROVE  /\ \A d \in Crawls \ {c} : crawl'[d] = crawl[d]
         /\ crawl'[c].now = crawl[c].now
         /\ \/ /\ crawl'[c].step = "merge" /\ crawl'[c].base = crawl[c].base
               /\ crawl'[c].price = crawl[c].price
               /\ ~Exists(crawl[c].base) /\ Exists(rec)
               /\ rec' = rec /\ revised' = revised
            \/ /\ crawl'[c].step = "tag" /\ crawl'[c].base = NoBase
               /\ ~Exists(crawl[c].base) => ~Exists(rec)
               /\ rec' = [price |-> crawl[c].price, seen |-> day,
                          input |-> IF Exists(crawl[c].base) THEN RegisteredOn(c) ELSE day]
<1>1. CASE ~Exists(crawl[c].base) /\ Exists(rec)
  <2>1. Goto(c, "merge") /\ UNCHANGED <<rec, revised>>
    BY <1>1 DEF Save
  <2> QED
    BY <1>1, <2>1, GotoEffect DEF Steps
<1>2. CASE ~(~Exists(crawl[c].base) /\ Exists(rec))
  <2>1. /\ Goto(c, After("save", Changed(c, crawl[c].base)))
        /\ rec' = [price |-> crawl[c].price, seen |-> day,
                   input |-> IF Exists(crawl[c].base) THEN RegisteredOn(c) ELSE day]
    BY <1>2 DEF Save, Store
  <2>2. Goto(c, "tag")
    BY <2>1 DEF After
  <2> QED
    BY <1>2, <2>1, <2>2, GotoEffect DEF Steps
<1> QED
  BY <1>1, <1>2

-----------------------------------------------------------------------------
(* RegistrationDateIsKept                                                  *)

\* What a crawl has read of a record is what the record still says of the day
\* it was registered.
Kept ==
  \A c \in Crawls : Exists(crawl[c].base) => Exists(rec) /\ crawl[c].base.input = rec.input

\* A step that leaves the record alone and reads no more than it.
LEMMA KeptByReading ==
  ASSUME Kept, rec' = rec,
         \A c \in Crawls : crawl'[c].base \in {crawl[c].base, NoBase, BaseOf(rec)}
  PROVE  Kept' /\ rec'.input = rec.input
BY DEF Kept, Exists, NoBase, BaseOf

\* Every step keeps what the crawls know of the registration date, and that date.
LEMMA KeptStep ==
  ASSUME TypeOK, Kept, [Next]_vars
  PROVE  Kept' /\ (Exists(rec) => rec'.input = rec.input)
<1>1. ASSUME NEW c \in Crawls, List(c) PROVE Kept' /\ rec'.input = rec.input
  <2>1. rec' = rec
    BY <1>1 DEF List
  <2> QED
    BY <1>1, <2>1, ListEffect, KeptByReading
<1>2. ASSUME NEW c \in Crawls, Query(c) \/ FetchAnyway(c) PROVE Kept' /\ rec'.input = rec.input
  <2>1. rec' = rec /\ \E step \in {"fetch", "touch"} : Goto(c, step)
    BY <1>2 DEF Query, FetchAnyway
  <2> QED
    BY <2>1, GotoEffect, KeptByReading DEF Steps
<1>3. ASSUME NEW c \in Crawls, Touch(c) PROVE Kept' /\ rec'.input = rec.input
  <2>1. rec'.input = rec.input /\ rec'.price = rec.price
    BY <1>3, TypeParts DEF Touch, Store, OthersOK, Rows, NoRow
  <2>2. \A d \in Crawls : crawl'[d].base \in {crawl[d].base, NoBase}
    BY <1>3, LeaveEffect DEF Touch
  <2> QED
    BY <2>1, <2>2 DEF Kept, Exists, NoBase
<1>4. ASSUME NEW c \in Crawls, FetchPage(c) PROVE Kept' /\ rec'.input = rec.input
  <2>1. rec' = rec
    BY <1>4 DEF FetchPage
  <2> QED
    BY <1>4, <2>1, FetchEffect, KeptByReading
<1>5. ASSUME NEW c \in Crawls, LookUp(c) PROVE Kept' /\ rec'.input = rec.input
  <2>1. rec' = rec
    BY <1>5 DEF LookUp
  <2> QED
    BY <1>5, <2>1, LookUpEffect, KeptByReading
<1>6. ASSUME NEW c \in Crawls, Revise(c) PROVE Kept' /\ rec'.input = rec.input
  <2>1. rec' = rec /\ Goto(c, "save")
    BY <1>6 DEF Revise, After
  <2> QED
    BY <2>1, GotoEffect, KeptByReading DEF Steps
<1>7. ASSUME NEW c \in Crawls, Save(c) PROVE Kept' /\ (Exists(rec) => rec'.input = rec.input)
  <2>1. crawl[c].price \in Prices
    BY <1>7, TypeParts DEF Save, CrawlOK
  <2>2. CASE rec' = rec /\ crawl'[c].base = crawl[c].base
    BY <1>7, <2>2, SaveEffect, KeptByReading
  <2>3. CASE /\ crawl'[c].base = NoBase
             /\ ~Exists(crawl[c].base) => ~Exists(rec)
             /\ rec' = [price |-> crawl[c].price, seen |-> day,
                        input |-> IF Exists(crawl[c].base) THEN RegisteredOn(c) ELSE day]
    <3>1. Exists(rec')
      BY <2>1, <2>3, ListingLifeAssumption DEF Exists
    <3>2. Exists(rec) => rec'.input = rec.input
      BY <2>3 DEF Kept, RegisteredOn
    <3>3. \A d \in Crawls : crawl'[d].base \in {crawl[d].base, NoBase}
      BY <1>7, <2>3, SaveEffect
    <3> QED
      BY <3>1, <3>2, <3>3 DEF Kept, Exists, NoBase
  <2> QED
    BY <1>7, <2>2, <2>3, SaveEffect
<1>8. ASSUME NEW c \in Crawls, Merge(c) PROVE Kept' /\ rec'.input = rec.input
  <2>1. rec' = rec
    BY <1>8 DEF Merge
  <2> QED
    BY <1>8, <2>1, MergeEffect, KeptByReading
<1>9. ASSUME NEW c \in Crawls, FindEval(c) PROVE Kept' /\ rec'.input = rec.input
  <2>1. rec' = rec
    BY <1>9 DEF FindEval
  <2> QED
    BY <1>9, <2>1, FindEvalEffect, KeptByReading
<1>10. ASSUME NEW c \in Crawls, Tag(c) \/ Delist(c) \/ FlagParser(c) \/ GivesUp(c)
       PROVE  Kept' /\ rec'.input = rec.input
  <2>1. rec' = rec /\ Leave(c)
    BY <1>10 DEF Tag, Delist, FlagParser, GivesUp
  <2> QED
    BY <2>1, LeaveEffect, KeptByReading
<1>11. ASSUME \/ LoadEvals \/ Judge \/ SaveVerdict \/ ValidationDies
              \/ SiteChanges \/ Tick \/ UNCHANGED vars
       PROVE  Kept' /\ rec'.input = rec.input
  <2>1. rec' = rec /\ crawl' = crawl
    BY <1>11 DEF LoadEvals, Judge, SaveVerdict, ValidationDies, SiteChanges, Tick, vars
  <2> QED
    BY <2>1, KeptByReading
<1> QED
  BY <1>1, <1>2, <1>3, <1>4, <1>5, <1>6, <1>7, <1>8, <1>9, <1>10, <1>11 DEF Next

\* The day of registration outlives updates, lost answers and two crawls that
\* both take the listing for new.
THEOREM DateKept == Spec => RegistrationDateIsKept
<1>1. Init => Kept
  BY DEF Init, Kept, Exists, Idle, NoBase
<1>2. TypeOK /\ Kept /\ [Next]_vars => Kept'
  BY KeptStep
<1>3. TypeOK /\ Kept /\ [Next]_vars => [Exists(rec) => rec'.input = rec.input]_vars
  BY KeptStep
<1> QED
  BY <1>1, <1>2, <1>3, TypeCorrect, PTL DEF Spec, RegistrationDateIsKept

-----------------------------------------------------------------------------
(* Alone at the listing                                                    *)

\* As long as there was no overlap, one crawl or validation is at the listing.
Alone ==
  trouble # "overlap" =>
    \A c \in Crawls : crawl[c].step # "idle" =>
      check = "idle" /\ \A d \in Crawls \ {c} : crawl[d].step = "idle"

GoesOn(c) ==
  \/ Query(c) \/ FetchAnyway(c) \/ Touch(c) \/ FetchPage(c)
  \/ LookUp(c) \/ Revise(c) \/ Save(c) \/ Merge(c) \/ Tag(c)
  \/ FindEval(c) \/ Delist(c) \/ FlagParser(c) \/ GivesUp(c)

Validates == Judge \/ SaveVerdict \/ ValidationDies

\* A crawl that goes on was at the listing, and moves no other.
LEMMA GoesOnEffect ==
  ASSUME TypeOK, NEW c \in Crawls, GoesOn(c)
  PROVE  /\ crawl[c].step # "idle" /\ check' = check
         /\ \A d \in Crawls \ {c} : crawl'[d] = crawl[d]
         /\ trouble' = trouble \/ Loses
<1>1. ASSUME Query(c) \/ FetchAnyway(c)
      PROVE  /\ crawl[c].step # "idle" /\ check' = check /\ trouble' = trouble
             /\ \A d \in Crawls \ {c} : crawl'[d] = crawl[d]
  <2>1. \E step \in {"fetch", "touch"} : Goto(c, step)
    BY <1>1 DEF Query, FetchAnyway
  <2> QED
    BY <1>1, <2>1, GotoEffect DEF Query, FetchAnyway, Steps
<1>2. ASSUME Touch(c) \/ Tag(c) \/ Delist(c) \/ FlagParser(c) \/ GivesUp(c)
      PROVE  /\ crawl[c].step # "idle" /\ check' = check /\ trouble' = trouble
             /\ \A d \in Crawls \ {c} : crawl'[d] = crawl[d]
  <2>1. Leave(c)
    BY <1>2 DEF Touch, Tag, Delist, FlagParser, GivesUp
  <2> QED
    BY <1>2, <2>1, LeaveEffect DEF Touch, Tag, Delist, FlagParser, GivesUp
<1>3. ASSUME Revise(c)
      PROVE  /\ crawl[c].step # "idle" /\ check' = check /\ (trouble' = trouble \/ Loses)
             /\ \A d \in Crawls \ {c} : crawl'[d] = crawl[d]
  <2>1. Goto(c, "save")
    BY <1>3 DEF Revise, After
  <2> QED
    BY <1>3, <2>1, GotoEffect DEF Revise, Steps
<1>4. ASSUME FetchPage(c) \/ LookUp(c) \/ Save(c) \/ Merge(c) \/ FindEval(c)
      PROVE  /\ crawl[c].step # "idle" /\ check' = check /\ (trouble' = trouble \/ Loses)
             /\ \A d \in Crawls \ {c} : crawl'[d] = crawl[d]
  <2>1. \A d \in Crawls \ {c} : crawl'[d] = crawl[d]
    BY <1>4, FetchEffect, LookUpEffect, SaveEffect, MergeEffect, FindEvalEffect
  <2>2. crawl[c].step # "idle" /\ check' = check /\ (trouble' = trouble \/ Loses)
    BY <1>4 DEF FetchPage, LookUp, Save, Merge, FindEval
  <2> QED
    BY <2>1, <2>2
<1> QED
  BY <1>1, <1>2, <1>3, <1>4 DEF GoesOn

\* What it means to be alone, for a crawl and for validate_data.
LEMMA OthersIdle ==
  ASSUME Alone, trouble # "overlap"
  PROVE  /\ \A c \in Crawls : crawl[c].step # "idle" =>
              check = "idle" /\ \A d \in Crawls \ {c} : crawl[d].step = "idle"
         /\ check # "idle" => \A d \in Crawls : crawl[d].step = "idle"
BY DEF Alone

\* A step is a crawl that begins or goes on, a step of the validation, or the world.
LEMMA NextSplit ==
  ASSUME [Next]_vars
  PROVE  \/ \E c \in Crawls : List(c) \/ GoesOn(c)
         \/ LoadEvals \/ Validates \/ SiteChanges \/ Tick \/ UNCHANGED vars
BY DEF Next, GoesOn, Validates

\* A validation that begins without an overlap finds no crawl at the listing.
LEMMA LoadEffect ==
  ASSUME LoadEvals, trouble' # "overlap"
  PROVE  /\ trouble' = "none" /\ crawl' = crawl
         /\ \A c \in Crawls : crawl[c].step = "idle"
BY NobodyThere DEF LoadEvals, Begins, InFlight

\* As long as nothing overlaps, one crawl or validation stays alone.
LEMMA AloneStep == ASSUME TypeOK, Alone, [Next]_vars PROVE Alone'
<1>1. ASSUME NEW c \in Crawls, List(c) PROVE Alone'
  <2>1. check' = check /\ \A d \in Crawls \ {c} : crawl'[d] = crawl[d]
    BY <1>1, ListEffect DEF List
  <2>2. trouble' # "overlap" => check = "idle" /\ InFlight = {}
    BY <1>1, ListEffect
  <2> QED
    BY <2>1, <2>2 DEF Alone, InFlight
<1>2. ASSUME NEW c \in Crawls, GoesOn(c) PROVE Alone'
  <2>1. trouble' # "overlap" => trouble # "overlap"
    BY <1>2, GoesOnEffect DEF Loses
  <2> QED
    BY <1>2, <2>1, GoesOnEffect DEF Alone
<1>3. CASE LoadEvals
  BY <1>3, LoadEffect DEF Alone
<1>4. CASE Validates
  BY <1>4 DEF Validates, Judge, SaveVerdict, ValidationDies, Alone
<1>5. CASE SiteChanges \/ Tick \/ UNCHANGED vars
  BY <1>5 DEF SiteChanges, Tick, vars, Alone
<1> QED
  BY <1>1, <1>2, <1>3, <1>4, <1>5, NextSplit

-----------------------------------------------------------------------------
(* NoSilentPriceChange                                                     *)

\* What a crawl that is alone and lost no answer knows of the record is true of
\* it, and once it is to save a new price the revision has been appended.
RevisedFirst ==
  trouble = "none" => \A c \in Crawls :
    /\ crawl[c].step = "revise" => Exists(rec) /\ crawl[c].base.price = rec.price
    /\ crawl[c].step = "save" =>
         /\ crawl[c].base.price = rec.price
         /\ Exists(rec) /\ rec.price # crawl[c].price => <<rec.price, crawl[c].price>> \in revised
    /\ crawl[c].step # "merge"

\* While one crawl acts, nothing has to be known of the others.
LEMMA RevisedFirstAlone ==
  ASSUME TypeOK, Alone, NEW c \in Crawls, GoesOn(c), trouble' = "none",
         crawl'[c].step \notin {"revise", "save", "merge"}
  PROVE  RevisedFirst'
<1>1. trouble = "none"
  BY GoesOnEffect DEF Loses
<1>2. \A d \in Crawls \ {c} : crawl'[d].step = "idle"
  BY <1>1, GoesOnEffect, OthersIdle
<1> QED
  BY <1>2 DEF RevisedFirst

\* Every step keeps the order of revision and save, and a changed price is in the
\* revisions.
LEMMA RevisedFirstStep ==
  ASSUME TypeOK, Alone, RevisedFirst, [Next]_vars
  PROVE  /\ RevisedFirst'
         /\ Exists(rec) /\ rec'.price # rec.price /\ trouble = "none" =>
              <<rec.price, rec'.price>> \in revised
<1> DEFINE Traced == Exists(rec) /\ rec'.price # rec.price /\ trouble = "none" =>
                       <<rec.price, rec'.price>> \in revised
<1>1. ASSUME NEW c \in Crawls, List(c) PROVE RevisedFirst' /\ rec' = rec
  <2>1. /\ \A d \in Crawls \ {c} : crawl'[d] = crawl[d]
        /\ crawl'[c].step = "listed" /\ rec' = rec
        /\ trouble' # "overlap" => InFlight = {}
    BY <1>1, ListEffect DEF List
  <2> QED
    BY <2>1 DEF RevisedFirst, InFlight
<1>2. ASSUME NEW c \in Crawls, GoesOn(c) PROVE RevisedFirst' /\ Traced
  <2>0. /\ \A d \in Crawls \ {c} : crawl'[d] = crawl[d]
        /\ trouble' = "none" =>
             trouble = "none" /\ \A d \in Crawls \ {c} : crawl'[d].step = "idle"
        /\ trouble' \in {"none", "lost", "overlap"} /\ crawl[c].step # "idle"
    BY <1>2, GoesOnEffect, OthersIdle DEF Loses, TypeOK
  <2>1. CASE Query(c) \/ FetchAnyway(c)
    <3>1. rec' = rec /\ \E step \in {"fetch", "touch"} : Goto(c, step)
      BY <2>1 DEF Query, FetchAnyway
    <3>2. crawl'[c].step \in {"fetch", "touch"}
      BY <3>1, GotoEffect DEF Steps
    <3> QED
      BY <1>2, <3>1, <3>2, RevisedFirstAlone DEF RevisedFirst
  <2>2. CASE Touch(c) \/ Tag(c) \/ Delist(c) \/ FlagParser(c) \/ GivesUp(c)
    <3>1. rec'.price = rec.price
      BY <2>2, TypeParts DEF Touch, Store, Tag, Delist, FlagParser, GivesUp, OthersOK, Rows, NoRow
    <3>2. crawl'[c].step = "idle"
      BY <2>2, LeaveEffect DEF Touch, Tag, Delist, FlagParser, GivesUp
    <3> QED
      BY <1>2, <3>1, <3>2, RevisedFirstAlone DEF RevisedFirst
  <2>3. CASE FetchPage(c) \/ FindEval(c)
    <3>1. rec' = rec
      BY <2>3 DEF FetchPage, FindEval
    <3>2. crawl'[c].step \in {"read", "ended", "failed", "delist", "flag"}
      BY <2>3, FetchEffect, FindEvalEffect
    <3> QED
      BY <1>2, <3>1, <3>2, RevisedFirstAlone DEF RevisedFirst
  <2>4. CASE LookUp(c)
    <3>1. rec' = rec /\ revised' = revised
      BY <2>4 DEF LookUp
    <3>2. ASSUME trouble' = "none"
          PROVE  /\ crawl'[c].price = crawl[c].price /\ crawl'[c].base = BaseOf(rec)
                 /\ crawl'[c].step \in {"revise", "save"}
                 /\ crawl'[c].step = "revise" <=> Changed(c, rec)
      BY <2>4, <3>2, LookUpEffect, TypeParts DEF Loses, OthersOK
    <3> QED
      BY <2>0, <3>1, <3>2 DEF RevisedFirst, Changed, BaseOf, Exists
  <2>5. CASE Revise(c)
    <3>1. rec' = rec /\ Goto(c, "save") /\ crawl[c].step = "revise"
      BY <2>5 DEF Revise, After
    <3>2. /\ crawl'[c].step = "save" /\ crawl'[c].base = crawl[c].base
          /\ crawl'[c].price = crawl[c].price
      BY <3>1, GotoEffect DEF Steps
    <3>3. trouble' = "none" => <<crawl[c].base.price, crawl[c].price>> \in revised'
      BY <2>5, TypeParts DEF Revise, Loses, OthersOK
    <3> QED
      BY <2>0, <3>1, <3>2, <3>3 DEF RevisedFirst
  <2>6. CASE Save(c)
    <3>1. crawl[c].step = "save" /\ trouble' = trouble
      BY <2>6 DEF Save
    <3>2. CASE rec' = rec /\ ~Exists(crawl[c].base) /\ Exists(rec)
      <4>1. trouble # "none"
        BY <3>1, <3>2 DEF RevisedFirst, Exists
      <4> QED
        BY <3>1, <3>2, <4>1 DEF RevisedFirst
    <3>3. CASE crawl'[c].step = "tag" /\ rec'.price = crawl[c].price
      <4>1. Traced
        BY <3>1, <3>3 DEF RevisedFirst
      <4> QED
        BY <1>2, <3>1, <3>3, <4>1, RevisedFirstAlone DEF RevisedFirst
    <3> QED
      BY <2>6, <3>2, <3>3, SaveEffect
  <2>7. CASE Merge(c)
    <3>1. trouble # "none" /\ trouble' = trouble /\ rec' = rec
      BY <2>7 DEF Merge, RevisedFirst
    <3> QED
      BY <3>1 DEF RevisedFirst
  <2> QED
    BY <1>2, <2>1, <2>2, <2>3, <2>4, <2>5, <2>6, <2>7 DEF GoesOn
<1>3. CASE LoadEvals
  <2>1. rec' = rec
    BY <1>3 DEF LoadEvals
  <2>2. trouble' = "none" => \A c \in Crawls : crawl'[c].step = "idle"
    BY <1>3, LoadEffect
  <2> QED
    BY <2>1, <2>2 DEF RevisedFirst
<1>4. CASE Validates \/ SiteChanges \/ Tick \/ UNCHANGED vars
  BY <1>4 DEF Validates, Judge, SaveVerdict, ValidationDies, SiteChanges, Tick, vars,
     RevisedFirst
<1> QED
  BY <1>1, <1>2, <1>3, <1>4, NextSplit

\* Whatever the crawl is cut off by, a price is never overwritten before the
\* revision from it has been appended, for any crawls, prices and periods.
THEOREM PriceChangesAreTraced == Spec => NoSilentPriceChange
<1>1. Init => Alone /\ RevisedFirst
  BY DEF Init, Alone, RevisedFirst, Idle
<1>2. TypeOK /\ Alone /\ RevisedFirst /\ [Next]_vars => Alone' /\ RevisedFirst'
  BY AloneStep, RevisedFirstStep
<1>3. TypeOK /\ Alone /\ RevisedFirst /\ [Next]_vars =>
        [Exists(rec) /\ rec'.price # rec.price /\ trouble = "none" =>
           <<rec.price, rec'.price>> \in revised]_vars
  BY RevisedFirstStep
<1> QED
  BY <1>1, <1>2, <1>3, TypeCorrect, PTL DEF Spec, NoSilentPriceChange

-----------------------------------------------------------------------------
(* DelistedNeedsALook                                                      *)

\* Whoever is going to publish has read or accepted the page, or found it
\* published.
AcceptedFirst ==
  trouble # "overlap" =>
    /\ \A c \in Crawls :
         /\ crawl[c].step \in {"read", "revise", "save", "merge", "tag"} => accepted
         /\ crawl[c].step = "flag" => crawl[c].eval = eval
    /\ check = "published" => accepted

\* While one crawl acts, nothing has to be known of the others.
LEMMA AcceptedFirstAlone ==
  ASSUME TypeOK, Alone, NEW c \in Crawls, GoesOn(c),
         trouble' # "overlap" =>
           /\ crawl'[c].step \in {"read", "revise", "save", "merge", "tag"} => accepted'
           /\ crawl'[c].step = "flag" => crawl'[c].eval = eval'
  PROVE  AcceptedFirst'
<1>1. SUFFICES ASSUME trouble' # "overlap" PROVE AcceptedFirst'
  BY DEF AcceptedFirst
<1>2. trouble # "overlap"
  BY <1>1, GoesOnEffect DEF Loses
<1>3. check' = "idle" /\ \A d \in Crawls \ {c} : crawl'[d].step = "idle"
  BY <1>2, GoesOnEffect, OthersIdle
<1> QED
  BY <1>1, <1>3 DEF AcceptedFirst

\* Every step keeps that publishers have read or accepted the page, and what ended
\* is published again only once that was done.
LEMMA AcceptedFirstStep ==
  ASSUME ~SkipUrlCheck, TypeOK, Alone, AcceptedFirst, [Next]_vars
  PROVE  /\ AcceptedFirst'
         /\ eval = "delisted" /\ eval' = "published" /\ trouble # "overlap" => accepted
<1> DEFINE Seen == eval = "delisted" /\ eval' = "published" /\ trouble # "overlap" => accepted
<1>1. ASSUME NEW c \in Crawls, List(c) PROVE AcceptedFirst' /\ eval' = eval
  <2>1. /\ \A d \in Crawls \ {c} : crawl'[d] = crawl[d]
        /\ crawl'[c].step = "listed" /\ eval' = eval /\ check' = check
        /\ trouble' # "overlap" => InFlight = {} /\ check = "idle"
    BY <1>1, ListEffect DEF List
  <2> QED
    BY <2>1 DEF AcceptedFirst, InFlight
<1>2. ASSUME NEW c \in Crawls, GoesOn(c) PROVE AcceptedFirst' /\ Seen
  <2>0. trouble' # "overlap" => trouble # "overlap"
    BY <1>2, GoesOnEffect DEF Loses
  <2>1. CASE Query(c) \/ FetchAnyway(c)
    <3>1. eval' = eval /\ \E step \in {"fetch", "touch"} : Goto(c, step)
      BY <2>1 DEF Query, FetchAnyway
    <3>2. crawl'[c].step \in {"fetch", "touch"}
      BY <3>1, GotoEffect DEF Steps
    <3> QED
      BY <1>2, <3>1, <3>2, AcceptedFirstAlone
  <2>2. CASE Touch(c) \/ GivesUp(c)
    <3>1. eval' = eval /\ crawl'[c].step = "idle"
      BY <2>2, LeaveEffect DEF Touch, GivesUp
    <3> QED
      BY <1>2, <3>1, AcceptedFirstAlone
  <2>3. CASE FetchPage(c)
    <3>1. eval' = eval
      BY <2>3 DEF FetchPage
    <3>2. \/ crawl'[c].step = "read" /\ accepted' = TRUE
          \/ crawl'[c].step \in {"ended", "failed"}
      BY <2>3, FetchEffect
    <3> QED
      BY <1>2, <3>1, <3>2, AcceptedFirstAlone
  <2>4. CASE LookUp(c) \/ Revise(c) \/ Save(c) \/ Merge(c)
    <3>1. /\ eval' = eval /\ accepted' = accepted
          /\ crawl[c].step \in {"read", "revise", "save", "merge"}
      BY <2>4 DEF LookUp, Revise, Save, Merge
    <3>2. crawl'[c].step \in {"revise", "save", "merge", "tag"}
      <4>1. Revise(c) => Goto(c, "save")
        BY DEF Revise, After
      <4> QED
        BY <2>4, <4>1, LookUpEffect, SaveEffect, MergeEffect, GotoEffect DEF Steps
    <3>3. trouble' # "overlap" => accepted'
      BY <2>0, <3>1 DEF AcceptedFirst
    <3> QED
      BY <1>2, <3>1, <3>2, <3>3, AcceptedFirstAlone
  <2>5. CASE Tag(c)
    <3>1. crawl'[c].step = "idle"
      BY <2>5, LeaveEffect DEF Tag
    <3>2. trouble # "overlap" => accepted
      BY <2>5 DEF Tag, AcceptedFirst
    <3> QED
      BY <1>2, <3>1, <3>2, AcceptedFirstAlone
  <2>6. CASE FindEval(c)
    <3>1. eval' = eval
      BY <2>6 DEF FindEval
    <3>2. crawl'[c].step \in {"delist", "flag"} /\ crawl'[c].eval = eval
      BY <2>6, FindEvalEffect
    <3> QED
      BY <1>2, <3>1, <3>2, AcceptedFirstAlone
  <2>7. CASE Delist(c)
    <3>1. crawl'[c].step = "idle"
      BY <2>7, LeaveEffect DEF Delist
    <3>2. eval' \in {eval, "delisted"}
      BY <2>7 DEF Delist, Evaluate
    <3> QED
      BY <1>2, <3>1, <3>2, AcceptedFirstAlone
  <2>8. CASE FlagParser(c)
    <3>1. crawl'[c].step = "idle"
      BY <2>8, LeaveEffect DEF FlagParser
    <3>2. eval' = eval \/ (MayWrite(c) /\ eval' = Flagged(c))
      BY <2>8 DEF FlagParser, Evaluate
    <3>3. trouble # "overlap" => crawl[c].eval = eval
      BY <2>8 DEF FlagParser, AcceptedFirst
    <3>4. Seen
      BY <3>2, <3>3 DEF MayWrite, Flagged
    <3> QED
      BY <1>2, <3>1, <3>4, AcceptedFirstAlone
  <2> QED
    BY <1>2, <2>1, <2>2, <2>3, <2>4, <2>5, <2>6, <2>7, <2>8 DEF GoesOn
<1>3. CASE LoadEvals
  <2>1. eval' = eval /\ check' = "loaded"
    BY <1>3 DEF LoadEvals
  <2>2. trouble' # "overlap" => \A c \in Crawls : crawl'[c].step = "idle"
    BY <1>3, LoadEffect
  <2> QED
    BY <2>1, <2>2 DEF AcceptedFirst
<1>4. CASE Judge
  <2>1. eval' = eval /\ crawl' = crawl /\ trouble' = trouble /\ check = "loaded"
    BY <1>4 DEF Judge
  <2>2. (check' = "published" => accepted') /\ (accepted => accepted')
    BY <1>4 DEF Judge
  <2> QED
    BY <2>1, <2>2 DEF AcceptedFirst
<1>5. CASE SaveVerdict
  <2>1. /\ eval' = check /\ check' = "idle" /\ check # "idle"
        /\ crawl' = crawl /\ trouble' = trouble
    BY <1>5 DEF SaveVerdict, Evaluate
  <2>2. trouble # "overlap" => \A c \in Crawls : crawl[c].step = "idle"
    BY <2>1, OthersIdle
  <2> QED
    BY <2>1, <2>2 DEF AcceptedFirst
<1>6. CASE ValidationDies \/ SiteChanges \/ Tick \/ UNCHANGED vars
  <2>1. /\ eval' = eval /\ crawl' = crawl /\ trouble' = trouble /\ accepted' = accepted
        /\ check' \in {check, "idle"}
    BY <1>6 DEF ValidationDies, SiteChanges, Tick, vars
  <2> QED
    BY <2>1 DEF AcceptedFirst
<1> QED
  BY <1>1, <1>2, <1>3, <1>4, <1>5, <1>6, NextSplit DEF Validates

\* As long as validate_data looks at the pages and nobody overlaps, a listing
\* that was taken down is published again only after a crawl has read its page or
\* the URL check has accepted it, which is no proof that it is back.
THEOREM DelistedIsOut == ASSUME ~SkipUrlCheck PROVE Spec => DelistedNeedsALook
<1>1. Init => Alone /\ AcceptedFirst
  BY DEF Init, Alone, AcceptedFirst, Idle
<1>2. TypeOK /\ Alone /\ AcceptedFirst /\ [Next]_vars => Alone' /\ AcceptedFirst'
  BY AloneStep, AcceptedFirstStep
<1>3. TypeOK /\ Alone /\ AcceptedFirst /\ [Next]_vars =>
        [eval = "delisted" /\ eval' = "published" /\ trouble # "overlap" => accepted]_vars
  BY AcceptedFirstStep
<1> QED
  BY <1>1, <1>2, <1>3, TypeCorrect, PTL DEF Spec, DelistedNeedsALook

-----------------------------------------------------------------------------
(* StoredPriceIsConfirmed                                                  *)

\* The site shows its price today; no price is shown in the future.
ShownToday ==
  /\ site # Gone => shown[site] = day
  /\ \A p \in Prices : shown[p] <= day

\* A crawl is at most a day old, and what it read was shown when it began.
Fresh(c) ==
  crawl[c].step # "idle" =>
    /\ crawl[c].now <= day /\ day <= crawl[c].now + 1
    /\ crawl[c].step = "listed" => crawl[c].price \in Prices
    /\ crawl[c].step \in {"listed", "read", "revise", "save", "merge"} =>
         crawl[c].now <= shown[crawl[c].price]
    /\ crawl[c].step = "touch" => crawl[c].now <= shown[rec.price] + 1

Confirmed ==
  carries =>
    /\ ShownToday
    /\ \A c \in Crawls : Fresh(c)
    /\ Exists(rec) => rec.seen <= shown[rec.price] + 1

\* What a step of one crawl has to establish, the site being left alone.
LEMMA ConfirmedByOne ==
  ASSUME Confirmed, UNCHANGED world, NEW c \in Crawls,
         \A d \in Crawls \ {c} : crawl'[d] = crawl[d],
         carries => /\ Fresh(c)'
                    /\ rec'.price # rec.price => day <= shown[rec'.price] + 1
                    /\ Exists(rec') => rec'.seen <= shown[rec'.price] + 1,
         TypeOK, TypeOK'
  PROVE  Confirmed'
<1> SUFFICES ASSUME carries PROVE Confirmed'
  BY DEF Confirmed, world
<1>1. day' = day /\ site' = site /\ shown' = shown /\ carries' = carries
  BY DEF world
<1>2. ShownToday'
  BY <1>1 DEF Confirmed, ShownToday
<1>3. ASSUME NEW d \in Crawls \ {c} PROVE Fresh(d)'
  <2>1. crawl'[d] = crawl[d] /\ Fresh(d)
    BY DEF Confirmed
  <2>2. crawl[d].now \in Int /\ day \in Int /\ (crawl[d].step = "touch" => rec'.price \in Prices)
    BY <2>1, TypeParts, TypePartsPrimed
       DEF CrawlOK, CrawlTypes, OthersOK, TouchOK, Exists, Rows, NoRow, Days
  <2>3. \A p \in Prices : shown[p] \in Int
    BY TypeParts DEF OthersOK, Days
  <2> QED
    BY <1>1, <2>1, <2>2, <2>3 DEF Fresh
<1> QED
  BY <1>1, <1>2, <1>3 DEF Confirmed

\* Every step keeps that what is known was shown on the day it was learned.
LEMMA ConfirmedStep ==
  ASSUME TypeOK, TypeOK', Confirmed, [Next]_vars PROVE Confirmed'
<1>t. /\ day \in Int /\ crawl \in [Crawls -> CrawlTypes]
      /\ \A c \in Crawls : crawl[c].now \in Int
      /\ \A p \in Prices : shown[p] \in Int
      /\ Exists(rec) <=> rec.price \in Prices
  BY TypeParts, ListingLifeAssumption
     DEF CrawlOK, CrawlTypes, OthersOK, Days, Exists, Rows, NoRow
<1>1. ASSUME NEW c \in Crawls, List(c) PROVE Confirmed'
  <2>1. /\ crawl'[c].step = "listed" /\ crawl'[c].now = day
        /\ crawl'[c].price = IF carries THEN site ELSE NoPrice
        /\ \A d \in Crawls \ {c} : crawl'[d] = crawl[d]
    BY <1>1, ListEffect
  <2>2. /\ UNCHANGED world /\ rec' = rec /\ day' = day /\ shown' = shown
        /\ site \in Prices
    BY <1>1, TypeParts DEF List, world, Gone, OthersOK
  <2>3. carries => Fresh(c)'
    BY <1>t, <2>1, <2>2, ListingLifeAssumption DEF Confirmed, ShownToday, Fresh, Gone
  <2> QED
    BY <2>1, <2>2, <2>3, ConfirmedByOne DEF Confirmed
<1>2. ASSUME NEW c \in Crawls, GoesOn(c) PROVE Confirmed'
  <2>0. /\ \A d \in Crawls \ {c} : crawl'[d] = crawl[d]
        /\ UNCHANGED world /\ day' = day /\ shown' = shown /\ crawl[c].step # "idle"
    <3>1. UNCHANGED world
      BY <1>2 DEF GoesOn, Query, FetchAnyway, Touch, FetchPage, LookUp, Revise, Save, Merge,
         Tag, FindEval, Delist, FlagParser, GivesUp
    <3> QED
      BY <1>2, <3>1, GoesOnEffect DEF world
  <2>1. CASE Query(c)
    <3>1. /\ crawl[c].step = "listed" /\ rec' = rec
          /\ Goto(c, IF ShouldFetch(c) THEN "fetch" ELSE "touch")
      BY <2>1 DEF Query
    <3>2. /\ crawl'[c].now = crawl[c].now
          /\ crawl'[c].step = IF ShouldFetch(c) THEN "fetch" ELSE "touch"
      BY <3>1, GotoEffect DEF Steps
    <3>3. carries /\ ~ShouldFetch(c) => crawl[c].price = rec.price /\ Exists(rec)
      BY <3>1, ListingLifeAssumption DEF ShouldFetch, Confirmed, Fresh
    <3>4. carries => Fresh(c)'
      BY <1>t, <2>0, <3>1, <3>2, <3>3 DEF Confirmed, Fresh
    <3> QED
      BY <2>0, <3>1, <3>4, ConfirmedByOne DEF Confirmed
  <2>2. CASE FetchAnyway(c)
    <3>1. rec' = rec /\ crawl'[c].now = crawl[c].now /\ crawl'[c].step = "fetch"
      BY <2>2, GotoEffect DEF FetchAnyway, Steps
    <3>2. carries => Fresh(c)'
      BY <2>0, <3>1 DEF Confirmed, Fresh
    <3> QED
      BY <2>0, <3>1, <3>2, ConfirmedByOne DEF Confirmed
  <2>3. CASE Touch(c)
    <3>1. /\ crawl'[c].step = "idle" /\ crawl[c].step = "touch"
          /\ rec'.price = rec.price /\ rec'.seen = crawl[c].now
      BY <2>3, LeaveEffect, TypeParts DEF Touch, Store, OthersOK, Rows, NoRow
    <3>2. carries => rec'.seen <= shown[rec'.price] + 1
      BY <2>0, <3>1 DEF Confirmed, Fresh
    <3> QED
      BY <2>0, <3>1, <3>2, ConfirmedByOne DEF Fresh
  <2>4. CASE FetchPage(c)
    <3>1. rec' = rec /\ crawl'[c].now = crawl[c].now
      BY <2>4, FetchEffect DEF FetchPage
    <3>2. \/ crawl'[c].step = "read" /\ crawl'[c].price = site /\ site # Gone
          \/ crawl'[c].step \in {"ended", "failed"}
      BY <2>4, FetchEffect
    <3>3. carries => Fresh(c)'
      BY <2>0, <3>1, <3>2 DEF Confirmed, ShownToday, Fresh
    <3> QED
      BY <2>0, <3>1, <3>3, ConfirmedByOne DEF Confirmed
  <2>5. CASE LookUp(c) \/ Revise(c) \/ Merge(c)
    <3>1. rec' = rec /\ crawl[c].step \in {"read", "revise", "merge"}
      BY <2>5 DEF LookUp, Revise, Merge
    <3>2. /\ crawl'[c].now = crawl[c].now /\ crawl'[c].price = crawl[c].price
          /\ crawl'[c].step \in {"revise", "save"}
      <4>1. Revise(c) => Goto(c, "save")
        BY DEF Revise, After
      <4> QED
        BY <2>5, <4>1, LookUpEffect, MergeEffect, GotoEffect DEF Steps
    <3>3. carries => Fresh(c)'
      BY <2>0, <3>1, <3>2 DEF Confirmed, Fresh
    <3> QED
      BY <2>0, <3>1, <3>3, ConfirmedByOne DEF Confirmed
  <2>6. CASE Save(c)
    <3>1. crawl[c].step = "save" /\ crawl'[c].now = crawl[c].now
      BY <2>6, SaveEffect DEF Save
    <3>2. CASE /\ crawl'[c].step = "merge" /\ crawl'[c].price = crawl[c].price
               /\ rec' = rec
      <4>1. carries => Fresh(c)'
        BY <2>0, <3>1, <3>2 DEF Confirmed, Fresh
      <4> QED
        BY <2>0, <3>2, <4>1, ConfirmedByOne DEF Confirmed
    <3>3. CASE /\ crawl'[c].step = "tag"
               /\ rec'.price = crawl[c].price /\ rec'.seen = day
      <4>1. crawl[c].price \in Prices
        BY <3>1, TypeParts DEF CrawlOK
      <4>2. carries => day <= shown[rec'.price] + 1
        BY <1>t, <3>1, <3>3, <4>1 DEF Confirmed, Fresh
      <4>3. carries => Fresh(c)'
        BY <2>0, <3>1, <3>3 DEF Confirmed, Fresh
      <4> QED
        BY <2>0, <3>3, <4>2, <4>3, ConfirmedByOne
    <3> QED
      BY <2>6, <3>2, <3>3, SaveEffect
  <2>7. CASE Tag(c) \/ Delist(c) \/ FlagParser(c) \/ GivesUp(c)
    <3>1. rec' = rec /\ crawl'[c].step = "idle"
      BY <2>7, LeaveEffect DEF Tag, Delist, FlagParser, GivesUp
    <3> QED
      BY <2>0, <3>1, ConfirmedByOne DEF Confirmed, Fresh
  <2>8. CASE FindEval(c)
    <3>1. /\ rec' = rec /\ crawl'[c].now = crawl[c].now
          /\ crawl'[c].step \in {"delist", "flag"}
      BY <2>8, FindEvalEffect DEF FindEval
    <3>2. carries => Fresh(c)'
      BY <2>0, <3>1 DEF Confirmed, Fresh
    <3> QED
      BY <2>0, <3>1, <3>2, ConfirmedByOne DEF Confirmed
  <2> QED
    BY <1>2, <2>1, <2>2, <2>3, <2>4, <2>5, <2>6, <2>7, <2>8 DEF GoesOn
<1>3. CASE LoadEvals \/ Validates \/ UNCHANGED vars
  BY <1>3 DEF LoadEvals, Validates, Judge, SaveVerdict, ValidationDies, vars, world,
     Confirmed, ShownToday, Fresh
<1>4. ASSUME carries, NEW d \in Days, day <= d, d <= day + 1,
             day' = d, Shows(site', d), UNCHANGED <<carries, rec, crawl>>,
             d = day \/ \A c \in Crawls : crawl[c].step # "idle" => crawl[c].now = day
      PROVE  Confirmed'
  <2>1. d \in Int /\ site' \in Prices \cup {Gone}
    BY TypePartsPrimed DEF OthersOK, Days
  <2>2. \A p \in Prices : /\ shown'[p] \in {d, shown[p]}
                          /\ p = site' => shown'[p] = d
    BY <1>4 DEF Shows
  <2>3. ShownToday'
    BY <1>t, <1>4, <2>1, <2>2 DEF ShownToday, Confirmed
  <2>4. \A p \in Prices : shown[p] <= shown'[p]
    BY <1>t, <1>4, <2>1, <2>2 DEF ShownToday, Confirmed
  <2>5. \A p \in Prices : shown'[p] \in Int
    BY <1>t, <2>1, <2>2
  <2>6. ASSUME NEW c \in Crawls PROVE Fresh(c)'
    <3>1. Fresh(c)
      BY <1>4 DEF Confirmed
    <3>2. /\ crawl[c].step \in {"read", "revise", "save", "merge"} => crawl[c].price \in Prices
          /\ crawl[c].step = "touch" => rec.price \in Prices
      BY <1>t, TypeParts DEF CrawlOK, TouchOK
    <3> QED
      BY <1>t, <1>4, <2>1, <2>4, <2>5, <3>1, <3>2 DEF Fresh
  <2>7. Exists(rec) => rec.seen <= shown'[rec.price] + 1
    <3>1. Exists(rec) => rec.seen \in Int /\ rec.price \in Prices
      BY <1>t, TypeParts DEF OthersOK, Rows, NoRow, Days
    <3> QED
      BY <1>t, <1>4, <2>4, <2>5, <3>1 DEF Confirmed
  <2> QED
    BY <1>4, <2>3, <2>6, <2>7 DEF Confirmed
<1>5. CASE SiteChanges
  <2>1. /\ day \in Days /\ day' = day /\ Shows(site', day) /\ UNCHANGED <<carries, rec, crawl>>
    BY <1>5, TypeParts DEF SiteChanges, OthersOK
  <2> QED
    BY <1>t, <1>4, <2>1 DEF Confirmed
<1>6. CASE Tick
  <2>1. /\ day' \in Days /\ day' = day + 1 /\ site' = site
        /\ Shows(site', day') /\ UNCHANGED <<carries, rec, crawl>>
    BY <1>6, TypePartsPrimed DEF Tick, OthersOK
  <2>2. \A c \in Crawls : crawl[c].step # "idle" => crawl[c].now = day
    BY <1>6 DEF Tick, InFlight
  <2> QED
    BY <1>t, <1>4, <2>1, <2>2 DEF Confirmed
<1> QED
  BY <1>1, <1>2, <1>3, <1>5, <1>6, NextSplit

\* A price is confirmed only as long as the site shows it, for any crawls,
\* prices, periods and races between them.
THEOREM PriceIsConfirmed == Spec => []StoredPriceIsConfirmed
<1>1. Init => Confirmed
  BY ListingLifeAssumption DEF Init, Confirmed, ShownToday, Fresh, Idle, Gone, Exists, NoRow
<1>2. TypeOK /\ TypeOK' /\ Confirmed /\ [Next]_vars => Confirmed'
  BY ConfirmedStep
<1>3. Confirmed => StoredPriceIsConfirmed
  BY DEF Confirmed, StoredPriceIsConfirmed
<1> QED
  BY <1>1, <1>2, <1>3, TypeCorrect, PTL DEF Spec
=============================================================================
