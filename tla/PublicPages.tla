---------------------------- MODULE PublicPages ----------------------------
(***************************************************************************)
(* The pages of one concert that the backend keeps in Redis with a time to *)
(* live: its place in the list, its detail, and the inventory summary both *)
(* are made with.                                                          *)
(*                                                                         *)
(* Whoever changes the concert deletes the keys afterwards.  CacheService  *)
(* loads a page at most once at a time, and stores what it has loaded      *)
(* whatever has been written meanwhile.  Redis may fail at any command,    *)
(* and every error of it is swallowed.  There is one backend process.      *)
(***************************************************************************)
EXTENDS Integers, FiniteSets

CONSTANTS
  Publisher,     \* requests of organizers in flight, one per publisher
  MissBudget,    \* CACHE_MISS_QUERY_BUDGET
  MaxWrites,     \* bound: changes of the concert
  MaxSales       \* bound: changes of the available count

ASSUME PagesAssumption == MissBudget \in Nat \ {0} /\ MaxWrites \in Nat /\ MaxSales \in Nat

Page == {"list", "detail"}
Entry == Page \cup {"summary"}

\* The summary of a ticket type is loaded by the loader of a page, and does
\* not count.
Budgeted == Page

VARIABLES
  row,           \* the concert: published or not, and the last change of it
  stock,         \* its available count, as the reservations leave it
  op,            \* requests of organizers that have keys to delete
  cache,         \* the values in Redis
  load,          \* inFlight
  misses,        \* activeMisses
  excused        \* history: values that nobody could have kept from being stale

rowVars == <<row, stock>>
pageVars == <<rowVars, op, cache, load, misses, excused>>

Gone == [published |-> FALSE, text |-> 0]
NoValue == [view |-> Gone, stock |-> -1]
NoLoad == [step |-> "idle"]

PagesInit ==
  /\ row = [published |-> TRUE, text |-> 0]
  /\ stock = MaxSales
  /\ op = [m \in Publisher |-> {}]
  /\ cache = [e \in Entry |-> NoValue]
  /\ load = [e \in Entry |-> NoLoad]
  /\ misses = 0
  /\ excused = {}

-----------------------------------------------------------------------------
(* The cache                                                               *)

\* What the public may see of a row.
View(r) == IF r.published THEN r ELSE Gone

\* The value a load that ends now should have stored.
Current(e) ==
  [view |-> IF e = "summary" THEN Gone ELSE View(row),
   stock |-> IF e \in Page /\ ~row.published THEN 0 ELSE stock]
SameView(e, v) == IF e = "summary" THEN v.stock = stock ELSE v.view = View(row)
Stale(e) == cache[e] # NoValue /\ ~SameView(e, cache[e])

\* A read that found nothing in Redis, or did not reach it, and finds no load
\* in flight either.  By then the value may have been stored.  Reads that hit,
\* join a load or are turned away by the budget change nothing.
LoadPage(e) ==
  /\ e \in Page /\ load[e] = NoLoad
  /\ e \in Budgeted => misses < MissBudget
  /\ misses' = misses + (IF e \in Budgeted THEN 1 ELSE 0)
  /\ load' = [load EXCEPT ![e] = [step |-> "query"]]
  /\ UNCHANGED <<rowVars, op, cache, excused>>

LoadQuery(e) ==
  /\ load[e].step = "query"
  /\ load' = [load EXCEPT ![e] =
       [step |-> IF row.published THEN "summary" ELSE "store",
        value |-> Current(e)]]
  /\ UNCHANGED <<rowVars, op, cache, misses, excused>>

Filled(l, s) == [step |-> "store", value |-> [view |-> l.value.view, stock |-> s]]

\* withInventorySummary: the cached summary, the one being loaded, or one made
\* of the counters the page's query has returned.
LoadSummary(e) ==
  /\ load[e].step = "summary"
  /\ \/ /\ cache["summary"] # NoValue
        /\ load' = [load EXCEPT ![e] = Filled(@, cache["summary"].stock)]
        /\ UNCHANGED misses
     \/ /\ load["summary"] # NoLoad
        /\ load' = [load EXCEPT ![e] = Filled(@, load["summary"].value.stock)]
        /\ UNCHANGED misses
     \/ /\ load["summary"] = NoLoad
        /\ IF "summary" \in Budgeted /\ misses >= MissBudget
           THEN load' = [load EXCEPT ![e].step = "refused"] /\ UNCHANGED misses
           ELSE /\ load' = [load EXCEPT ![e] = Filled(@, @.value.stock),
                  !["summary"] = [step |-> "store",
                    value |-> [view |-> Gone, stock |-> load[e].value.stock]]]
                /\ misses' = misses + (IF "summary" \in Budgeted THEN 1 ELSE 0)
  /\ UNCHANGED <<rowVars, op, cache, excused>>

\* Faulty variant: pages are stored without a time to live.
SummaryOnly == {"summary"}
\* SET with EX: the values that Redis will drop by itself.
Expiring == Entry

EndLoad(e) ==
  /\ load' = [load EXCEPT ![e] = NoLoad]
  /\ misses' = misses - (IF e \in Budgeted THEN 1 ELSE 0)

\* setJson, or its failure.  A detail that is null is stored as well, and read
\* as a miss.
LoadStore(e) ==
  /\ load[e].step = "store"
  /\ \/ /\ cache' = [cache EXCEPT ![e] =
              IF e = "detail" /\ load[e].value.view = Gone THEN NoValue ELSE load[e].value]
        /\ excused' = IF SameView(e, load[e].value) THEN excused \ {e} ELSE excused \cup {e}
     \/ UNCHANGED <<cache, excused>>
  /\ EndLoad(e)
  /\ UNCHANGED <<rowVars, op>>

\* The query throws.
LoadFails(e) ==
  /\ load[e].step = "query"
  /\ EndLoad(e)
  /\ UNCHANGED <<rowVars, op, cache, excused>>

Expire(e) ==
  /\ cache[e] # NoValue /\ e \in Expiring
  /\ cache' = [cache EXCEPT ![e] = NoValue]
  /\ excused' = excused \ {e}
  /\ UNCHANGED <<rowVars, op, load, misses>>

\* The keys of S are deleted, but for those at which Redis fails.
DeleteKeys(S) ==
  \E failed \in SUBSET S :
    /\ cache' = [e \in Entry |-> IF e \in S \ failed THEN NoValue ELSE cache[e]]
    /\ excused' = (excused \ (S \ failed)) \cup failed

-----------------------------------------------------------------------------
(* Sales, and the artist's biography, which change what the pages show     *)

\* A reservation, an expiry or a payment, with the invalidateTicketType that
\* follows it.  What a load may read between the two, it may read before.
Sell ==
  /\ row.published /\ stock > 0
  /\ stock' = stock - 1
  /\ DeleteKeys({"summary", "list"})
  /\ UNCHANGED <<row, op, load, misses>>

\* ArtistBioService.publishDraft writes the row and leaves the cache alone.
ShowNewBio ==
  /\ row.text < MaxWrites
  /\ row' = [row EXCEPT !.text = @ + 1]
  /\ excused' = excused \cup Page
  /\ UNCHANGED <<stock, op, cache, load, misses>>

-----------------------------------------------------------------------------
(* The writes of AdminService                                              *)

\* createConcert, updateConcert, uploadPoster, deleteConcert, cancelConcert and
\* the ticket types: the row is written, with its status or without.
WriteRow(m) ==
  /\ op[m] = {} /\ row.text < MaxWrites
  /\ \E published \in BOOLEAN :
       row' = [published |-> published, text |-> row.text + 1]
  /\ \E keys \in {Page, Entry} : op' = [op EXCEPT ![m] = keys]
  /\ UNCHANGED <<stock, cache, load, misses, excused>>

\* Faulty variant: the detail page is forgotten.
ListOnly(keys) == keys \ {"detail"}
\* invalidateConcert, and for a ticket type its summary as well.
Invalidated(keys) == keys

Invalidate(m) ==
  /\ op[m] # {}
  /\ DeleteKeys(Invalidated(op[m]))
  /\ op' = [op EXCEPT ![m] = {}]
  /\ UNCHANGED <<rowVars, load, misses>>

\* The process dies with its requests and its loads; Redis stays.
CacheCrash ==
  /\ op' = [m \in Publisher |-> {}]
  /\ load' = [e \in Entry |-> NoLoad]
  /\ misses' = 0
  /\ excused' = excused \cup UNION {op[m] : m \in Publisher}
  /\ UNCHANGED <<rowVars, cache>>

LoadStep(e) ==
  \/ LoadPage(e) \/ LoadQuery(e) \/ LoadSummary(e) \/ LoadStore(e) \/ LoadFails(e)

PagesNext ==
  \/ \E e \in Entry : LoadStep(e) \/ Expire(e)
  \/ \E m \in Publisher : WriteRow(m) \/ Invalidate(m)
  \/ Sell \/ ShowNewBio \/ CacheCrash

\* Redis drops a value when its time is over, and a command to Redis is
\* answered or times out.
PagesFairness ==
  \A e \in Entry : WF_pageVars(Expire(e)) /\ WF_pageVars(LoadStore(e))

PagesSpec == PagesInit /\ [][PagesNext]_pageVars /\ PagesFairness

-----------------------------------------------------------------------------
(* Properties                                                              *)

\* blueprint/specs/concert-management.md:61: once a request that changed the
\* concert has deleted its keys, no page is older than the row, unless Redis
\* failed, or a load that had read the old row stored its value afterwards.
StalenessIsExplained ==
  \A e \in Entry : Stale(e) =>
    e \in excused \/ \E m \in Publisher : e \in op[m]

\* A page whose load was admitted is not refused by the budget half way, and
\* failures do not use the budget up: with nothing in flight all of it is left.
AdmittedLoadsAreServed == \A e \in Entry : load[e].step # "refused"
BudgetIsNotLeaked == (\A e \in Entry : load[e] = NoLoad) => misses = 0

\* The budget for loads turns pages away before their load, never during it, and
\* comes back whole.
BudgetIsFair == AdmittedLoadsAreServed /\ BudgetIsNotLeaked

\* A page is old, or refused, only for the reasons that the cache has.
PagesAreServedFairly == StalenessIsExplained /\ BudgetIsFair

\* blueprint/05-business-flows.md:152: whatever Redis fails to delete and late
\* loads store, the pages and the counts in them agree with the database again
\* some time after its last change.
PagesConverge ==
  <>[](\A e \in Entry : cache[e] # NoValue => cache[e] = Current(e))
=============================================================================
