------------------------------ MODULE DemoSeed ------------------------------
(***************************************************************************)
(* The demo data: a container that starts fills an empty database, and     *)
(* db:seed fills any, statement by statement and without a transaction. So *)
(* it can be interrupted anywhere, run again over what is left, and run    *)
(* while the API serves buyers and organizers of the demo concerts.        *)
(*                                                                         *)
(* A table holds at most two rows: one that stands for all it is seeded    *)
(* with, "demo", and one the application made from it, "own".  One buyer,  *)
(* who is none of the seeded users, takes one seat of the type whose       *)
(* fixtures are a hold and a sale.                                         *)
(***************************************************************************)
EXTENDS Integers, Sequences, FiniteSets

CONSTANT MaxSeeds      \* bound: how often the seed is run

VARIABLES
  rows,        \* [Table -> rows]
  hold,        \* status of the buyer's own reservation
  counter,     \* its type's inventory counter
  seed,        \* the seed: its next statement, what it has read, and for whom
  api,         \* the API serves
  last,        \* how the last seed ended
  disturbed,   \* history: the application wrote while that seed ran, or even
               \* between its reading of the reservations and the counter's update
  cleared,     \* history: the seeded guest list was cleared
  seeds

seedVars == <<rows, hold, counter, seed, api, last, disturbed, cleared, seeds>>

Table ==
  {"organization", "user", "concert", "type", "counter", "order", "reservation", "payment",
   "item", "ticket", "quota", "batch", "staging", "version", "entry", "outbox", "job", "draft",
   "notification", "device", "assignment", "projection", "checkIn"}

NoSeed == [at |-> 0, runs |-> FALSE, starts |-> FALSE, orders |-> {}, versions |-> {},
           sums |-> [reserved |-> 0, sold |-> 0]]

SeedInit ==
  /\ rows = [t \in Table |-> {}]
  /\ hold = "none" /\ counter = [reserved |-> 0, sold |-> 0]
  /\ seed = NoSeed /\ api = FALSE /\ last = "none"
  /\ disturbed = "not" /\ cleared = FALSE /\ seeds = 0

-----------------------------------------------------------------------------
(* Foreign keys                                                            *)

\* The tables a table refers to with the row of the same name, or with the
\* seeded one, whatever the row.
Own == [ticket |-> {"order", "item"}, item |-> {"order"}, payment |-> {"order"},
        version |-> {"batch"}, staging |-> {"batch"}, entry |-> {"version"},
        draft |-> {"job"}, projection |-> {"assignment"}]
Seeded ==
  [ticket |-> {"type"}, item |-> {"type"}, reservation |-> {"type"}, counter |-> {"type"},
   quota |-> {"type"}, type |-> {"concert"}, concert |-> {"organization"},
   notification |-> {"organization"}, batch |-> {"concert"}, staging |-> {"concert"},
   version |-> {"concert"}, job |-> {"concert"}, draft |-> {"concert"},
   assignment |-> {"device"}, checkIn |-> {"device", "assignment"}]

Needs(t, r) ==
  (IF t \in DOMAIN Own THEN {<<u, r>> : u \in Own[t]} ELSE {}) \cup
  (IF t \in DOMAIN Seeded THEN {<<u, "demo">> : u \in Seeded[t]} ELSE {})

\* onDelete: Cascade; the others restrict.  The rows of a batch go with its
\* concert, too.  The versions would, but the batches are deleted before them
\* and their versions restrict that.
Follows(u, t) ==
  <<u, t>> \in {<<"entry", "version">>, <<"staging", "batch">>, <<"draft", "job">>,
                <<"counter", "type">>, <<"quota", "type">>, <<"batch", "concert">>,
                <<"staging", "concert">>, <<"job", "concert">>, <<"draft", "concert">>}

InUse(t, gone) ==
  \E u \in Table : \E r \in rows[u] :
    ~Follows(u, t) /\ Needs(u, r) \cap ({t} \X gone) # {}

Without(t, gone) ==
  [u \in Table |->
    IF u = t THEN rows[u] \ gone
    ELSE IF Follows(u, t) THEN {r \in rows[u] : Needs(u, r) \cap ({t} \X gone) = {}}
    ELSE rows[u]]

CanAdd(t, r) == r \notin rows[t] /\ \A n \in Needs(t, r) : n[2] \in rows[n[1]]
With(ts, r) == [u \in Table |-> IF u \in ts THEN rows[u] \cup {r} ELSE rows[u]]

-----------------------------------------------------------------------------
(* The statements of main                                                  *)

\* resetDemoData.  The faulty variant forgets what is kept beside the orders.
PaymentsLast ==
  <<"checkIn", "projection", "assignment", "device", "notification", "ticket", "item", "reservation",
    "order", "payment", "quota", "entry", "outbox", "version", "staging", "batch", "draft", "job",
    "counter", "type", "concert">>
Deletions ==
  <<"checkIn", "projection", "assignment", "device", "notification", "ticket", "item", "payment",
    "reservation", "order", "quota", "entry", "outbox", "version", "staging", "batch", "draft",
    "job", "counter", "type", "concert">>

\* seedOrganization and seedUsers, which are upserts, to seedCommerce, and
\* after the counters seedGuestListDemo to seedScannerDemo.
Upserts == {"organization", "user"}
Shop ==
  <<"organization", "user", "concert", "type", "counter", "order", "reservation", "payment",
    "item", "ticket">>
GuestDemo == <<"batch", "staging", "version", "entry", "outbox">>
BiographyDemo == <<"job", "draft">>
NotificationDemo == <<"notification">>
ScannerDemo == <<"device", "assignment", "projection">>

Statements(kind, ts) == [i \in DOMAIN ts |-> <<kind, ts[i]>>]
Program ==
  <<<<"find", "">>>> \o Statements("delete", Deletions) \o Statements("create", Shop)
  \o <<<<"sum", "">>, <<"count", "">>, <<"quotas", "">>>>
  \o Statements("create", GuestDemo \o BiographyDemo \o NotificationDemo \o ScannerDemo)

\* Orders are found by their items, and the outbox by its versions; another
\* organizer's concert keeps its assignment.
Selected(t) ==
  CASE t \in {"item", "payment", "order"} -> {"demo"} \cup seed.orders
    [] t \in {"entry", "outbox"} -> seed.versions
    [] t \in {"assignment", "projection"} -> {"demo"}
    [] OTHER -> {"demo", "own"}

GoOn == seed' = [seed EXCEPT !.at = @ + 1]

\* The process ends with an error: where it would start the API, it does not.
Break == seed' = NoSeed /\ last' = "failed"

Find(at) ==
  /\ at = <<"find", "">>
  /\ seed' = [seed EXCEPT !.at = @ + 1,
       !.orders = rows["order"] \cap rows["item"], !.versions = rows["version"]]
  /\ UNCHANGED <<rows, hold, counter, last>>

Delete(at) ==
  /\ at[1] = "delete"
  /\ LET t == at[2]
         gone == Selected(t) \cap rows[t]
     IN IF InUse(t, gone) THEN Break /\ UNCHANGED <<rows, hold>>
        ELSE /\ rows' = Without(t, gone) /\ GoOn /\ UNCHANGED last
             /\ hold' = IF t = "reservation" THEN "none" ELSE hold
  /\ UNCHANGED counter

Create(at) ==
  /\ at[1] = "create"
  /\ LET t == at[2]
     IN IF CanAdd(t, "demo") \/ t \in Upserts
        THEN /\ rows' = With({t}, "demo") /\ GoOn /\ UNCHANGED last
             /\ counter' = IF t = "counter" THEN [reserved |-> 0, sold |-> 0] ELSE counter
        ELSE Break /\ UNCHANGED <<rows, counter>>
  /\ UNCHANGED hold

\* syncInventoryAndQuotas: active and confirmed reservations of the type.
Sums ==
  LET one(b) == IF b THEN 1 ELSE 0
      fixtures == one("demo" \in rows["reservation"])
  IN [reserved |-> fixtures + one(hold = "active"), sold |-> fixtures + one(hold = "confirmed")]

Sum(at) ==
  /\ at = <<"sum", "">>
  /\ seed' = [seed EXCEPT !.at = @ + 1, !.sums = Sums]
  /\ UNCHANGED <<rows, hold, counter, last>>

Count(at) ==
  /\ at = <<"count", "">>
  /\ counter' = seed.sums /\ GoOn
  /\ UNCHANGED <<rows, hold, last>>

\* A quota for each seeded user with reservations.
Quotas(at) ==
  /\ at = <<"quotas", "">>
  /\ IF CanAdd("quota", "demo") THEN rows' = With({"quota"}, "demo") /\ GoOn /\ UNCHANGED last
     ELSE Break /\ UNCHANGED rows
  /\ UNCHANGED <<hold, counter>>

SeedStep ==
  /\ seed.runs /\ seed.at \in DOMAIN Program
  /\ LET at == Program[seed.at]
     IN Find(at) \/ Delete(at) \/ Create(at) \/ Sum(at) \/ Count(at) \/ Quotas(at)
  /\ UNCHANGED <<api, disturbed, cleared, seeds>>

SeedEnds ==
  /\ seed.runs /\ seed.at > Len(Program)
  /\ seed' = NoSeed /\ last' = "done" /\ api' = (api \/ seed.starts)
  /\ UNCHANGED <<rows, hold, counter, disturbed, cleared, seeds>>

-----------------------------------------------------------------------------
(* Its runs                                                                *)

Run(starts) ==
  /\ ~seed.runs /\ seeds < MaxSeeds /\ seeds' = seeds + 1
  /\ seed' = [NoSeed EXCEPT !.at = 1, !.runs = TRUE, !.starts = starts]
  /\ disturbed' = "not" /\ last' = "none"
  /\ UNCHANGED <<rows, hold, counter, api, cleared>>

\* The container starts: seed-if-empty, and after it the API.
SeedIfEmpty == rows["organization"] = {} /\ ~api /\ Run(TRUE)
StartApi ==
  /\ rows["organization"] # {} /\ ~api /\ ~seed.starts
  /\ api' = TRUE
  /\ UNCHANGED <<rows, hold, counter, seed, last, disturbed, cleared, seeds>>
\* db:seed
ForceSeed == Run(FALSE)

Interrupt ==
  /\ seed.runs /\ seed' = NoSeed /\ last' = "interrupted"
  /\ UNCHANGED <<rows, hold, counter, api, disturbed, cleared, seeds>>

-----------------------------------------------------------------------------
(* The application                                                         *)

Write ==
  /\ api
  /\ disturbed' = IF ~seed.runs \/ disturbed = "late" THEN disturbed
                  ELSE IF seed.at \in DOMAIN Program /\ Program[seed.at][1] = "count" THEN "late"
                  ELSE "early"

HoldSeat ==
  /\ Write /\ hold = "none"
  /\ "demo" \in rows["type"] \cap rows["counter"]
  /\ hold' = "active" /\ counter' = [counter EXCEPT !.reserved = @ + 1]
  /\ rows' = With({"reservation", "quota"}, "own")
  /\ UNCHANGED <<seed, api, last, cleared, seeds>>

PlaceOrder ==
  /\ Write /\ hold = "active" /\ CanAdd("order", "own")
  /\ "demo" \in rows["type"]
  /\ rows' = With({"order", "item", "payment"}, "own")
  /\ UNCHANGED <<hold, counter, seed, api, last, cleared, seeds>>

Pay ==
  /\ Write /\ hold = "active" /\ "own" \in rows["payment"] \cap rows["item"]
  /\ "demo" \in rows["counter"]
  /\ hold' = "confirmed"
  /\ counter' = [reserved |-> counter.reserved - 1, sold |-> counter.sold + 1]
  /\ rows' = With({"ticket"}, "own")
  /\ UNCHANGED <<seed, api, last, cleared, seeds>>

ImportGuests ==
  /\ Write /\ "demo" \in rows["concert"] /\ "own" \notin rows["batch"]
  /\ rows' = With({"batch", "staging", "version", "entry", "outbox"}, "own")
  /\ UNCHANGED <<hold, counter, seed, api, last, cleared, seeds>>

\* deleteActiveGuestList: the seeded version as long as there is no other.
ClearGuests ==
  /\ Write /\ "demo" \in rows["version"]
  /\ rows' = Without("version", IF "own" \in rows["version"] THEN {"own"} ELSE {"demo"})
  /\ cleared' = (cleared \/ "own" \notin rows["version"])
  /\ UNCHANGED <<hold, counter, seed, api, last, seeds>>

RecordCheckIn ==
  /\ Write /\ CanAdd("checkIn", "own")
  /\ rows' = With({"checkIn"}, "own")
  /\ UNCHANGED <<hold, counter, seed, api, last, cleared, seeds>>

\* assignDevice, for a concert of another organizer.
AssignElsewhere ==
  /\ Write /\ CanAdd("assignment", "own")
  /\ rows' = With({"assignment", "projection"}, "own")
  /\ UNCHANGED <<hold, counter, seed, api, last, cleared, seeds>>

SeedNext ==
  \/ SeedStep \/ SeedEnds \/ SeedIfEmpty \/ StartApi \/ ForceSeed \/ Interrupt
  \/ HoldSeat \/ PlaceOrder \/ Pay \/ ImportGuests \/ ClearGuests \/ RecordCheckIn \/ AssignElsewhere

SeedSpec == SeedInit /\ [][SeedNext]_seedVars

-----------------------------------------------------------------------------
(* Properties                                                              *)

\* A seed that nothing disturbs goes through, whatever an interrupted one and
\* the application have left, unless the seeded guest list was cleared, whose
\* message stays, or a demo device was assigned to somebody else's concert
\* (resetDemoData, then main).
LoneSeedsSucceed ==
  last = "failed" /\ disturbed = "not" => cleared \/ "own" \in rows["assignment"]

\* When a seed is through, the counters agree with the reservations unless the
\* application wrote between syncInventoryAndQuotas' reading and its update;
\* whatever it wrote, every reservation has its quota, a paid one its ticket,
\* and an order without its item is none of the seed's.
SeedsAgree ==
  last = "done" =>
    /\ disturbed # "late" => counter = Sums
    /\ rows["quota"] = rows["reservation"]
    /\ rows["order"] \subseteq rows["item"] \cup {"own"}
    /\ hold = "confirmed" => "own" \in rows["ticket"]

\* Seeds go through, and leave rows that fit together.
SeedsLeaveOrder == LoneSeedsSucceed /\ SeedsAgree
=============================================================================
