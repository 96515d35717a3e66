------------------------------- MODULE OpsQuery -------------------------------
(***************************************************************************)
(* OpsService.Search, sortOpsRecords, the page arithmetic of ops_query.go  *)
(* and the report of ops_report.go, over a store that other requests       *)
(* change while a client reads a list page by page.                        *)
(*                                                                         *)
(* OpsStore.List holds the lock once, so reading a page is one step.  What *)
(* the writers do between their calls is the matter of OpsRecords; here a  *)
(* write is the one call of OpsStore that makes it.                        *)
(*                                                                         *)
(* Right before some definitions stand variants of them, each marked as a  *)
(* slip: the mistake that the properties below have to find.               *)
(***************************************************************************)
EXTENDS Integers, Sequences, FiniteSets

CONSTANTS
  Id,          \* record ids, numbered in their order as strings
  Content,     \* what a record may hold besides its stamp
  Seeds,       \* the stores to start with: functions from Id
  Queries,     \* the filters that clients send
  Sizes,       \* the page sizes that clients send
  DefaultSize, \* 25
  MaxSize,     \* 200
  Half,        \* an int has the values -Half .. Half - 1
  Base,        \* a fraction of a second has two digits of this base
  Times,       \* the instants at which something may happen, in ticks
  MaxWrites,   \* bound of the number of writes
  TopLimit,    \* 5
  NoRecord

Owner == Nat \ {0}   \* numbered in their order as strings; 0 is the empty string

ContentType == [subject : SUBSET STRING, owner : Owner, status : STRING, priority : STRING]
QueryType   == [subject : STRING, owner : Nat, status : STRING, priority : STRING]

ASSUME QueryAssumption ==
  /\ Id \subseteq Nat /\ IsFiniteSet(Id)
  /\ Content \subseteq ContentType /\ Queries \subseteq QueryType
  /\ Sizes \subseteq Int
  /\ DefaultSize \in 1 .. MaxSize /\ MaxSize \in Nat \ {0}
  /\ Half \in Nat /\ Cardinality(Id) + MaxSize < Half
  /\ Base \in Nat \ {0, 1}
  /\ Times \subseteq Nat /\ MaxWrites \in Nat /\ TopLimit \in Nat \ {0}

OpsRecord == [subject : SUBSET STRING, owner : Owner, status : STRING,
              priority : STRING, updated : Nat]

ASSUME NoRecordAssumption == NoRecord \notin OpsRecord \cup Content

ASSUME SeedsAssumption == Seeds \subseteq [Id -> Content \cup {NoRecord}]

-----------------------------------------------------------------------------
(* Sorting *)

Weight(priority) ==
  CASE priority = "critical" -> 4
    [] priority = "high"     -> 3
    [] priority = "normal"   -> 2
    [] OTHER                 -> 1

(* UpdatedAt is a string, compared as one.  RFC3339Nano drops the zeros at *)
(* the end of the fraction, and the dot with the last of them, and Z is    *)
(* greater than any digit: of two stamps of a second, one that ends where  *)
(* the other has a further digit is the greater.                           *)
SecondOf(t) == t \div (Base * Base)
TextDigits(t) ==
  LET tens  == (t \div Base) % Base
      units == t % Base
  IN IF units # 0 THEN <<tens, units>>
     ELSE IF tens # 0 THEN <<tens, Base>> ELSE <<Base, 0>>
Text(t) == (SecondOf(t) * (Base + 1) + TextDigits(t)[1]) * (Base + 1) + TextDigits(t)[2]

(* sortOpsRecords is stable, and OpsStore.List has sorted by id. *)
\* slip: the oldest first
PrecedesOldest(records, x, y) ==
  LET a == records[x]  b == records[y]
      wa == Weight(a.priority)  wb == Weight(b.priority)
  IN \/ wa > wb
     \/ wa = wb /\ Text(a.updated) < Text(b.updated)
     \/ wa = wb /\ Text(a.updated) = Text(b.updated) /\ x < y
Precedes(records, x, y) ==
  LET a == records[x]  b == records[y]
      wa == Weight(a.priority)  wb == Weight(b.priority)
  IN \/ wa > wb
     \/ wa = wb /\ Text(a.updated) > Text(b.updated)
     \/ wa = wb /\ Text(a.updated) = Text(b.updated) /\ x < y

-----------------------------------------------------------------------------
(* Search *)

(* A subject is the set of the texts it contains, in lower case. *)
Match(item, q) ==
  /\ q.subject  # "" => q.subject \in item.subject
  /\ q.status   # "" => item.status = q.status
  /\ q.priority # "" => item.priority = q.priority
  /\ q.owner    # 0  => item.owner = q.owner

Present(records)     == {x \in Id : records[x] # NoRecord}
Matching(records, q) == {x \in Present(records) : Match(records[x], q)}

Before(records, q, x) == {y \in Matching(records, q) : Precedes(records, y, x)}
Position(records, q, x) == Cardinality(Before(records, q, x)) + 1

Listed(records, q) ==
  [n \in 1 .. Cardinality(Matching(records, q)) |->
     CHOOSE x \in Matching(records, q) : Position(records, q, x) = n]

PageOf(page) == IF page < 1 THEN 1 ELSE page
SizeOf(size) == IF size < 1 THEN DefaultSize ELSE IF size > MaxSize THEN MaxSize ELSE size

(* Go's int wraps around. *)
Wrap(n) == ((n + Half) % (2 * Half)) - Half

(* opsBounds: the slice from start up to and without end. *)
\* slip: the last record of a page is the first one of the next
BoundsInclusive(total, page, size) ==
  LET from  == Wrap((PageOf(page) - 1) * SizeOf(size))
      start == IF from > total THEN total ELSE from
      to    == Wrap(start + SizeOf(size) + 1)
  IN <<start, IF to > total THEN total ELSE to>>
\* slip: pages are numbered from 0
BoundsFromZero(total, page, size) ==
  LET from  == Wrap(PageOf(page) * SizeOf(size))
      start == IF from > total THEN total ELSE from
      to    == Wrap(start + SizeOf(size))
  IN <<start, IF to > total THEN total ELSE to>>
Bounds(total, page, size) ==
  LET from  == Wrap((PageOf(page) - 1) * SizeOf(size))
      start == IF from > total THEN total ELSE from
      to    == Wrap(start + SizeOf(size))
  IN <<start, IF to > total THEN total ELSE to>>

(* A slice that begins below 0 panics, which the middleware answers.       *)
\* slip: a full last page is followed by an empty one
SearchOneMore(records, q, page, size) ==
  LET list == Listed(records, q)
      b    == Bounds(Len(list), page, size)
  IN [ok |-> b[1] >= 0, items |-> SubSeq(list, b[1] + 1, b[2]), hasNext |-> b[1] < Len(list)]
Search(records, q, page, size) ==
  LET list == Listed(records, q)
      b    == Bounds(Len(list), page, size)
  IN [ok |-> b[1] >= 0, items |-> SubSeq(list, b[1] + 1, b[2]), hasNext |-> b[2] < Len(list)]

PageCount(total, size) ==
  IF size < 1 \/ total = 0 THEN 0 ELSE (total + size - 1) \div size

-----------------------------------------------------------------------------
(* The report *)

Active(records) == {x \in Present(records) : records[x].status = "active"}

ActiveOf(records, o) == Cardinality({x \in Active(records) : records[x].owner = o})

(* topOwners: by descending count, then by name. *)
\* slip: by name alone
BusierByName(records, o, p) == o < p
Busier(records, o, p) ==
  \/ ActiveOf(records, o) > ActiveOf(records, p)
  \/ ActiveOf(records, o) = ActiveOf(records, p) /\ o < p

TopOwners(records, limit) ==
  LET owners == {records[x].owner : x \in Active(records)}
      count  == Cardinality(owners)
  IN [n \in 1 .. (IF limit < 0 \/ limit > count THEN count ELSE limit) |->
        CHOOSE o \in owners : Cardinality({p \in owners : Busier(records, p, o)}) = n - 1]

(* The least UpdatedAt of an active record, as a string.                   *)
OldestActive(records) ==
  CHOOSE t \in {records[x].updated : x \in Active(records)} :
    \A x \in Active(records) : Text(t) <= Text(records[x].updated)

(* buildOpsReport.  updated_last_hour is left out; the empty string stands *)
(* for no stamp, 0 for no owner.                                           *)
WithStatus(records, s)   == {x \in Present(records) : records[x].status = s}
WithPriority(records, p) == {x \in Present(records) : records[x].priority = p}

OpsReport(records) ==
  LET owners == TopOwners(records, TopLimit)
  IN [ total        |-> Cardinality(Present(records)),
       byStatus     |-> [s \in {records[x].status : x \in Present(records)} |->
                           Cardinality(WithStatus(records, s))],
       byPriority   |-> [p \in {records[x].priority : x \in Present(records)} |->
                           Cardinality(WithPriority(records, p))],
       oldestActive |-> IF Active(records) = {} THEN "" ELSE OldestActive(records),
       topOwners    |-> owners,
       activeOwner  |-> IF owners = <<>> THEN 0 ELSE owners[1] ]

-----------------------------------------------------------------------------
(* The store, its writers, and a client that reads page after page. *)

VARIABLES
  items,   \* OpsStore.items
  writes,  \* how many writes there have been
  reader,  \* the client: "idle", "reading", "done"
  query, size, page, \* what it asks for
  got,     \* the ids it has got
  found,   \* history variable: the ids that matched when it began
  touched, \* history variable: the ids written since
  rose,    \* history variable: since then a record has come up in its list, ...
  sank     \* ... and one has gone down in it or out of it

storeVars  == <<items, writes>>
readerVars == <<reader, query, size, page, got, found>>
ghosts     == <<touched, rose, sank>>
vars == <<storeVars, readerVars, ghosts>>

Stamped(c, t) == [subject |-> c.subject, owner |-> c.owner, status |-> c.status,
                  priority |-> c.priority, updated |-> t]

(* All records of the seed have one stamp (seedOpsRecords). *)
Init ==
  /\ \E seed \in Seeds :
       items = [x \in Id |-> IF seed[x] = NoRecord THEN NoRecord ELSE Stamped(seed[x], 0)]
  /\ writes = 0
  /\ reader = "idle" /\ size = 0 /\ page = 1 /\ got = <<>> /\ found = {}
  /\ query \in Queries
  /\ touched = {} /\ rose = FALSE /\ sank = FALSE

(* What a write means for the list: a record comes up in it when it is new *)
(* to it, or gets a greater weight or, at the same weight, a later stamp;  *)
(* it goes down or out when it no longer matches, loses weight, or gets a  *)
(* stamp that is not of a later second, of which the text may be smaller.  *)
Listable(r) == r # NoRecord /\ Match(r, query)
Rises(old, new) ==
  /\ Listable(new)
  /\ Listable(old) => Weight(new.priority) >= Weight(old.priority)
Sinks(old, new) ==
  /\ Listable(old)
  /\ Listable(new) =>
       \/ Weight(new.priority) < Weight(old.priority)
       \/ /\ Weight(new.priority) = Weight(old.priority)
          /\ SecondOf(new.updated) <= SecondOf(old.updated)

Write(x, new) ==
  /\ writes < MaxWrites /\ writes' = writes + 1
  /\ items' = [items EXCEPT ![x] = new]
  /\ IF reader # "idle"
     THEN /\ touched' = touched \cup {x}
          /\ rose' = (rose \/ Rises(items[x], new))
          /\ sank' = (sank \/ Sinks(items[x], new))
     ELSE UNCHANGED ghosts
  /\ UNCHANGED readerVars

(* A stamp is the text of a UTC time, so it may be earlier than the one of *)
(* the write before: the server's clock can be set back.                   *)
Put(x) ==
  /\ items[x] = NoRecord
  /\ \E c \in Content : \E t \in Times : Write(x, Stamped(c, t))

Update(x) ==
  /\ items[x] # NoRecord
  /\ \E c \in Content : \E t \in Times : Write(x, Stamped(c, t))

Delete(x) == items[x] # NoRecord /\ Write(x, NoRecord)

(* The client begins with page 1 and goes on as long as there is a next. *)
StartReading ==
  /\ reader = "idle"
  /\ reader' = "reading" /\ size' \in Sizes
  /\ found' = Matching(items, query)
  /\ UNCHANGED <<storeVars, query, page, got, ghosts>>

ReadPage ==
  LET answer == Search(items, query, page, size) IN
  /\ reader = "reading"
  /\ got' = got \o answer.items
  /\ IF answer.hasNext THEN page' = page + 1 /\ UNCHANGED reader
                       ELSE reader' = "done" /\ UNCHANGED page
  /\ UNCHANGED <<storeVars, query, size, found, ghosts>>

Next ==
  \/ StartReading \/ ReadPage
  \/ \E x \in Id : Put(x) \/ Update(x) \/ Delete(x)

Spec == Init /\ [][Next]_vars

-----------------------------------------------------------------------------
(* Type invariant (ops_model.go, ops_query.go). *)
TypeOK ==
  /\ items \in [Id -> OpsRecord \cup {NoRecord}]
  /\ writes \in 0 .. MaxWrites
  /\ reader \in {"idle", "reading", "done"}
  /\ query \in QueryType /\ size \in Int /\ page \in Nat \ {0}
  /\ got \in Seq(Id)
  /\ found \subseteq Id /\ touched \subseteq Id
  /\ rose \in BOOLEAN /\ sank \in BOOLEAN

(* A page is its window of the sorted list: the records with the positions *)
(* that the page number and the size name, each once, and there is a next  *)
(* page if there is a later position.  This goes for every page number for *)
(* which the product does not overflow an int; the others are not promised *)
(* anything (Search, opsBounds).  Every store comes up before the client   *)
(* begins to read.                                                         *)
PagesAreWindows ==
  reader = "idle" =>
  \A s \in Sizes : \A p \in 1 .. Half - 1 :
    LET first  == (p - 1) * SizeOf(s) + 1
        last   == p * SizeOf(s)
        answer == Search(items, query, p, s)
        Place(x) == Position(items, query, x)
    IN first <= Half =>
         /\ answer.ok
         /\ Len(answer.items) =
              Cardinality({x \in Matching(items, query) : Place(x) \in first .. last})
         /\ \A n \in DOMAIN answer.items : Place(answer.items[n]) = first + n - 1
         /\ answer.hasNext <=> \E x \in Matching(items, query) : Place(x) > last

Seen(x) == Cardinality({n \in DOMAIN got : got[n] = x})

(* A client that reads to the end while nothing is written gets the whole  *)
(* list in its order, and in as many pages as opsPageCount says.           *)
StillListIsRead ==
  reader = "done" /\ touched = {} =>
    /\ got = Listed(items, query)
    /\ page = PageCount(Len(got), SizeOf(size)) \/ (got = <<>> /\ page = 1)

(* Records may change meanwhile.  One that has not been written since the  *)
(* client began is left out only if another sank in its list, or left it:  *)
(* sorting by the latest stamp keeps mere updates from hiding anything, as *)
(* long as their stamps are of a later second than those they replace.     *)
MissedOnlyIfSank ==
  reader = "done" /\ ~sank => \A x \in found \ touched : Seen(x) > 0

(* ... and it is shown twice only if another one came up.                  *)
TwiceOnlyIfRose ==
  reader # "idle" /\ ~rose => \A x \in found \ touched : Seen(x) <= 1

(* The report compares stamps as strings.  What it calls the oldest active *)
(* record is the oldest, up to the second (buildOpsReport).                *)
OldestToTheSecond ==
  \A x \in Active(items) :
    SecondOf(OpsReport(items).oldestActive) <= SecondOf(items[x].updated)

(* The busiest owners are those with the most active records, the most     *)
(* first, and no owner outside the list is busier than one in it, for any  *)
(* length of the list up to that of the report (topOwners).                *)
BusiestOwners ==
  \A limit \in 1 .. TopLimit :
    LET top   == TopOwners(items, limit)
        named == {top[n] : n \in DOMAIN top}
    IN /\ \A m, n \in DOMAIN top :
            m < n => ActiveOf(items, top[m]) >= ActiveOf(items, top[n])
       /\ \A x \in Active(items) : \A n \in DOMAIN top :
            items[x].owner \notin named
              => ActiveOf(items, items[x].owner) <= ActiveOf(items, top[n])

(* The one it singles out has active records, if there are any, and nobody *)
(* has more.                                                               *)
BusiestOwner ==
  LET owner == OpsReport(items).activeOwner
  IN \A x \in Active(items) :
       /\ \E y \in Active(items) : items[y].owner = owner
       /\ ActiveOf(items, items[x].owner) <= ActiveOf(items, owner)

(* The report agrees with the list: it counts as many records as the list  *)
(* has without a filter, and under its status and its priority as the list *)
(* has when it is filtered by that alone.                                  *)
FilteredBy(status, priority) ==
  [subject |-> "", owner |-> 0, status |-> status, priority |-> priority]
CountsAgree ==
  LET report == OpsReport(items)
      Found(status, priority) == Len(Listed(items, FilteredBy(status, priority)))
  IN /\ report.total = Found("", "")
     /\ \A s \in DOMAIN report.byStatus \ {""} : report.byStatus[s] = Found(s, "")
     /\ \A p \in DOMAIN report.byPriority \ {""} : report.byPriority[p] = Found("", p)

ReportIsRight == OldestToTheSecond /\ BusiestOwners /\ BusiestOwner /\ CountsAgree

(* The inductive invariant behind the reader's properties.  Before page    *)
(* number page it has read up to place ReadUpTo.  As long as nothing rises *)
(* in the list, what it has got stays within these places; as long as      *)
(* nothing sinks, it has got what stands there.                            *)
ReadUpTo == (page - 1) * SizeOf(size)

ReaderInv ==
  /\ ReadUpTo \in 0 .. Cardinality(Id)
  /\ reader = "idle" => page = 1 /\ got = <<>> /\ touched = {}
  /\ touched = {} => ~rose /\ ~sank

SeenInv ==
  reader # "idle" =>
    \A x \in found \ touched :
      /\ reader = "reading" => x \in Matching(items, query)
      /\ ~rose => Seen(x) <= 1
      /\ reader = "reading" /\ ~rose /\ Seen(x) > 0 => Position(items, query, x) <= ReadUpTo
      /\ reader = "reading" /\ ~sank /\ Position(items, query, x) <= ReadUpTo => Seen(x) > 0
      /\ reader = "done" /\ ~sank => Seen(x) > 0

StillInv ==
  reader # "idle" /\ touched = {} =>
    /\ found = Matching(items, query)
    /\ \A n \in DOMAIN got : got[n] \in found /\ Position(items, query, got[n]) = n
    /\ reader = "reading" =>
         /\ Len(got) = ReadUpTo
         /\ ReadUpTo < Cardinality(found) \/ page = 1
    /\ reader = "done" =>
         /\ Len(got) = Cardinality(found)
         /\ Cardinality(found) <= ReadUpTo + SizeOf(size)
         /\ ReadUpTo < Cardinality(found) \/ (found = {} /\ page = 1)

Inductive == TypeOK /\ ReaderInv /\ SeenInv /\ StillInv

=============================================================================
