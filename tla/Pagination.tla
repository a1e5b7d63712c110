------------------------------- MODULE Pagination ------------------------------
(***************************************************************************)
(* iter_images, iter_files and iter_operations of the Python clients       *)
(* (client/contree_client/base.py): pages are fetched by offset while      *)
(* other callers create and delete records.                                *)
(***************************************************************************)
EXTENDS Integers, FiniteSets

CONSTANTS
    Records,    \* records that may be in the listing
    PageSizes,  \* page_size of the call
    Limits,     \* limit of the call
    NoLimit,    \* limit=None
    MaxChanges  \* bound on what other callers do

ASSUME PageAssumption ==
    /\ IsFiniteSet(Records)
    /\ PageSizes \subseteq Int /\ Limits \subseteq Int /\ NoLimit \notin Int
    /\ MaxChanges \in Nat

VARIABLES
    rank,       \* the listing: the place of each record in it, from 1
    total,      \* its length
    created,    \* history: records that were created during the iteration
    deleted,    \* history: records that were deleted
    pageSize, limit,
    pageAt,     \* "unused", "start", "fetch", "yield", "done" or "raised"
    fetched,    \* records yielded
    offset,
    size,       \* the limit of the request under way
    upto,       \* offset + len(page)
    page,       \* the records of the page still to be yielded, by their place
    yielded     \* history: records the caller got

listVars == << rank, total, created, deleted >>
loopVars == << pageSize, limit, pageAt, fetched, offset, size, upto, page, yielded >>
pageVars == << listVars, loopVars >>

Present == DOMAIN rank
EmptyPage == [x \in {} |-> 0]

Listings ==
    {r \in UNION {[P -> 1 .. Cardinality(P)] : P \in SUBSET Records} :
        \A x, y \in DOMAIN r : r[x] = r[y] => x = y}

PagesInit ==
    /\ rank \in Listings /\ total = Cardinality(Present)
    /\ created = {} /\ deleted = {}
    /\ pageSize \in PageSizes /\ limit \in Limits \cup {NoLimit}
    /\ pageAt = "start"
    /\ fetched = 0 /\ offset = 0 /\ size = 0 /\ upto = 0
    /\ page = EmptyPage /\ yielded = {}

-----------------------------------------------------------------------------
(* The other callers.  A record is created once. *)

Changes == Cardinality(created) + Cardinality(deleted)

Create(x, place) ==
    /\ Changes < MaxChanges
    /\ x \notin Present \cup deleted
    /\ rank' = [y \in Present \cup {x} |->
                  IF y = x THEN place ELSE IF rank[y] >= place THEN rank[y] + 1 ELSE rank[y]]
    /\ total' = total + 1 /\ created' = created \cup {x}
    /\ UNCHANGED << deleted, loopVars >>

Delete(x) ==
    /\ Changes < MaxChanges
    /\ rank' = [y \in Present \ {x} |-> IF rank[y] > rank[x] THEN rank[y] - 1 ELSE rank[y]]
    /\ total' = total - 1 /\ deleted' = deleted \cup {x}
    /\ UNCHANGED << created, loopVars >>

OtherCallers ==
    \/ \E x \in Records, place \in 1 .. total + 1 : Create(x, place)
    \/ \E x \in Present : Delete(x)

-----------------------------------------------------------------------------

Less(a, b) == IF a <= b THEN a ELSE b

\* The first next(): page_size is checked.
Start ==
    /\ pageAt = "start"
    /\ pageAt' = IF pageSize \in 1 .. 1000 THEN "fetch" ELSE "raised"
    /\ UNCHANGED << listVars, pageSize, limit, fetched, offset, size, upto, page, yielded >>

\* Seeded fault: every page is asked for in full.
PageLimitFull == pageSize

PageLimit == IF limit = NoLimit THEN pageSize ELSE Less(pageSize, limit - fetched)

\* The server answers with the records behind the offset; the loop ends when
\* nothing may be asked for, or nothing came.
Fetch ==
    /\ pageAt = "fetch"
    /\ size' = PageLimit
    /\ upto' = IF size' > 0 THEN Less(offset + size', total) ELSE offset
    /\ page' = [x \in {y \in Present : rank[y] \in offset + 1 .. upto'} |-> rank[x]]
    /\ pageAt' = IF upto' > offset THEN "yield" ELSE "done"
    /\ UNCHANGED << listVars, pageSize, limit, fetched, offset, yielded >>

LimitReached == limit # NoLimit /\ fetched + 1 >= limit

Yield(x) ==
    /\ pageAt = "yield"
    /\ \A y \in DOMAIN page : page[x] <= page[y]
    /\ page' = [y \in DOMAIN page \ {x} |-> page[y]]
    /\ yielded' = yielded \cup {x} /\ fetched' = fetched + 1
    /\ pageAt' = IF LimitReached THEN "done" ELSE "yield"
    /\ UNCHANGED << listVars, pageSize, limit, offset, size, upto >>

\* Seeded faults: the offset is off by one either way.
OffsetShort == upto - 1
OffsetLong == upto + 1

\* offset += len(page)
NextOffset == upto

\* Behind the page's last record: a short page was the last one.
PageOver ==
    /\ pageAt = "yield" /\ DOMAIN page = {}
    /\ IF upto - offset < size
       THEN pageAt' = "done" /\ UNCHANGED offset
       ELSE pageAt' = "fetch" /\ offset' = NextOffset
    /\ UNCHANGED << listVars, pageSize, limit, fetched, size, upto, page, yielded >>

Loop == Start \/ Fetch \/ (\E x \in DOMAIN page : Yield(x)) \/ PageOver

PagesNext == Loop \/ OtherCallers

PagesSpec == PagesInit /\ [][PagesNext]_pageVars

\* The caller goes on asking for the next record.
FairPagesSpec == PagesSpec /\ WF_pageVars(Loop)

-----------------------------------------------------------------------------
(* Properties                                                              *)

\* An offset that counts what was fetched skips nothing by itself: of the
\* records that are there from before the first page to the end, an iteration
\* without limit misses at most one for every record that was deleted
\* meanwhile, however many pages, creations and page sizes lie between.
SkipsBounded ==
    pageAt = "done" /\ limit = NoLimit =>
        Cardinality(Present \ (created \cup yielded)) <= Cardinality(deleted)

\* Nor does it repeat by itself: at most one record comes once more for every
\* record that was created meanwhile.
RepeatsBounded == fetched - Cardinality(yielded) <= Cardinality(created)

\* When nothing changes, exactly the first "limit" records are yielded.
ExactWhenStill ==
    pageAt = "done" /\ created = {} /\ deleted = {} =>
        yielded = {x \in Present : limit # NoLimit => rank[x] <= limit}

\* The iteration ends once the others have stopped creating records.
IterationEnds == [](pageAt = "fetch" => <>(pageAt \in {"done", "raised"}))

=============================================================================
