------------------------------ MODULE Listing -------------------------------
(***************************************************************************)
(* The paged lists of the API: users, subscriptions, usage logs, searches, *)
(* conversations and messages.  Each is a findMany with skip and take and  *)
(* a count, sent together and answered in either order; a client walks     *)
(* the pages until totalPages while the rows are written.                  *)
(*                                                                         *)
(* A row is what orderBy sees of it: its time stamp, 0 while where leaves  *)
(* it out.  The order has no tie breaker.                                  *)
(***************************************************************************)
EXTENDS Naturals, FiniteSets, FiniteSetsExt

CONSTANTS
    MaxRows,     \* bound: rows there ever are
    PageSize,    \* limit
    MaxStamp,    \* bound: the milliseconds of a run
    MaxWrites,   \* bound: writes while the list is walked
    Lists        \* the lists of the API that are walked

(* asc is orderBy; a touched row moves (updatedAt); a row leaves when it   *)
(* is deleted, softly or not, or is filtered out, and then may come back   *)
(* where it was.                                                           *)
ASSUME ListingAssumption ==
    /\ PageSize \in Nat \ {0} /\ MaxRows \in Nat
    /\ MaxStamp \in Nat \ {0} /\ MaxWrites \in Nat
    /\ Lists \subseteq [asc : BOOLEAN, moves : BOOLEAN, leaves : BOOLEAN, returns : BOOLEAN]

VARIABLES
    list,     \* the list that is walked
    stamps,   \* of each row: what orderBy compares, 0 if it is not listed
    now,      \* the newest stamp given
    writes,   \* made since the walk began
    walk,     \* the page and what is known of it
    shown,    \* how often each row was shown
    excuse    \* history: why a row may have been missed, or shown twice

listingVars == <<list, stamps, now, writes, walk, shown, excuse>>

-----------------------------------------------------------------------------
Rows == 1 .. MaxRows
Listed == {r \in Rows : stamps[r] # 0}

ListingTypeOK ==
    /\ list \in Lists
    /\ stamps \in [Rows -> 0 .. MaxStamp] /\ now \in 1 .. MaxStamp
    /\ writes \in 0 .. MaxWrites
    /\ walk \in [page : 1 .. MaxRows + 1, items : BOOLEAN, counted : BOOLEAN,
                 total : 0 .. MaxRows, over : BOOLEAN]
    /\ shown \in [Rows -> Nat]
    /\ excuse \in [missed : SUBSET Rows, twice : SUBSET Rows, torn : SUBSET Rows]

(* orderBy puts r before s. *)
Before(r, s, at) == IF list.asc THEN at[r] < at[s] ELSE at[r] > at[s]

Ahead(r, at) == {s \in Rows : at[s] # 0 /\ Before(s, r, at)}
Tied(at) == {r \in Rows : at[r] # 0 /\ \E s \in Rows \ {r} : at[s] = at[r]}

PageStart(n) == [page |-> n, items |-> FALSE, counted |-> FALSE, total |-> 0, over |-> FALSE]

(* Any rows are there to begin with; later numbers are not older. *)
ListingInit ==
    /\ list \in Lists
    /\ stamps \in {at \in [Rows -> 0 .. MaxStamp - 1] :
                     \A r \in Rows \ {1} : at[r] = 0 \/ (at[r - 1] # 0 /\ at[r - 1] <= at[r])}
    /\ now = Max({1} \cup {stamps[r] : r \in Rows})
    /\ writes = 0
    /\ walk = PageStart(1)
    /\ shown = [r \in Rows |-> 0]
    /\ excuse = [missed |-> Tied(stamps), twice |-> Tied(stamps), torn |-> {}]

-----------------------------------------------------------------------------
(* The walk. *)

(* Mutant: the first page is page 0. *)
SkipFromZero(page) == page * PageSize

Skip(page) == (page - 1) * PageSize

(* What the first n rows of S may be, ties being ordered anyhow. *)
First(S, n) ==
    {T \in SUBSET S : /\ Cardinality(T) = Min({n, Cardinality(S)})
                      /\ \A r \in T, s \in S \ T : ~Before(s, r, stamps)}

FindMany ==
    /\ ~walk.over /\ ~walk.items
    /\ \E skipped \in First(Listed, Skip(walk.page)) :
         \E rows \in First(Listed \ skipped, PageSize) :
            shown' = [r \in Rows |-> IF r \in rows THEN shown[r] + 1 ELSE shown[r]]
    /\ walk' = [walk EXCEPT !.items = TRUE]
    /\ UNCHANGED <<list, stamps, now, writes, excuse>>

Count ==
    /\ ~walk.over /\ ~walk.counted
    /\ walk' = [walk EXCEPT !.counted = TRUE, !.total = Cardinality(Listed)]
    /\ UNCHANGED <<list, stamps, now, writes, shown, excuse>>

TotalPages == (walk.total + PageSize - 1) \div PageSize

(* The page is answered, and the next one asked for if there is one. *)
NextPage ==
    /\ ~walk.over /\ walk.items /\ walk.counted
    /\ walk' = IF walk.page >= TotalPages THEN [walk EXCEPT !.over = TRUE]
                                          ELSE PageStart(walk.page + 1)
    /\ excuse' = IF walk'.over THEN excuse ELSE [excuse EXCEPT !.torn = {}]
    /\ UNCHANGED <<list, stamps, now, writes, shown>>

-----------------------------------------------------------------------------
(* The writes. *)

(* What a write may do to the rows it leaves alone: fewer rows ahead of    *)
(* one may hide it behind the border of a page, more may show it again,    *)
(* or hide it from a last page that was counted before them.               *)
Write(r, stamp) ==
    LET at == [stamps EXCEPT ![r] = stamp]
        up == {s \in Rows : Cardinality(Ahead(s, at)) < Cardinality(Ahead(s, stamps))}
        down == {s \in Rows : Cardinality(Ahead(s, at)) > Cardinality(Ahead(s, stamps))}
    IN  /\ ~walk.over /\ writes < MaxWrites
        /\ writes' = writes + 1
        /\ stamps' = at
        /\ excuse' =
             [missed |-> excuse.missed \cup up \cup {r} \cup Tied(at),
              twice |-> excuse.twice \cup down \cup {r} \cup Tied(at),
              torn |-> IF walk.counted /\ ~walk.items THEN excuse.torn \cup down ELSE excuse.torn]
        /\ UNCHANGED <<list, walk, shown>>

(* The stamps a statement may still carry when it commits. *)
Fresh == {s \in {now - 1, now, now + 1} : s \in 1 .. MaxStamp}

Dated(s) == now' = Max({now, s})

(* A new row, a row written again, one deleted or filtered out, and one    *)
(* that where lets in again, as old as it is.                              *)
Insert == \E r \in Rows \ Listed : \E s \in Fresh : Write(r, s) /\ Dated(s)
Touch == list.moves /\ \E r \in Listed : \E s \in Fresh : Write(r, s) /\ Dated(s)
Leave == list.leaves /\ (\E r \in Listed : Write(r, 0)) /\ UNCHANGED now
Reenter == list.returns /\ (\E r \in Rows \ Listed : \E s \in 1 .. now : Write(r, s)) /\ UNCHANGED now

ListingNext == FindMany \/ Count \/ NextPage \/ Insert \/ Touch \/ Leave \/ Reenter

ListingSpec == ListingInit /\ [][ListingNext]_listingVars

-----------------------------------------------------------------------------
(* Properties. *)

(* chat.service.ts:81 and the other lists: a client that has walked all    *)
(* pages has seen every row, except one that was written meanwhile, that   *)
(* shares its stamp with another, that had a row ahead of it leave, or     *)
(* that was pushed off the last page between the two statements of it; and *)
(* it has seen none twice, but for those, or where a row was put ahead.    *)
ShownOnce ==
    /\ walk.over =>
         \A r \in Listed : shown[r] = 0 => r \in excuse.missed \cup excuse.torn
    /\ \A r \in Rows : shown[r] > 1 => r \in excuse.twice

=============================================================================
