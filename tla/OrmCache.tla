------------------------------ MODULE OrmCache ------------------------------
(* The row cache of the ORM in the database service, for one cached table:  *)
(* the plugin looks a query up in memory before it runs and keeps its       *)
(* result afterwards; a statement that changes the table throws the table's *)
(* results away once it has run.                                            *)
EXTENDS Integers, FiniteSets

CONSTANTS
  Reader,     \* goroutines that run a query
  Writer,     \* goroutines that run a statement
  Query,      \* texts of queries on the table
  Expire,     \* UseCacheAdvanced.Expire, in ticks
  MaxWrites,  \* bound: statements that change the table
  MaxFails    \* bound: queries that fail after some of their rows

ASSUME CacheAssumption ==
  Expire \in Nat \ {0} /\ MaxWrites \in Nat /\ MaxFails \in Nat

VARIABLES
  table,      \* the table's contents: the number of changes so far
  cache,      \* MemoryCache: per query the contents its result comes from
  reader,     \* per goroutine: where its query is, and the contents it read
  writer,     \* per goroutine: where its statement is, and the keys to delete
  fails       \* bound

vars == <<table, cache, reader, writer, fails>>

(* torn: rows are missing, the query had failed before it had read them.    *)
(* late is history: the result was kept after a later change of the table,  *)
(* or a raw statement left it there.                                        *)
Result  == [found : {TRUE}, of : Nat, torn : BOOLEAN, age : 0 .. Expire - 1, late : BOOLEAN]
NoEntry == [found |-> FALSE]

Ready == [pc |-> "ready"]
Quiet == [pc |-> "quiet"]
Kind  == {"create", "update", "delete", "raw"}

TypeOK ==
  /\ table \in 0 .. MaxWrites
  /\ cache \in [Query -> {NoEntry} \cup Result]
  /\ reader \in [Reader ->
       {Ready} \cup [pc : {"select"}, query : Query]
               \cup [pc : {"set"}, query : Query, of : 0 .. MaxWrites, torn : BOOLEAN]]
  /\ writer \in [Writer ->
       {Quiet} \cup [pc : {"after"}, kind : Kind] \cup [pc : {"delete"}, todo : SUBSET Query]]
  /\ fails \in 0 .. MaxFails

Init ==
  /\ table = 0
  /\ cache = [q \in Query |-> NoEntry]
  /\ reader = [r \in Reader |-> Ready]
  /\ writer = [w \in Writer |-> Quiet]
  /\ fails = 0

-----------------------------------------------------------------------------
(* before: a hit keeps the query from the database; the entry's expiry is   *)
(* that of its Set.                                                         *)
HitRenews(q) == [cache EXCEPT ![q].age = 0]                  \* mutant
Hit(q) == cache

Lookup(r, q) ==
  /\ reader[r] = Ready
  /\ IF cache[q].found
     THEN cache' = Hit(q) /\ UNCHANGED reader
     ELSE reader' = [reader EXCEPT ![r] = [pc |-> "select", query |-> q]] /\ UNCHANGED cache
  /\ UNCHANGED <<table, writer, fails>>

(* The query runs.  after() looks at the number of rows and never at the    *)
(* error: a query without a row, failed or not, is not kept, but one that   *)
(* fails after some rows (a scan error, a time-out) is kept with these.     *)
Read(r, torn) ==
  /\ reader[r].pc = "select"
  /\ reader' = [reader EXCEPT ![r] =
        [pc |-> "set", query |-> reader[r].query, of |-> table, torn |-> torn]]
  /\ UNCHANGED <<table, cache, writer>>

Select(r) == Read(r, FALSE) /\ UNCHANGED fails

SelectSome(r) ==
  /\ fails < MaxFails /\ fails' = fails + 1
  /\ Read(r, TRUE)

SelectNothing(r) ==
  /\ reader[r].pc = "select"
  /\ reader' = [reader EXCEPT ![r] = Ready]
  /\ UNCHANGED <<table, cache, writer, fails>>

(* after, for a query: CacheMemoryDriver.Set.                              *)
Keep(r) ==
  /\ reader[r].pc = "set"
  /\ cache' = [cache EXCEPT ![reader[r].query] =
                 [found |-> TRUE, of |-> reader[r].of, torn |-> reader[r].torn,
                  age |-> 0, late |-> reader[r].of # table]]
  /\ reader' = [reader EXCEPT ![r] = Ready]
  /\ UNCHANGED <<table, writer, fails>>

-----------------------------------------------------------------------------
(* A statement changes the table (its own transaction ends before after()). *)
(* A raw statement (BulkUpdate) has no model, so after() returns and leaves *)
(* every result where it is.                                                *)
DeletesChanges(kind) == kind \in {"update", "delete"}        \* mutant
Deletes(kind) == kind # "raw"

Change(w, kind) ==
  /\ writer[w] = Quiet /\ table < MaxWrites
  /\ table' = table + 1
  /\ writer' = [writer EXCEPT ![w] = [pc |-> "after", kind |-> kind]]
  /\ cache' = IF kind = "raw"
              THEN [q \in Query |-> IF cache[q].found THEN [cache[q] EXCEPT !.late = TRUE]
                                                      ELSE cache[q]]
              ELSE cache
  /\ UNCHANGED <<reader, fails>>

(* A statement that fails: an update or delete still throws results away.   *)
Fail(w, kind) ==
  /\ writer[w] = Quiet /\ kind \in {"update", "delete"}
  /\ writer' = [writer EXCEPT ![w] = [pc |-> "after", kind |-> kind]]
  /\ UNCHANGED <<table, cache, reader, fails>>

(* deleteCacheByTable: the keys are listed, then deleted one by one.        *)
After(w) ==
  /\ writer[w].pc = "after"
  /\ writer' = [writer EXCEPT ![w] =
                  IF Deletes(writer[w].kind)
                  THEN [pc |-> "delete", todo |-> {q \in Query : cache[q].found}]
                  ELSE Quiet]
  /\ UNCHANGED <<table, cache, reader, fails>>

DeleteKey(w, q) ==
  /\ writer[w].pc = "delete" /\ q \in writer[w].todo
  /\ cache' = [cache EXCEPT ![q] = NoEntry]
  /\ writer' = [writer EXCEPT ![w].todo = @ \ {q}]
  /\ UNCHANGED <<table, reader, fails>>

Deleted(w) ==
  /\ writer[w].pc = "delete" /\ writer[w].todo = {}
  /\ writer' = [writer EXCEPT ![w] = Quiet]
  /\ UNCHANGED <<table, cache, reader, fails>>

-----------------------------------------------------------------------------
(* Time passes; a result that is as old as Expire is not found any more.    *)
OlderYet(e) == IF e.found /\ e.age < Expire THEN [e EXCEPT !.age = @ + 1] ELSE NoEntry   \* mutant
Older(e) == IF e.found /\ e.age + 1 < Expire THEN [e EXCEPT !.age = @ + 1] ELSE NoEntry

Tick ==
  /\ \E q \in Query : cache[q].found
  /\ cache' = [q \in Query |-> Older(cache[q])]
  /\ UNCHANGED <<table, reader, writer, fails>>

(* The service restarts: the cache and the goroutines are gone.             *)
Restart ==
  /\ cache' = [q \in Query |-> NoEntry]
  /\ reader' = [r \in Reader |-> Ready]
  /\ writer' = [w \in Writer |-> Quiet]
  /\ UNCHANGED <<table, fails>>

Reads(r)  == Select(r) \/ SelectSome(r) \/ SelectNothing(r) \/ Keep(r)
Writes(w) == After(w) \/ Deleted(w) \/ \E q \in Query : DeleteKey(w, q)

Next ==
  \/ \E r \in Reader : Reads(r) \/ \E q \in Query : Lookup(r, q)
  \/ \E w \in Writer : Writes(w) \/ \E kind \in Kind : Change(w, kind) \/ Fail(w, kind)
  \/ Tick \/ Restart

Spec == Init /\ [][Next]_vars

(* Queries that have begun end, and time passes.                            *)
Fairness == WF_vars(Tick) /\ \A r \in Reader : WF_vars(Reads(r))

FairSpec == Spec /\ Fairness

-----------------------------------------------------------------------------
(* A statement throws away what was kept before it: a result that is not    *)
(* all of the table as it is now will be deleted by a statement that has    *)
(* run, was kept by a query that read the table before the change, was left *)
(* by a raw statement, or is what a failed query had read of this table.    *)
Deleting(q) ==
  \E w \in Writer : \/ writer[w].pc = "after" /\ writer[w].kind # "raw"
                    \/ writer[w].pc = "delete" /\ q \in writer[w].todo

Exact(e) == e.of = table /\ ~e.torn

StaleExplained ==
  \A q \in Query : cache[q].found /\ ~Exact(cache[q]) =>
    \/ cache[q].torn /\ cache[q].of = table
    \/ cache[q].late \/ Deleting(q)

(* Statements and queries that fail midway are bounded; after the last of   *)
(* them every query is answered with all of the table as it is, in the end  *)
(* and for good, although late queries keep old results and every hit uses  *)
(* old and truncated results again.                                        *)
FreshInTheEnd == <>[](\A q \in Query : cache[q].found => Exact(cache[q]))
=============================================================================
