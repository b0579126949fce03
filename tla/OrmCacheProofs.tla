--------------------------- MODULE OrmCacheProofs ---------------------------
(* For every number of goroutines, queries and statements: types, and that  *)
(* a result older than the table has an explanation.  The explanation is    *)
(* inductive given the types: a statement blames every result it finds on   *)
(* itself until it has deleted it.                                         *)
EXTENDS OrmCache, TLAPS

Reading == {Ready} \cup [pc : {"select"}, query : Query]
                   \cup [pc : {"set"}, query : Query, of : 0 .. MaxWrites, torn : BOOLEAN]
Writing == {Quiet} \cup [pc : {"after"}, kind : Kind] \cup [pc : {"delete"}, todo : SUBSET Query]
Entry   == {NoEntry} \cup Result

LEMMA Typed ==
  TypeOK <=> /\ table \in 0 .. MaxWrites
             /\ cache \in [Query -> Entry]
             /\ reader \in [Reader -> Reading]
             /\ writer \in [Writer -> Writing]
             /\ fails \in 0 .. MaxFails
  BY DEF TypeOK, Entry, Reading, Writing

(* What can be found is a result.                                          *)
LEMMA FoundResult ==
  ASSUME NEW e \in Entry, e.found
  PROVE  e \in Result
  BY DEF Entry, NoEntry

(* An older or a blamed result is a result, of the same contents.           *)
LEMMA OlderEntry ==
  ASSUME NEW e \in Entry
  PROVE  /\ Older(e) \in Entry
         /\ Older(e).found => e.found /\ Older(e).of = e.of /\ Older(e).torn = e.torn
                           /\ Older(e).late = e.late
<1>1. CASE e.found /\ e.age + 1 < Expire
  <2>1. e \in Result BY <1>1, FoundResult
  <2>2. Older(e) = [e EXCEPT !.age = @ + 1] BY <1>1 DEF Older
  <2>3. [e EXCEPT !.age = @ + 1] \in Result
    <3>1. e.age + 1 \in 0 .. Expire - 1 BY <1>1, <2>1, CacheAssumption DEF Result
    <3> DEFINE a == e.age + 1
    <3>2. a \in 0 .. Expire - 1 BY <3>1
    <3> HIDE DEF a
    <3>3. [e EXCEPT !.age = a] \in Result BY <2>1, <3>2 DEF Result
    <3> QED BY <3>3 DEF a
  <2> QED BY <1>1, <2>1, <2>2, <2>3 DEF Entry, Result
<1>2. CASE ~(e.found /\ e.age + 1 < Expire)
  BY <1>2 DEF Older, Entry, NoEntry
<1> QED BY <1>1, <1>2

LEMMA BlamedEntry ==
  ASSUME NEW e \in Entry, e.found
  PROVE  /\ [e EXCEPT !.late = TRUE] \in Entry
         /\ [e EXCEPT !.late = TRUE].late
  BY FoundResult DEF Entry, Result

-----------------------------------------------------------------------------
(* Types.                                                                  *)
LEMMA InitTypes == Init => TypeOK
<1> SUFFICES ASSUME Init PROVE TypeOK OBVIOUS
<1>1. table \in 0 .. MaxWrites BY CacheAssumption DEF Init
<1>2. cache \in [Query -> Entry] BY DEF Init, Entry
<1>3. reader \in [Reader -> Reading] BY DEF Init, Reading
<1>4. writer \in [Writer -> Writing] BY DEF Init, Writing
<1>5. fails \in 0 .. MaxFails BY CacheAssumption DEF Init
<1> QED BY <1>1, <1>2, <1>3, <1>4, <1>5, Typed

LEMMA NextTypes == TypeOK /\ [Next]_vars => TypeOK'
<1> SUFFICES ASSUME TypeOK, [Next]_vars PROVE TypeOK' OBVIOUS
<1> USE Typed, CacheAssumption
<1>0. TypeOK' <=> /\ table' \in 0 .. MaxWrites
                  /\ cache' \in [Query -> Entry]
                  /\ reader' \in [Reader -> Reading]
                  /\ writer' \in [Writer -> Writing]
                  /\ fails' \in 0 .. MaxFails
  BY DEF TypeOK, Entry, Reading, Writing
<1>1. ASSUME NEW r \in Reader, NEW q \in Query, Lookup(r, q) PROVE TypeOK'
  BY <1>0, <1>1 DEF Lookup, Hit, Reading
<1>2. ASSUME NEW r \in Reader, Select(r) \/ SelectSome(r) PROVE TypeOK'
  <2>1. PICK torn \in BOOLEAN : Read(r, torn) BY <1>2 DEF Select, SelectSome
  <2>2. reader[r] \in Reading /\ reader[r].query \in Query BY <2>1 DEF Read, Reading, Ready
  <2> DEFINE set == [pc |-> "set", query |-> reader[r].query, of |-> table, torn |-> torn]
  <2>3. set \in Reading BY <2>2 DEF Reading
  <2>6. reader' = [reader EXCEPT ![r] = set] BY <2>1 DEF Read
  <2> HIDE DEF set
  <2>7. reader \in [Reader -> Reading] OBVIOUS
  <2>4. reader' \in [Reader -> Reading] BY <2>3, <2>6, <2>7
  <2>5. fails' \in 0 .. MaxFails
    <3>1. fails \in 0 .. MaxFails /\ MaxFails \in Nat OBVIOUS
    <3>2. fails' = fails \/ (fails < MaxFails /\ fails' = fails + 1)
      BY <1>2 DEF Select, SelectSome
    <3> QED BY <3>1, <3>2
  <2> QED BY <1>0, <2>1, <2>4, <2>5 DEF Read
<1>3. ASSUME NEW r \in Reader, SelectNothing(r) PROVE TypeOK'
  BY <1>0, <1>3 DEF SelectNothing, Reading
<1>4. ASSUME NEW r \in Reader, Keep(r) PROVE TypeOK'
  <2>1. reader[r].query \in Query /\ reader[r].of \in 0 .. MaxWrites /\ reader[r].torn \in BOOLEAN
    <3>1. reader[r] \in Reading OBVIOUS
    <3> QED BY <1>4, <3>1 DEF Keep, Reading, Ready
  <2> DEFINE e == [found |-> TRUE, of |-> reader[r].of, torn |-> reader[r].torn,
                   age |-> 0, late |-> reader[r].of # table]
  <2>2. e \in Entry BY <2>1 DEF Entry, Result
  <2> HIDE DEF e
  <2>3. cache' = [cache EXCEPT ![reader[r].query] = e] BY <1>4 DEF Keep, e
  <2>4. cache' \in [Query -> Entry] BY <2>1, <2>2, <2>3
  <2>5. reader' \in [Reader -> Reading] BY <1>4 DEF Keep, Reading
  <2> QED BY <1>0, <1>4, <2>4, <2>5 DEF Keep
<1>5. ASSUME NEW w \in Writer, NEW kind \in Kind, Change(w, kind) PROVE TypeOK'
  <2>1. table' \in 0 .. MaxWrites BY <1>5 DEF Change
  <2>2. writer' \in [Writer -> Writing] BY <1>5 DEF Change, Writing
  <2>3. cache' \in [Query -> Entry]
    <3>1. CASE kind = "raw"
      <4>1. \A q \in Query : (IF cache[q].found THEN [cache[q] EXCEPT !.late = TRUE] ELSE cache[q]) \in Entry
        BY BlamedEntry
      <4> QED BY <1>5, <3>1, <4>1 DEF Change
    <3>2. CASE kind # "raw" BY <1>5, <3>2 DEF Change
    <3> QED BY <3>1, <3>2
  <2> QED BY <1>0, <1>5, <2>1, <2>2, <2>3 DEF Change
<1>6. ASSUME NEW w \in Writer, NEW kind \in Kind, Fail(w, kind) PROVE TypeOK'
  BY <1>0, <1>6 DEF Fail, Writing
<1>7. ASSUME NEW w \in Writer, After(w) PROVE TypeOK'
  BY <1>0, <1>7 DEF After, Writing
<1>8. ASSUME NEW w \in Writer, NEW q \in Query, DeleteKey(w, q) PROVE TypeOK'
  <2>1. writer[w] \in [pc : {"delete"}, todo : SUBSET Query]
    BY <1>8 DEF DeleteKey, Writing, Quiet
  <2>2. [writer[w] EXCEPT !.todo = @ \ {q}] \in Writing BY <2>1 DEF Writing
  <2>3. writer' \in [Writer -> Writing] BY <1>8, <2>2 DEF DeleteKey
  <2>4. cache' \in [Query -> Entry] BY <1>8 DEF DeleteKey, Entry
  <2> QED BY <1>0, <1>8, <2>3, <2>4 DEF DeleteKey
<1>9. ASSUME NEW w \in Writer, Deleted(w) PROVE TypeOK'
  BY <1>0, <1>9 DEF Deleted, Writing
<1>10. CASE Tick
  <2>1. \A q \in Query : Older(cache[q]) \in Entry BY OlderEntry
  <2> QED BY <1>0, <1>10, <2>1 DEF Tick
<1>11. CASE Restart
  BY <1>0, <1>11 DEF Restart, Entry, Reading, Writing
<1>12. CASE UNCHANGED vars BY <1>0, <1>12 DEF vars
<1> QED
  BY <1>1, <1>2, <1>3, <1>4, <1>5, <1>6, <1>7, <1>8, <1>9, <1>10, <1>11, <1>12
  DEF Next, Reads, Writes

(* Every variable keeps its type in every behaviour of the specification:   *)
(* what CachePlugin keeps is a result with an age below Expire.             *)
THEOREM CacheTypeOK == Spec => []TypeOK
<1> QED BY InitTypes, NextTypes, PTL DEF Spec

-----------------------------------------------------------------------------
(* A step after which a writer that is about to delete q still is, or q is  *)
(* not found, keeps the explanations if it adds no result and no change.    *)
LEMMA Explained ==
  ASSUME StaleExplained, table' = table,
         \A q \in Query : cache'[q].found =>
           /\ cache[q].found /\ cache'[q].of = cache[q].of /\ cache'[q].torn = cache[q].torn
           /\ cache'[q].late = cache[q].late
           /\ Deleting(q) => Deleting(q)'
  PROVE  StaleExplained'
  BY DEF StaleExplained, Exact

LEMMA InitExplained == Init => StaleExplained
  BY DEF Init, StaleExplained, NoEntry

LEMMA NextExplained == TypeOK /\ StaleExplained /\ [Next]_vars => StaleExplained'
<1> SUFFICES ASSUME TypeOK, StaleExplained, [Next]_vars PROVE StaleExplained' OBVIOUS
<1>0. /\ table \in Nat
      /\ cache \in [Query -> Entry]
      /\ writer \in [Writer -> Writing]
  BY Typed, CacheAssumption
<1>1. ASSUME NEW r \in Reader, NEW q \in Query, Lookup(r, q) PROVE StaleExplained'
  BY <1>1 DEF Lookup, Hit, StaleExplained, Exact, Deleting
<1>2. ASSUME NEW r \in Reader, Select(r) \/ SelectSome(r) \/ SelectNothing(r) PROVE StaleExplained'
  <2>1. UNCHANGED <<table, cache, writer>> BY <1>2 DEF Select, SelectSome, SelectNothing, Read
  <2> QED BY <2>1 DEF StaleExplained, Exact, Deleting
<1>3. ASSUME NEW r \in Reader, Keep(r) PROVE StaleExplained'
  <2> SUFFICES ASSUME NEW q \in Query, cache'[q].found
               PROVE  \/ cache'[q].of = table' /\ ~cache'[q].torn
                      \/ cache'[q].of = table' /\ cache'[q].torn
                      \/ cache'[q].late \/ Deleting(q)'
    BY DEF StaleExplained, Exact
  <2>1. CASE q = reader[r].query
    <3>1. reader[r].torn \in BOOLEAN
      <4>1. reader[r] \in Reading BY Typed
      <4> QED BY <1>3, <4>1 DEF Keep, Reading, Ready
    <3>2. cache'[q] = [found |-> TRUE, of |-> reader[r].of, torn |-> reader[r].torn,
                       age |-> 0, late |-> reader[r].of # table]
      BY <1>0, <1>3, <2>1 DEF Keep
    <3>3. table' = table BY <1>3 DEF Keep
    <3>4. CASE reader[r].of = table BY <3>1, <3>2, <3>3, <3>4
    <3>5. CASE reader[r].of # table
      <4>1. cache'[q].late BY <1>0, <1>3, <2>1, <3>5 DEF Keep
      <4> QED BY <4>1
    <3> QED BY <3>4, <3>5
  <2>2. CASE q # reader[r].query
    <3>1. cache'[q] = cache[q] /\ UNCHANGED <<table, writer>> BY <1>0, <1>3, <2>2 DEF Keep
    <3> QED BY <3>1 DEF StaleExplained, Exact, Deleting
  <2> QED BY <2>1, <2>2
<1>4. ASSUME NEW w \in Writer, NEW kind \in Kind, Change(w, kind) PROVE StaleExplained'
  <2>1. CASE kind = "raw"
    <3> SUFFICES ASSUME NEW q \in Query, cache'[q].found PROVE cache'[q].late
      BY DEF StaleExplained
    <3>1. cache[q] \in Entry BY <1>0
    <3>2. cache'[q] = IF cache[q].found THEN [cache[q] EXCEPT !.late = TRUE] ELSE cache[q]
      BY <1>4, <2>1 DEF Change
    <3> QED BY <3>1, <3>2, BlamedEntry
  <2>2. CASE kind # "raw"
    <3>1. writer'[w] = [pc |-> "after", kind |-> kind] BY <1>0, <1>4 DEF Change
    <3>2. \A q \in Query : Deleting(q)' BY <2>2, <3>1 DEF Deleting
    <3> QED BY <3>2 DEF StaleExplained
  <2> QED BY <2>1, <2>2
<1>5. ASSUME NEW w \in Writer, NEW kind \in Kind, Fail(w, kind) PROVE StaleExplained'
  <2>1. writer[w] = Quiet /\ UNCHANGED <<table, cache>> BY <1>5 DEF Fail
  <2>2. \A v \in Writer : v # w => writer'[v] = writer[v] BY <1>0, <1>5 DEF Fail
  <2>3. \A q \in Query : Deleting(q) => Deleting(q)' BY <2>1, <2>2 DEF Deleting, Quiet
  <2> QED BY <2>1, <2>3, Explained
<1>6. ASSUME NEW w \in Writer, After(w) PROVE StaleExplained'
  <2>1. UNCHANGED <<table, cache>> BY <1>6 DEF After
  <2>2. \A v \in Writer : v # w => writer'[v] = writer[v] BY <1>0, <1>6 DEF After
  <2>3. ASSUME NEW q \in Query, cache'[q].found, Deleting(q) PROVE Deleting(q)'
    <3> PICK v \in Writer : \/ writer[v].pc = "after" /\ writer[v].kind # "raw"
                            \/ writer[v].pc = "delete" /\ q \in writer[v].todo
      BY <2>3 DEF Deleting
    <3>1. CASE v # w BY <2>2, <3>1 DEF Deleting
    <3>2. CASE v = w
      <4>1. writer'[w] = [pc |-> "delete", todo |-> {p \in Query : cache[p].found}]
        BY <1>0, <1>6, <3>2 DEF After, Deletes
      <4> QED BY <2>1, <2>3, <4>1 DEF Deleting
    <3> QED BY <3>1, <3>2
  <2> QED BY <2>1, <2>3, Explained
<1>7. ASSUME NEW w \in Writer, NEW p \in Query, DeleteKey(w, p) PROVE StaleExplained'
  <2>1. table' = table /\ cache' = [cache EXCEPT ![p] = NoEntry] BY <1>7 DEF DeleteKey
  <2>2. \A q \in Query : cache'[q].found => q # p /\ cache'[q] = cache[q]
    BY <1>0, <2>1 DEF NoEntry
  <2>3. ASSUME NEW q \in Query, q # p, Deleting(q) PROVE Deleting(q)'
    <3> PICK v \in Writer : \/ writer[v].pc = "after" /\ writer[v].kind # "raw"
                            \/ writer[v].pc = "delete" /\ q \in writer[v].todo
      BY <2>3 DEF Deleting
    <3>1. CASE v # w
      <4>1. writer'[v] = writer[v] BY <1>0, <1>7, <3>1 DEF DeleteKey
      <4> QED BY <4>1 DEF Deleting
    <3>2. CASE v = w
      <4>1. writer[w] \in [pc : {"delete"}, todo : SUBSET Query]
        BY <1>0, <1>7 DEF DeleteKey, Writing, Quiet
      <4>2. writer'[w] = [writer[w] EXCEPT !.todo = @ \ {p}] BY <1>0, <1>7 DEF DeleteKey
      <4>3. writer'[w].pc = "delete" /\ q \in writer'[w].todo
        BY <2>3, <3>2, <4>1, <4>2
      <4> QED BY <4>3 DEF Deleting
    <3> QED BY <3>1, <3>2
  <2> QED BY <2>1, <2>2, <2>3, Explained
<1>8. ASSUME NEW w \in Writer, Deleted(w) PROVE StaleExplained'
  <2>1. UNCHANGED <<table, cache>> BY <1>8 DEF Deleted
  <2>2. \A v \in Writer : v # w => writer'[v] = writer[v] BY <1>0, <1>8 DEF Deleted
  <2>3. \A q \in Query : Deleting(q) => Deleting(q)' BY <1>8, <2>2 DEF Deleting, Deleted
  <2> QED BY <2>1, <2>3, Explained
<1>9. CASE Tick
  <2>1. table' = table /\ writer' = writer BY <1>9 DEF Tick
  <2>2. \A q \in Query : cache'[q] = Older(cache[q]) BY <1>9 DEF Tick
  <2>3. \A q \in Query : Deleting(q) => Deleting(q)' BY <2>1 DEF Deleting
  <2> QED BY <1>0, <2>1, <2>2, <2>3, OlderEntry, Explained
<1>10. CASE Restart BY <1>10 DEF Restart, StaleExplained, NoEntry
<1>11. CASE UNCHANGED vars BY <1>11 DEF vars, StaleExplained, Exact, Deleting
<1> QED
  BY <1>1, <1>2, <1>3, <1>4, <1>5, <1>6, <1>7, <1>8, <1>9, <1>10, <1>11
  DEF Next, Reads, Writes

(* A result that is not all of the table was left by a raw statement, kept  *)
(* by a query that had read before the change, is what a query that failed  *)
(* midway had read of this table, or is about to be deleted.                *)
THEOREM CacheStaleExplained == Spec => []StaleExplained
<1> QED BY InitTypes, NextTypes, InitExplained, NextExplained, PTL DEF Spec
=============================================================================
