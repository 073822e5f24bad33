-------------------------- MODULE ForumStoreProofs --------------------------
(***************************************************************************)
(* Whatever the number of threads, forums and statements: the view of the  *)
(* forums, the map and the table disagree only for the causes ForumStore   *)
(* names.                                                                  *)
(***************************************************************************)
EXTENDS ForumStore, TLAPS

USE NoneAssumption, WritesAssumption, ReportAssumption DEF tables, memory, viewMarks, mapMarks

\* What a thread has set at each point of its way, and that what has no row has
\* no entry either.
Prepared(t) ==
    /\ my[t].at \in {"stmt", "fetch", "put", "drop"} => my[t].f \in Forums
    /\ my[t].at = "stmt" => rows[my[t].f].stage # "none"
    /\ my[t].at = "put" => Live(my[t].snap[my[t].f])
    /\ my[t].at = "order" => \A f \in my[t].left : rows[f].stage # "none"

RowsFirst ==
    \A f \in Forums : rows[f].stage = "none" =>
      rows[f] = Nothing /\ forums[f] = Nothing /\ \A t \in Threads : my[t].snap[f] = Nothing

Shape == TypeOK /\ RowsFirst /\ \A t \in Threads : Prepared(t)

LEMMA NothingType == Nothing \in Records /\ Empty \in [Forums -> Records] /\ Idle \in Locals
BY DEF Nothing, Records, Stages, Empty, Idle, One, Locals, Labels

LEMMA ListedType == ASSUME NEW r \in Records PROVE Listed(r) \in Records
BY NothingType DEF Listed

LEMMA ShapeInit == Init => Shape
<1> SUFFICES ASSUME Init PROVE Shape
  OBVIOUS
<1>1. rows \in [Forums -> Records]
  BY NothingType DEF Init, Records, Stages
<1>2. view \in [Forums -> Records]
  BY <1>1, ListedType DEF Init
<1>3. TypeOK
  BY <1>1, <1>2, NothingType DEF Init, TypeOK
<1>4. \A f \in Forums : rows[f].stage = "none" => rows[f] = Nothing
  BY DEF Init, Nothing
<1>5. RowsFirst
  BY <1>4 DEF Init, RowsFirst, Idle, One, Empty
<1>6. \A t \in Threads : Prepared(t)
  BY DEF Init, Prepared, Idle, One
<1> QED BY <1>3, <1>5, <1>6 DEF Shape

\* A step of one thread that leaves the rows as they are.
LEMMA ShapeLocal ==
    ASSUME Shape, NEW t \in Threads, NEW x \in Locals, my' = [my EXCEPT ![t] = x],
           UNCHANGED <<rows, writes>>, view' \in [Forums -> Records], forums' \in [Forums -> Records],
           creator' \in Threads \cup {None},
           overtaken' \subseteq Forums, cutShort' \subseteq Forums, late' \subseteq Forums, behind' \subseteq Forums,
           \A f \in Forums : rows[f].stage = "none" => forums'[f] = Nothing /\ x.snap[f] = Nothing,
           x.at \in {"stmt", "fetch", "put", "drop"} => x.f \in Forums,
           x.at = "stmt" => rows[x.f].stage # "none",
           x.at = "put" => Live(x.snap[x.f]),
           x.at = "order" => \A f \in x.left : rows[f].stage # "none"
    PROVE  Shape'
<1>1. TypeOK'
  BY DEF Shape, TypeOK
<1>2. RowsFirst'
  BY DEF Shape, TypeOK, RowsFirst
<1>3. ASSUME NEW u \in Threads PROVE Prepared(u)'
  <2>1. CASE u = t
    BY <2>1 DEF Shape, TypeOK, Prepared
  <2>2. CASE u # t
    BY <2>2 DEF Shape, TypeOK, Prepared
  <2> QED BY <2>1, <2>2
<1> QED BY <1>1, <1>2, <1>3 DEF Shape

\* A step of one thread that writes one row and leaves the memory as it is.
LEMMA ShapeWrite ==
    ASSUME Shape, NEW t \in Threads, NEW f \in Forums, NEW stage \in Stages \ {"none"}, NEW x \in Locals,
           my' = [my EXCEPT ![t] = x], Execute,
           rows' = [rows EXCEPT ![f] = [stage |-> stage, ver |-> rows[f].ver + 1]],
           \A g \in Forums : rows[g].stage = "none" => x.snap[g] = Nothing,
           x.at \in {"stmt", "fetch", "drop", "order"}, x.at # "order" => x.f = f,
           x.at = "order" => x.left \subseteq my[t].left /\ my[t].at = "order",
           UNCHANGED <<memory, viewMarks, mapMarks>>, creator' \in Threads \cup {None}
    PROVE  Shape'
<1>1. rows[f].ver \in Nat
  BY DEF Shape, TypeOK, Records
<1>2. [stage |-> stage, ver |-> rows[f].ver + 1] \in Records
  BY <1>1 DEF Records
<1>3. rows' \in [Forums -> Records] /\ writes' \in Nat
  BY <1>2 DEF Shape, TypeOK, Execute
<1>4. TypeOK'
  BY <1>3 DEF Shape, TypeOK
<1>5. \A g \in Forums : rows'[g].stage = "none" => g # f /\ rows[g].stage = "none" /\ rows'[g] = rows[g]
  BY DEF Shape, TypeOK
<1>6. RowsFirst'
  BY <1>5 DEF Shape, TypeOK, RowsFirst
<1>7. ASSUME NEW u \in Threads PROVE Prepared(u)'
  <2>1. CASE u = t
    BY <2>1, <1>5 DEF Shape, TypeOK, Prepared, Locals
  <2>2. CASE u # t
    BY <2>2, <1>5 DEF Shape, TypeOK, Prepared, Locals
  <2> QED BY <2>1, <2>2
<1> QED BY <1>4, <1>6, <1>7 DEF Shape

\* What a thread becomes: at a label with a forum, about to rebuild, or back.
LEMMA OneType ==
    ASSUME NEW label \in Labels, NEW f \in Forums
    PROVE  /\ One(label, f, Empty) \in Locals
           /\ One(label, f, Empty).at = label
           /\ One(label, f, Empty).f = f
           /\ \A g \in Forums : One(label, f, Empty).snap[g] = Nothing
BY NothingType DEF One, Locals, Empty

LEMMA ManyType ==
    ASSUME NEW label \in Labels, NEW snap \in [Forums -> Records], NEW got \in [Forums -> Records],
           NEW left \in SUBSET Forums, NEW passed \in SUBSET Forums
    PROVE  /\ Many(label, snap, got, left, passed) \in Locals
           /\ Many(label, snap, got, left, passed).at = label
           /\ Many(label, snap, got, left, passed).snap = snap
           /\ Many(label, snap, got, left, passed).got = got
           /\ Many(label, snap, got, left, passed).left = left
           /\ Many(label, snap, got, left, passed).passed = passed
BY DEF Many, Locals

LEMMA RangeType ==
    /\ Many("range", Empty, Empty, Forums, {}) \in Locals
    /\ Many("range", Empty, Empty, Forums, {}).at = "range"
    /\ \A g \in Forums : Many("range", Empty, Empty, Forums, {}).snap[g] = Nothing
BY NothingType, ManyType DEF Empty, Labels

LEMMA GatheredType ==
    ASSUME TypeOK, NEW t \in Threads, NEW f \in Forums, NEW r \in Records
    PROVE  /\ Gathered(t, f, r) \in Locals
           /\ Gathered(t, f, r).at = my[t].at
           /\ Gathered(t, f, r).snap = my[t].snap
<1> DEFINE got == [my[t].got EXCEPT ![f] = Listed(r)]
<1>1. /\ my[t].at \in Labels /\ my[t].snap \in [Forums -> Records]
      /\ my[t].left \ {f} \in SUBSET Forums /\ my[t].passed \ {f} \in SUBSET Forums
  BY DEF TypeOK, Locals
<1>2. got \in [Forums -> Records]
  BY ListedType DEF TypeOK, Locals
<1> HIDE DEF got
<1> QED BY <1>1, <1>2, ManyType DEF Gathered, got

LEMMA IdleType == Idle \in Locals /\ Idle.at = "idle" /\ \A g \in Forums : Idle.snap[g] = Nothing
BY NothingType DEF Idle, One, Empty

LEMMA WroteShape ==
    ASSUME Shape, NEW t \in Threads, NEW f \in Forums, NEW stage \in Stages \ {"none"}, Execute,
           rows' = [rows EXCEPT ![f] = [stage |-> stage, ver |-> rows[f].ver + 1]],
           NEW label \in {"stmt", "fetch", "drop"}, GoOn(t, label, f),
           UNCHANGED <<memory, viewMarks, mapMarks>>, creator' \in Threads \cup {None}
    PROVE  Shape'
<1> DEFINE x == One(label, f, Empty)
<1>1. x \in Locals /\ x.at = label /\ x.f = f /\ \A g \in Forums : x.snap[g] = Nothing
  BY OneType DEF Labels
<1>2. my' = [my EXCEPT ![t] = x]
  BY DEF GoOn, Keep
<1> HIDE DEF x
<1> QED BY <1>1, <1>2, ShapeWrite, ZenonT(60)

LEMMA ReturnShape ==
    ASSUME Shape, NEW t \in Threads, Return(t), UNCHANGED <<rows, writes, memory>>,
           overtaken' \subseteq Forums, cutShort' \subseteq Forums, late' \subseteq Forums, behind' \subseteq Forums
    PROVE  Shape'
<1>1. creator' \in Threads \cup {None}
  BY DEF Return, Shape, TypeOK
<1>2. my' = [my EXCEPT ![t] = Idle]
  BY DEF Return, Keep
<1> QED BY <1>1, <1>2, IdleType, ShapeLocal DEF Shape, TypeOK, RowsFirst

LEMMA GoOnShape ==
    ASSUME Shape, NEW t \in Threads, NEW f \in Forums, NEW label \in {"fetch", "drop"}, GoOn(t, label, f),
           writes' \in {writes, writes + 1}, UNCHANGED <<rows, memory, creator, viewMarks, mapMarks>>
    PROVE  Shape'
<1> DEFINE x == One(label, f, Empty)
<1>1. x \in Locals /\ x.at = label /\ x.f = f /\ \A g \in Forums : x.snap[g] = Nothing
  BY OneType DEF Labels
<1>2. my' = [my EXCEPT ![t] = x]
  BY DEF GoOn, Keep
<1> HIDE DEF x
<1>3. TypeOK'
  BY <1>1, <1>2 DEF Shape, TypeOK
<1>4. RowsFirst'
  BY <1>1, <1>2 DEF Shape, TypeOK, RowsFirst
<1>5. ASSUME NEW u \in Threads PROVE Prepared(u)'
  <2>1. CASE u = t
    BY <2>1, <1>1, <1>2 DEF Shape, TypeOK, Prepared
  <2>2. CASE u # t
    BY <2>2, <1>2 DEF Shape, TypeOK, Prepared
  <2> QED BY <2>1, <2>2
<1> QED BY <1>3, <1>4, <1>5 DEF Shape

\* The map after a step that sets one of its entries.
LEMMA SetEntryType ==
    ASSUME Shape, NEW t, NEW f \in Forums, NEW r \in Records, SetEntry(t, f, r),
           rows[f].stage = "none" => r = Nothing
    PROVE  /\ forums' \in [Forums -> Records]
           /\ late' \subseteq Forums /\ behind' \subseteq Forums
           /\ \A g \in Forums : rows[g].stage = "none" => forums'[g] = Nothing
<1>1. forums' \in [Forums -> Records]
  BY DEF SetEntry, Shape, TypeOK
<1>2. late' \subseteq Forums /\ behind' \subseteq Forums
  BY DEF SetEntry, Shape, TypeOK
<1>3. ASSUME NEW g \in Forums, rows[g].stage = "none" PROVE forums'[g] = Nothing
  BY <1>3 DEF SetEntry, Shape, TypeOK, RowsFirst
<1> QED BY <1>1, <1>2, <1>3

LEMMA ShapeStep == ASSUME Shape, [Next]_vars PROVE Shape'
<1>1. ASSUME NEW t \in Threads, Fetch(t) PROVE Shape'
  <2> DEFINE f == my[t].f
             x == One("put", f, [Empty EXCEPT ![f] = rows[f]])
  <2>1. f \in Forums
    BY <1>1 DEF Fetch, At, Shape, Prepared
  <2>2. CASE Live(rows[f])
    <3>1. x \in Locals /\ x.at = "put" /\ x.f = f /\ x.snap[f] = rows[f]
          /\ \A g \in Forums : g # f => x.snap[g] = Nothing
      BY <2>1, NothingType DEF One, Locals, Empty, Labels, Shape, TypeOK
    <3>2. my' = [my EXCEPT ![t] = x] /\ creator' = creator
      BY <1>1, <2>2 DEF Fetch, Keep
    <3>3. UNCHANGED <<tables, memory, viewMarks, mapMarks>>
      BY <1>1 DEF Fetch
    <3> HIDE DEF x
    <3> QED BY <2>1, <2>2, <3>1, <3>2, <3>3, ShapeLocal, ZenonT(60) DEF Shape, TypeOK, RowsFirst, Live
  <2>3. CASE ~Live(rows[f])
    BY <1>1, <2>3, ReturnShape DEF Fetch, Shape, TypeOK
  <2> QED BY <2>2, <2>3
<1>2. ASSUME NEW t \in Threads, Put(t) PROVE Shape'
  <2> DEFINE f == my[t].f
  <2>1. f \in Forums /\ my[t].snap[f] \in Records
    BY <1>2 DEF Put, At, Shape, Prepared, TypeOK, Locals
  <2>2. rows[f].stage = "none" => my[t].snap[f] = Nothing
    BY <2>1 DEF Shape, RowsFirst
  <2>3. /\ forums' \in [Forums -> Records] /\ late' \subseteq Forums /\ behind' \subseteq Forums
        /\ \A g \in Forums : rows[g].stage = "none" => forums'[g] = Nothing
    BY <1>2, <2>1, <2>2, SetEntryType DEF Put
  <2>4. my' = [my EXCEPT ![t] = Many("range", Empty, Empty, Forums, {})]
    BY <1>2 DEF Put, Rebuild, Keep
  <2> QED BY <1>2, <2>3, <2>4, RangeType, ShapeLocal DEF Put, Shape, TypeOK
<1>3. ASSUME NEW t \in Threads, NEW f \in Forums, Create(t, f) PROVE Shape'
  <2>1. PICK stage \in {"shown", "hidden"} : Write(f, stage)
    BY <1>3 DEF Create
  <2>2. stage \in Stages \ {"none"} /\ "fetch" \in Labels
    BY DEF Stages, Labels
  <2>3. Shape /\ Execute /\ UNCHANGED <<memory, viewMarks, mapMarks>> /\ creator' \in Threads \cup {None}
    BY <1>3, <2>1, <2>2 DEF Create, Write
  <2>4. rows' = [rows EXCEPT ![f] = [stage |-> stage, ver |-> rows[f].ver + 1]] /\ GoOn(t, "fetch", f)
    BY <1>3, <2>1 DEF Create, Write
  <2> QED BY <2>2, <2>3, <2>4, WroteShape
<1>4. ASSUME NEW t \in Threads, NEW f \in Forums, Update(t, f) PROVE Shape'
  <2>1. PICK stage \in {"shown", "hidden"} : Write(f, stage)
    BY <1>4 DEF Update
  <2>2. stage \in Stages \ {"none"} /\ "fetch" \in Labels /\ creator' \in Threads \cup {None}
    BY <1>4 DEF Stages, Labels, Update, Shape, TypeOK
  <2>3. Shape /\ Execute /\ UNCHANGED <<memory, viewMarks, mapMarks>> /\ creator' \in Threads \cup {None}
    BY <1>4, <2>1, <2>2 DEF Update, Write
  <2>4. rows' = [rows EXCEPT ![f] = [stage |-> stage, ver |-> rows[f].ver + 1]] /\ GoOn(t, "fetch", f)
    BY <1>4, <2>1 DEF Update, Write
  <2> QED BY <2>2, <2>3, <2>4, WroteShape
<1>5. ASSUME NEW t \in Threads, NEW f \in Forums, Touch(t, f) PROVE Shape'
  <2>1. PICK label \in {"stmt", "fetch"} : GoOn(t, label, f)
    BY <1>5 DEF Touch
  <2>2. rows[f].stage \in Stages \ {"none"} /\ label \in Labels /\ creator' \in Threads \cup {None}
    BY <1>5 DEF Labels, Touch, Shape, TypeOK, Records
  <2> QED BY <1>5, <2>1, <2>2, WroteShape DEF Touch, Write
<1>6. ASSUME NEW t \in Threads, TouchAgain(t) PROVE Shape'
  <2>1. my[t].f \in Forums /\ rows[my[t].f].stage # "none"
    BY <1>6 DEF TouchAgain, At, Shape, Prepared
  <2>2. rows[my[t].f].stage \in Stages \ {"none"} /\ "fetch" \in Labels /\ creator' \in Threads \cup {None}
    BY <1>6, <2>1 DEF Labels, TouchAgain, Shape, TypeOK, Records
  <2> QED BY <1>6, <2>1, <2>2, WroteShape DEF TouchAgain, Write
<1>7. ASSUME NEW t \in Threads, GiveUp(t) PROVE Shape'
  <2>1. my[t].f \in Forums
    BY <1>7 DEF GiveUp, Shape, Prepared
  <2> QED BY <1>7, <2>1, ReturnShape DEF GiveUp, Abandon, Shape, TypeOK
<1>8. ASSUME NEW t \in Threads, NEW f \in Forums, Delete(t, f) PROVE Shape'
  <2>1. CASE Live(rows[f])
    <3>1. "blank" \in Stages \ {"none"} /\ "drop" \in Labels /\ creator' \in Threads \cup {None}
      BY <1>8 DEF Stages, Labels, Delete, Shape, TypeOK
    <3>2. rows' = [rows EXCEPT ![f] = [stage |-> "blank", ver |-> rows[f].ver + 1]]
      BY <1>8, <2>1 DEF Delete
    <3> QED BY <1>8, <3>1, <3>2, WroteShape DEF Delete
  <2>2. CASE ~Live(rows[f])
    BY <1>8, <2>2, GoOnShape DEF Delete, Execute
  <2> QED BY <2>1, <2>2
<1>9. ASSUME NEW t \in Threads, NEW f \in Forums, DeleteFails(t, f) PROVE Shape'
  BY <1>9, GoOnShape DEF DeleteFails, Execute
<1>10. ASSUME NEW t \in Threads, CacheDelete(t) PROVE Shape'
  <2> DEFINE f == my[t].f
  <2>1. f \in Forums
    BY <1>10 DEF CacheDelete, At, Shape, Prepared
  <2>2. /\ forums' \in [Forums -> Records] /\ late' \subseteq Forums /\ behind' \subseteq Forums
        /\ \A g \in Forums : rows[g].stage = "none" => forums'[g] = Nothing
    BY <1>10, <2>1, NothingType, SetEntryType DEF CacheDelete
  <2>3. my' = [my EXCEPT ![t] = Many("range", Empty, Empty, Forums, {})]
    BY <1>10 DEF CacheDelete, Rebuild, Keep
  <2> QED BY <1>10, <2>2, <2>3, RangeType, ShapeLocal DEF CacheDelete, Shape, TypeOK
<1>11. ASSUME NEW t \in Threads, NEW f \in Forums, GetMiss(t, f) PROVE Shape'
  BY <1>11, GoOnShape DEF GetMiss
<1>12. ASSUME NEW t \in Threads, UpdateOrder(t) PROVE Shape'
  <2>1. PICK fs \in SUBSET {f \in Forums : rows[f].stage # "none"} :
             Keep(t, Many("order", Empty, Empty, fs, {}))
    BY <1>12 DEF UpdateOrder
  <2> DEFINE x == Many("order", Empty, Empty, fs, {})
  <2>2. x \in Locals /\ x.at = "order" /\ x.left = fs /\ \A g \in Forums : x.snap[g] = Nothing
    BY NothingType, ManyType DEF Empty, Labels
  <2>3. my' = [my EXCEPT ![t] = x]
    BY <2>1 DEF Keep
  <2> HIDE DEF x
  <2> QED BY <1>12, <2>1, <2>2, <2>3, ShapeLocal DEF UpdateOrder, Shape, TypeOK, RowsFirst
<1>13. ASSUME NEW t \in Threads, NEW f \in Forums, OrderOne(t, f) PROVE Shape'
  <2> DEFINE x == Many("order", Empty, Empty, my[t].left \ {f}, {})
  <2>1. /\ x \in Locals /\ x.at = "order" /\ x.left \subseteq my[t].left /\ x.snap = Empty
        /\ rows[f].stage \in Stages \ {"none"} /\ creator' \in Threads \cup {None}
    <3>1. my[t] \in Locals /\ my[t].left \ {f} \in SUBSET Forums /\ "order" \in Labels
      BY DEF Shape, TypeOK, Locals, Labels
    <3>2. x \in Locals /\ x.at = "order" /\ x.left = my[t].left \ {f} /\ x.snap = Empty
      BY <3>1, NothingType, ManyType
    <3> QED BY <1>13, <3>2 DEF OrderOne, At, Shape, Prepared, TypeOK, Records
  <2>2. my' = [my EXCEPT ![t] = x]
    BY <1>13 DEF OrderOne, Keep
  <2>3. \A g \in Forums : rows[g].stage = "none" => x.snap[g] = Nothing
    BY <2>1 DEF Empty
  <2> HIDE DEF x
  <2> QED BY <1>13, <2>1, <2>2, <2>3, ShapeWrite, ZenonT(60) DEF OrderOne, Write, At
<1>14. ASSUME NEW t \in Threads, OrderFails(t) PROVE Shape'
  BY <1>14, ReturnShape DEF OrderFails, Abandon, Shape, TypeOK
<1>15. ASSUME NEW t \in Threads, LoadQuery(t) PROVE Shape'
  <2> DEFINE x == Many("rows", rows, Empty, {f \in Forums : rows[f].stage # "none"}, {})
  <2>1. x \in Locals /\ x.at = "rows" /\ x.snap = rows
    BY NothingType, ManyType DEF Labels, Shape, TypeOK
  <2>2. my' = [my EXCEPT ![t] = x]
    BY <1>15 DEF LoadQuery, Keep
  <2> HIDE DEF x
  <2> QED BY <1>15, <2>1, <2>2, ShapeLocal DEF LoadQuery, Shape, TypeOK, RowsFirst
<1>16. ASSUME NEW t \in Threads, NEW f \in Forums, LoadRow(t, f) PROVE Shape'
  <2> DEFINE x == Gathered(t, f, my[t].snap[f])
  <2>1. my[t].snap[f] \in Records /\ (rows[f].stage = "none" => my[t].snap[f] = Nothing)
    BY DEF Shape, TypeOK, Locals, RowsFirst
  <2>0. TypeOK /\ my[t].at = "rows"
    BY <1>16 DEF LoadRow, At, Shape
  <2>2. x \in Locals /\ x.at = "rows" /\ x.snap = my[t].snap
    <3>1. PICK r \in Records : r = my[t].snap[f]
      BY <2>1
    <3> QED BY <2>0, <3>1, GatheredType
  <2>3. my' = [my EXCEPT ![t] = x]
    BY <1>16 DEF LoadRow, Keep
  <2>4. /\ forums' \in [Forums -> Records] /\ late' \subseteq Forums /\ behind' \subseteq Forums
        /\ \A g \in Forums : rows[g].stage = "none" => forums'[g] = Nothing
    BY <1>16, <2>1, SetEntryType DEF LoadRow
  <2> HIDE DEF x
  <2>5. /\ UNCHANGED <<rows, writes>> /\ view' \in [Forums -> Records]
        /\ creator' \in Threads \cup {None} /\ overtaken' \subseteq Forums /\ cutShort' \subseteq Forums
        /\ \A g \in Forums : rows[g].stage = "none" => x.snap[g] = Nothing
    BY <1>16, <2>2 DEF LoadRow, Shape, TypeOK, RowsFirst
  <2> QED BY <2>2, <2>3, <2>4, <2>5, ShapeLocal
<1>17. ASSUME NEW t \in Threads, LoadFails(t) PROVE Shape'
  <2>1. my[t].left \subseteq Forums
    BY DEF Shape, TypeOK, Locals
  <2> QED BY <1>17, <2>1, ReturnShape DEF LoadFails, Abandon, Shape, TypeOK
<1>18. ASSUME NEW t \in Threads, NEW f \in Forums, Range(t, f) PROVE Shape'
  <2> DEFINE x == Gathered(t, f, forums[f])
  <2>0. TypeOK /\ forums[f] \in Records /\ my[t].at = "range"
    BY <1>18 DEF Range, At, Shape, TypeOK
  <2>1. x \in Locals /\ x.at = "range" /\ x.snap = my[t].snap
    <3>1. PICK r \in Records : r = forums[f]
      BY <2>0
    <3> QED BY <2>0, <3>1, GatheredType
  <2>2. my' = [my EXCEPT ![t] = x]
    BY <1>18 DEF Range, Keep
  <2> HIDE DEF x
  <2>3. /\ UNCHANGED <<rows, writes>> /\ view' \in [Forums -> Records] /\ forums' \in [Forums -> Records]
        /\ creator' \in Threads \cup {None} /\ overtaken' \subseteq Forums /\ cutShort' \subseteq Forums
        /\ late' \subseteq Forums /\ behind' \subseteq Forums
        /\ \A g \in Forums : rows[g].stage = "none" => forums'[g] = Nothing /\ x.snap[g] = Nothing
    BY <1>18, <2>1 DEF Range, Shape, TypeOK, RowsFirst
  <2> QED BY <2>1, <2>2, <2>3, ShapeLocal
<1>19. ASSUME NEW t \in Threads, Publish(t) PROVE Shape'
  <2>1. \A u \in Threads : my[u] \in Locals /\ Forums \in SUBSET Forums
    BY DEF Shape, TypeOK
  <2>2. \A u \in Threads : [my[u] EXCEPT !.passed = Forums] \in Locals
    BY <2>1 DEF Locals
  <2>3. my' \in [Threads -> Locals]
    BY <1>19, <2>1, <2>2, NothingType DEF Publish
  <2>4. view' \in [Forums -> Records] /\ creator' \in Threads \cup {None}
    BY <1>19, <2>1 DEF Publish, Shape, TypeOK, Locals
  <2>5. overtaken' \subseteq Forums /\ cutShort' \subseteq Forums /\ behind' \subseteq Forums
    BY <1>19, <2>1 DEF Publish, Abandon, Shape, TypeOK, Locals
  <2>6. TypeOK'
    BY <1>19, <2>3, <2>4, <2>5 DEF Publish, Shape, TypeOK
  <2>7. ASSUME NEW u \in Threads
        PROVE  \/ my'[u] = Idle
               \/ my'[u].at = my[u].at /\ my'[u].f = my[u].f /\ my'[u].snap = my[u].snap /\ my'[u].left = my[u].left
    BY <1>19, <2>1 DEF Publish, Locals
  <2>8. RowsFirst'
    BY <1>19, <2>7, IdleType DEF Publish, Shape, RowsFirst
  <2>9. ASSUME NEW u \in Threads PROVE Prepared(u)'
    BY <1>19, <2>7, IdleType DEF Publish, Shape, Prepared
  <2> QED BY <2>6, <2>8, <2>9 DEF Shape
<1>20. ASSUME UNCHANGED vars PROVE Shape'
  BY <1>20 DEF vars, Shape, TypeOK, RowsFirst, Prepared, Live
<1> QED BY <1>1, <1>2, <1>3, <1>4, <1>5, <1>6, <1>7, <1>8, <1>9, <1>10, <1>11, <1>12, <1>13, <1>14,
           <1>15, <1>16, <1>17, <1>18, <1>19, <1>20 DEF Next

\* ForumStore!TypeOK: the map, the view and every thread keep their types.
THEOREM TypeCorrect == Spec => []TypeOK
<1>1. Shape => TypeOK
  BY DEF Shape
<1> QED BY <1>1, ShapeInit, ShapeStep, PTL DEF Spec

-----------------------------------------------------------------------------
(* The view.  Besides what ViewHasCause says of the view it has to say it  *)
(* of what a thread has gathered: an entry that is wrong by now will be    *)
(* put right by somebody else, or that somebody has stored his view.       *)

Stale(t, f) ==
    /\ my[t].at \in {"range", "rows"}
    /\ f \notin my[t].left /\ f \notin my[t].passed
    /\ my[t].got[f] # Listed(forums[f])

Corrected(f) == (\E u \in Threads : Shows(u, f)) \/ f \in overtaken \cup cutShort

ViewInv ==
    \A f \in Forums :
      /\ view[f] # Listed(forums[f]) => Corrected(f)
      /\ \A t \in Threads : Stale(t, f) => Corrected(f)

\* A step of a thread that neither gathers before nor after it.
LEMMA ViewAside ==
    ASSUME Shape, ViewInv, NEW t \in Threads, my[t].at \notin {"range", "rows"},
           my'[t].at \notin {"range", "rows"}, \A u \in Threads \ {t} : my'[u] = my[u],
           UNCHANGED <<forums, view, viewMarks>>
    PROVE  ViewInv'
<1>1. ASSUME NEW u \in Threads, NEW f \in Forums PROVE Shows(u, f) => Shows(u, f)'
  BY DEF Shows, At
<1>2. ASSUME NEW u \in Threads, NEW f \in Forums PROVE Stale(u, f)' => Stale(u, f)
  BY DEF Stale
<1> QED BY <1>1, <1>2 DEF ViewInv, Corrected

\* A step that sets the entry of f, by a thread that will show it.
LEMMA ViewSet ==
    ASSUME Shape, ViewInv, NEW t \in Threads, NEW f \in Forums, NEW r,
           forums' = [forums EXCEPT ![f] = r], Shows(t, f)',
           \A g \in Forums \ {f} : Shows(t, g) => Shows(t, g)',
           \A g \in Forums \ {f} : Stale(t, g)' => Stale(t, g),
           \A u \in Threads \ {t} : my'[u] = my[u],
           UNCHANGED <<view, viewMarks>>
    PROVE  ViewInv'
<1>1. ASSUME NEW g \in Forums \ {f} PROVE forums'[g] = forums[g]
  BY DEF Shape, TypeOK
<1>2. ASSUME NEW u \in Threads, NEW g \in Forums \ {f} PROVE Shows(u, g) => Shows(u, g)'
  <2>1. CASE u = t
    BY <2>1
  <2>2. CASE u # t
    BY <2>2, <1>1 DEF Shows, At
  <2> QED BY <2>1, <2>2
<1>3. ASSUME NEW u \in Threads, NEW g \in Forums \ {f} PROVE Stale(u, g)' => Stale(u, g)
  <2>1. CASE u = t
    BY <2>1
  <2>2. CASE u # t
    BY <2>2, <1>1 DEF Stale
  <2> QED BY <2>1, <2>2
<1>4. Corrected(f)'
  BY DEF Corrected
<1>5. ASSUME NEW g \in Forums \ {f} PROVE Corrected(g) => Corrected(g)'
  BY <1>2 DEF Corrected
<1>6. ASSUME NEW g \in Forums, view'[g] # Listed(forums'[g]) PROVE Corrected(g)'
  BY <1>1, <1>4, <1>5, <1>6 DEF ViewInv
<1>7. ASSUME NEW g \in Forums, NEW u \in Threads, Stale(u, g)' PROVE Corrected(g)'
  BY <1>3, <1>4, <1>5, <1>7 DEF ViewInv
<1> QED BY <1>6, <1>7 DEF ViewInv

LEMMA ViewInit == Init => ViewInv
BY DEF Init, ViewInv, Stale, Idle, One

LEMMA ViewStep == ASSUME Shape, ViewInv, [Next]_vars PROVE ViewInv'
<1> USE DEF One, Many
<1>0. my \in [Threads -> Locals]
  BY DEF Shape, TypeOK
<1>1. ASSUME NEW t \in Threads, NEW f \in Forums,
             GetMiss(t, f) \/ Create(t, f) \/ Update(t, f) \/ Touch(t, f) \/ Delete(t, f) \/ DeleteFails(t, f)
      PROVE  ViewInv'
  <2>1. /\ my[t].at = "idle" /\ UNCHANGED <<forums, view, viewMarks>>
        /\ \E label \in {"stmt", "fetch", "drop"} : GoOn(t, label, f)
    BY <1>1 DEF GetMiss, Create, Update, Touch, Delete, DeleteFails, At
  <2>2. my'[t].at \in {"stmt", "fetch", "drop"} /\ \A u \in Threads \ {t} : my'[u] = my[u]
    BY <1>0, <2>1 DEF GoOn, Keep
  <2> QED BY <2>1, <2>2, ViewAside
<1>2. ASSUME NEW t \in Threads, Fetch(t) \/ TouchAgain(t) \/ GiveUp(t) \/ UpdateOrder(t) \/ OrderFails(t)
      PROVE  ViewInv'
  <2>1. my[t].at \notin {"range", "rows"} /\ UNCHANGED <<forums, view, viewMarks>>
    BY <1>2 DEF Fetch, TouchAgain, GiveUp, UpdateOrder, OrderFails, At
  <2>2. my'[t].at \notin {"range", "rows"} /\ \A u \in Threads \ {t} : my'[u] = my[u]
    <3>1. CASE Fetch(t)
      BY <1>0, <3>1 DEF Fetch, Keep, Return, Idle
    <3>2. CASE TouchAgain(t)
      BY <1>0, <3>2 DEF TouchAgain, Keep, GoOn
    <3>3. CASE GiveUp(t) \/ OrderFails(t)
      BY <1>0, <3>3 DEF GiveUp, OrderFails, Keep, Return, Idle
    <3>4. CASE UpdateOrder(t)
      BY <1>0, <3>4 DEF UpdateOrder, Keep
    <3> QED BY <1>2, <3>1, <3>2, <3>3, <3>4
  <2> QED BY <2>1, <2>2, ViewAside
<1>3. ASSUME NEW t \in Threads, NEW f \in Forums, OrderOne(t, f) PROVE ViewInv'
  <2>1. my[t].at = "order" /\ UNCHANGED <<forums, view, viewMarks>>
    BY <1>3 DEF OrderOne, At
  <2>2. my'[t].at = "order" /\ \A u \in Threads \ {t} : my'[u] = my[u]
    BY <1>0, <1>3 DEF OrderOne, Keep
  <2> QED BY <2>1, <2>2, ViewAside
<1>4. ASSUME NEW t \in Threads, Put(t) \/ CacheDelete(t) PROVE ViewInv'
  <2>1. PICK r : SetEntry(t, my[t].f, r)
    BY <1>4 DEF Put, CacheDelete
  <2>2. my[t].f \in Forums /\ my[t].at \notin {"range", "rows"}
    BY <1>4 DEF Put, CacheDelete, At, Shape, Prepared
  <2>3. PICK f \in Forums : f = my[t].f
    BY <2>2
  <2>4. my'[t].at = "range" /\ my'[t].left = Forums /\ \A u \in Threads \ {t} : my'[u] = my[u]
    BY <1>0, <1>4 DEF Put, CacheDelete, Rebuild, Keep
  <2>5. Shows(t, f)' /\ \A g \in Forums : Shows(t, g)' /\ ~Stale(t, g)'
    BY <2>4 DEF Shows, Stale, At
  <2>6. forums' = [forums EXCEPT ![f] = r] /\ UNCHANGED <<view, viewMarks>>
    BY <1>4, <2>1, <2>3 DEF Put, CacheDelete, SetEntry
  <2> QED BY <2>4, <2>5, <2>6, ViewSet
<1>5. ASSUME NEW t \in Threads, NEW f \in Forums, LoadRow(t, f) PROVE ViewInv'
  <2>1. PICK r : r = my[t].snap[f]
    OBVIOUS
  <2>2. forums' = [forums EXCEPT ![f] = r] /\ UNCHANGED <<view, viewMarks>>
    BY <1>5, <2>1 DEF LoadRow, SetEntry
  <2>3. /\ my[t].at = "rows" /\ my'[t].at = "rows" /\ my'[t].left = my[t].left \ {f}
        /\ my'[t].passed = my[t].passed \ {f} /\ my'[t].got = [my[t].got EXCEPT ![f] = Listed(r)]
        /\ \A u \in Threads \ {t} : my'[u] = my[u]
    BY <1>0, <1>5, <2>1 DEF LoadRow, At, Keep, Gathered
  <2>4. forums'[f] = r /\ my'[t].got[f] = Listed(r)
    BY <1>0, <2>2, <2>3 DEF Shape, TypeOK, Locals
  <2>5. Shows(t, f)'
    BY <2>3, <2>4 DEF Shows, At
  <2>6. ASSUME NEW g \in Forums \ {f} PROVE (Shows(t, g) => Shows(t, g)') /\ (Stale(t, g)' => Stale(t, g))
    <3>1. forums'[g] = forums[g] /\ my'[t].got[g] = my[t].got[g]
      BY <1>0, <2>2, <2>3 DEF Shape, TypeOK, Locals
    <3>2. Shows(t, g) => Shows(t, g)'
      BY <2>3, <3>1 DEF Shows, At
    <3>3. Stale(t, g)' => Stale(t, g)
      BY <2>3, <3>1 DEF Stale
    <3> QED BY <3>2, <3>3
  <2> QED BY <2>2, <2>3, <2>5, <2>6, ViewSet
<1>6. ASSUME NEW t \in Threads, LoadQuery(t) PROVE ViewInv'
  <2>1. /\ my[t].at = "order" /\ my'[t].at = "rows" /\ my'[t].got = Empty
        /\ my'[t].left = {f \in Forums : rows[f].stage # "none"}
        /\ \A u \in Threads \ {t} : my'[u] = my[u]
    BY <1>0, <1>6 DEF LoadQuery, At, Keep
  <2>2. UNCHANGED <<forums, view, viewMarks>>
    BY <1>6 DEF LoadQuery
  <2>3. ASSUME NEW f \in Forums PROVE ~Stale(t, f)'
    <3>1. CASE rows[f].stage = "none"
      <4>1. forums'[f] = Nothing /\ my'[t].got[f] = Nothing
        BY <2>1, <2>2, <3>1 DEF Shape, RowsFirst, Empty
      <4> QED BY <4>1 DEF Stale, Listed, Nothing
    <3>2. CASE rows[f].stage # "none"
      BY <2>1, <3>2 DEF Stale
    <3> QED BY <3>1, <3>2
  <2>4. ASSUME NEW u \in Threads, NEW f \in Forums PROVE (Shows(u, f) => Shows(u, f)') /\ (Stale(u, f)' => Stale(u, f))
    <3>1. CASE u = t
      BY <2>1, <2>3, <3>1 DEF Shows, At
    <3>2. CASE u # t
      <4>1. Shows(u, f) => Shows(u, f)'
        BY <2>1, <2>2, <3>2 DEF Shows, At
      <4>2. Stale(u, f)' => Stale(u, f)
        BY <2>1, <2>2, <3>2 DEF Stale
      <4> QED BY <4>1, <4>2
    <3> QED BY <3>1, <3>2
  <2> QED BY <2>2, <2>4 DEF ViewInv, Corrected
<1>7. ASSUME NEW t \in Threads, LoadFails(t) PROVE ViewInv'
  <2>1. /\ my[t].at = "rows" /\ my'[t].at = "idle" /\ cutShort' = cutShort \cup (Forums \ my[t].left)
        /\ UNCHANGED <<forums, view, overtaken>> /\ \A u \in Threads \ {t} : my'[u] = my[u]
    BY <1>0, <1>7 DEF LoadFails, At, Return, Keep, Idle
  <2>2. ASSUME NEW f \in Forums PROVE Corrected(f) => Corrected(f)'
    <3>1. ASSUME Shows(t, f) PROVE f \in cutShort'
      BY <2>1, <3>1 DEF Shows, At
    <3>2. ASSUME NEW u \in Threads \ {t}, Shows(u, f) PROVE Shows(u, f)'
      BY <2>1, <3>2 DEF Shows, At
    <3> QED BY <2>1, <3>1, <3>2 DEF Corrected
  <2>3. ASSUME NEW u \in Threads, NEW f \in Forums PROVE Stale(u, f)' => Stale(u, f)
    BY <2>1 DEF Stale
  <2> QED BY <2>1, <2>2, <2>3 DEF ViewInv
<1>8. ASSUME NEW t \in Threads, NEW f \in Forums, Range(t, f) PROVE ViewInv'
  <2>1. /\ my[t].at = "range" /\ my'[t].at = "range" /\ my'[t].left = my[t].left \ {f}
        /\ my'[t].passed = my[t].passed \ {f} /\ my'[t].got = [my[t].got EXCEPT ![f] = Listed(forums[f])]
        /\ UNCHANGED <<forums, view, viewMarks>> /\ \A u \in Threads \ {t} : my'[u] = my[u]
    BY <1>0, <1>8 DEF Range, At, Keep, Gathered
  <2>2. my'[t].got[f] = Listed(forums'[f])
    BY <1>0, <2>1 DEF Locals
  <2>3. ASSUME NEW u \in Threads, NEW g \in Forums PROVE (Shows(u, g) => Shows(u, g)') /\ (Stale(u, g)' => Stale(u, g))
    <3>1. CASE u = t /\ g = f
      BY <2>1, <2>2, <3>1 DEF Shows, Stale, At
    <3>2. CASE u = t /\ g # f
      <4>1. my'[t].got[g] = my[t].got[g] /\ forums'[g] = forums[g]
        BY <1>0, <2>1, <3>2 DEF Locals
      <4>2. Shows(t, g) => Shows(t, g)'
        BY <2>1, <3>2, <4>1 DEF Shows, At
      <4>3. Stale(t, g)' => Stale(t, g)
        BY <2>1, <3>2, <4>1 DEF Stale
      <4> QED BY <3>2, <4>2, <4>3
    <3>3. CASE u # t
      <4>1. Shows(u, g) => Shows(u, g)'
        BY <2>1, <3>3 DEF Shows, At
      <4>2. Stale(u, g)' => Stale(u, g)
        BY <2>1, <3>3 DEF Stale
      <4> QED BY <4>1, <4>2
    <3> QED BY <3>1, <3>2, <3>3
  <2> QED BY <2>1, <2>3 DEF ViewInv, Corrected
<1>9. ASSUME NEW t \in Threads, Publish(t) PROVE ViewInv'
  <2> DEFINE wrong == {f \in Forums : my[t].got[f] # Listed(forums[f])}
  <2>1. /\ my[t].at \in {"range", "rows"} /\ (my[t].at = "range" => my[t].left = {})
        /\ view' = my[t].got /\ forums' = forums
        /\ overtaken' = (overtaken \cup my[t].passed) \cap wrong
        /\ cutShort' = (cutShort \cup my[t].left) \cap wrong
    BY <1>9 DEF Publish, At
  <2>2. /\ my'[t] = Idle
        /\ \A u \in Threads \ {t} : /\ my'[u].at = my[u].at /\ my'[u].left = my[u].left /\ my'[u].got = my[u].got
                                    /\ my[u].at \in {"range", "rows"} => my'[u].passed = Forums
    BY <1>0, <1>9 DEF Publish, Locals
  <2>3. ASSUME NEW u \in Threads, NEW f \in Forums PROVE ~Stale(u, f)'
    <3>1. CASE u = t
      BY <2>2, <3>1, IdleType DEF Stale
    <3>2. CASE u # t
      BY <2>2, <3>2 DEF Stale
    <3> QED BY <3>1, <3>2
  <2>4. ASSUME NEW f \in Forums, view'[f] # Listed(forums'[f]) PROVE Corrected(f)'
    <3>1. f \in wrong
      BY <2>1, <2>4
    <3>2. CASE f \in my[t].passed \/ f \in my[t].left \/ f \in overtaken \cup cutShort
      BY <2>1, <3>1, <3>2 DEF Corrected
    <3>3. CASE f \notin my[t].passed /\ f \notin my[t].left /\ f \notin overtaken \cup cutShort
      <4>1. Stale(t, f)
        BY <2>1, <3>1, <3>3 DEF Stale
      <4>2. PICK u \in Threads : Shows(u, f)
        BY <3>3, <4>1 DEF ViewInv, Corrected
      <4>3. u # t
        BY <2>1, <3>1, <3>3, <4>2 DEF Shows, At
      <4>4. my'[u].at = my[u].at /\ my'[u].left = my[u].left /\ my'[u].got = my[u].got /\ forums' = forums
        BY <2>1, <2>2, <4>2, <4>3
      <4>5. Shows(u, f)'
        BY <4>2, <4>4 DEF Shows, At
      <4> QED BY <4>2, <4>5 DEF Corrected
    <3> QED BY <3>2, <3>3
  <2> QED BY <2>3, <2>4 DEF ViewInv
<1>10. ASSUME UNCHANGED vars PROVE ViewInv'
  BY <1>10 DEF vars, ViewInv, Corrected, Stale, Shows, At, Listed
<1> QED BY <1>1, <1>2, <1>3, <1>4, <1>5, <1>6, <1>7, <1>8, <1>9, <1>10 DEF Next

\* ForumStore!ViewHasCause: the view differs from the map only while somebody is
\* about to put it right, after an older rebuild, or after a load that ended early.
THEOREM ViewHasCauseAlways == Spec => []ViewHasCause
<1>1. ViewInv => ViewHasCause
  BY DEF ViewInv, ViewHasCause, Corrected
<1> QED BY <1>1, ShapeInit, ShapeStep, ViewInit, ViewStep, PTL DEF Spec

-----------------------------------------------------------------------------
(* The map.  MapHasCause is inductive with Shape: whoever was to reload a  *)
(* forum does so or is recorded.                                           *)

Excused(f) == (\E u \in Threads : Owes(u, f)) \/ f \in late \cup behind

\* A step of t that changes neither rows nor entries.
LEMMA MapAside ==
    ASSUME Shape, MapHasCause, NEW t \in Threads, \A u \in Threads \ {t} : my'[u] = my[u],
           UNCHANGED <<rows, forums>>, late \subseteq late', behind \subseteq behind',
           \A f \in Forums : Wrong(f) /\ Owes(t, f) =>
             Owes(t, f)' \/ (\E u \in Threads \ {t} : Owes(u, f)) \/ f \in behind'
    PROVE  MapHasCause'
<1>1. ASSUME NEW u \in Threads \ {t}, NEW f \in Forums PROVE Owes(u, f) => Owes(u, f)'
  BY DEF Owes, At
<1>2. ASSUME NEW f \in Forums PROVE Wrong(f)' => Wrong(f)
  BY DEF Wrong
<1>3. ASSUME NEW f \in Forums, Wrong(f)' PROVE Excused(f)'
  <2>1. Excused(f) /\ Wrong(f)
    BY <1>2, <1>3 DEF MapHasCause, Excused
  <2>2. CASE f \in late \cup behind
    BY <2>2 DEF Excused
  <2>3. CASE Owes(t, f)
    BY <1>1, <2>1, <2>3 DEF Excused
  <2>4. CASE \E u \in Threads \ {t} : Owes(u, f)
    BY <1>1, <2>4 DEF Excused
  <2> QED BY <2>1, <2>2, <2>3, <2>4 DEF Excused
<1> QED BY <1>3 DEF MapHasCause, Excused

\* A step of t that writes the row of f: t owes the reload, or the forum has been
\* deleted and stays so.
LEMMA MapWrite ==
    ASSUME Shape, MapHasCause, NEW t \in Threads, NEW f \in Forums, NEW stage,
           rows' = [rows EXCEPT ![f] = [stage |-> stage, ver |-> rows[f].ver + 1]],
           UNCHANGED <<forums, mapMarks>>, \A u \in Threads \ {t} : my'[u] = my[u],
           \A g \in Forums \ {f} : Owes(t, g) => Owes(t, g)',
           Owes(t, f)' \/ (~Live(rows[f]) /\ ~Live(rows'[f]) /\ ~Owes(t, f))
    PROVE  MapHasCause'
<1>1. ASSUME NEW g \in Forums \ {f} PROVE rows'[g] = rows[g]
  BY DEF Shape, TypeOK
<1>2. ASSUME NEW u \in Threads, NEW g \in Forums \ {f} PROVE Owes(u, g) => Owes(u, g)'
  <2>1. CASE u = t
    BY <2>1
  <2>2. CASE u # t
    BY <2>2, <1>1 DEF Owes, At
  <2> QED BY <2>1, <2>2
<1>3. ASSUME NEW g \in Forums \ {f}, Wrong(g)' PROVE Excused(g)'
  <2>1. Wrong(g)
    BY <1>1, <1>3 DEF Wrong
  <2> QED BY <1>2, <2>1 DEF MapHasCause, Excused
<1>4. ASSUME Wrong(f)' PROVE Excused(f)'
  <2>1. CASE Owes(t, f)'
    BY <2>1 DEF Excused
  <2>2. CASE ~Live(rows[f]) /\ ~Live(rows'[f]) /\ ~Owes(t, f)
    <3>1. Known(rows'[f]) = Known(rows[f])
      BY <2>2 DEF Known
    <3>2. Wrong(f)
      BY <1>4, <3>1 DEF Wrong
    <3>3. ASSUME NEW u \in Threads, Owes(u, f) PROVE Owes(u, f)'
      <4>1. u # t
        BY <2>2, <3>3
      <4>2. ~(my[u].at = "put" /\ my[u].f = f /\ my[u].snap[f] = rows[f])
        BY <2>2 DEF Shape, Prepared
      <4> QED BY <2>2, <3>1, <3>3, <4>1, <4>2 DEF Owes, At
    <3> QED BY <3>2, <3>3 DEF MapHasCause, Excused
  <2> QED BY <2>1, <2>2
<1> QED BY <1>3, <1>4 DEF MapHasCause, Excused

\* A step of t that sets the entry of f.
LEMMA MapSet ==
    ASSUME Shape, MapHasCause, NEW t \in Threads, NEW f \in Forums, NEW r, SetEntry(t, f, r),
           UNCHANGED rows, \A u \in Threads \ {t} : my'[u] = my[u],
           \A g \in Forums \ {f} : Owes(t, g) => Owes(t, g)'
    PROVE  MapHasCause'
<1>1. ASSUME NEW g \in Forums \ {f} PROVE forums'[g] = forums[g]
  BY DEF SetEntry, Shape, TypeOK
<1>2. ASSUME NEW u \in Threads \ {t}, NEW g \in Forums PROVE Owes(u, g) => Owes(u, g)'
  BY DEF Owes, At
<1>3. ASSUME NEW g \in Forums \ {f}, Wrong(g)' PROVE Excused(g)'
  <2>1. Wrong(g)
    BY <1>1, <1>3 DEF Wrong
  <2>2. (\E u \in Threads : Owes(u, g)) \/ g \in late \cup behind
    BY <2>1 DEF MapHasCause
  <2>3. g \in late \cup behind => g \in late' \cup behind'
    BY DEF SetEntry
  <2> QED BY <1>2, <2>2, <2>3 DEF Excused
<1>4. ASSUME Wrong(f)' PROVE Excused(f)'
  <2>1. forums'[f] = r
    BY DEF SetEntry, Shape, TypeOK
  <2>2. Known(r) # Known(rows[f])
    BY <1>4, <2>1 DEF Wrong
  <2>3. CASE \E u \in Threads \ {t} : Owes(u, f)
    BY <1>2, <2>3 DEF Excused
  <2>4. CASE ~\E u \in Threads \ {t} : Owes(u, f)
    BY <2>2, <2>4 DEF SetEntry, Excused
  <2> QED BY <2>3, <2>4
<1> QED BY <1>3, <1>4 DEF MapHasCause, Excused

LEMMA MapInit == Init => MapHasCause
BY DEF Init, MapHasCause, Wrong

LEMMA MapStep == ASSUME Shape, MapHasCause, [Next]_vars PROVE MapHasCause'
<1> USE DEF One, Many
<1>0. my \in [Threads -> Locals]
  BY DEF Shape, TypeOK
<1>1. ASSUME NEW t \in Threads, NEW f \in Forums, GetMiss(t, f) \/ DeleteFails(t, f) PROVE MapHasCause'
  <2>1. my[t].at = "idle" /\ UNCHANGED <<rows, forums, mapMarks>> /\ \A u \in Threads \ {t} : my'[u] = my[u]
    BY <1>0, <1>1 DEF GetMiss, DeleteFails, At, GoOn, Keep
  <2>2. \A g \in Forums : ~Owes(t, g)
    BY <2>1 DEF Owes, At
  <2> QED BY <2>1, <2>2, MapAside
<1>2. ASSUME NEW t \in Threads, UpdateOrder(t) PROVE MapHasCause'
  <2>1. my[t].at = "idle" /\ UNCHANGED <<rows, forums, mapMarks>> /\ \A u \in Threads \ {t} : my'[u] = my[u]
    BY <1>2 DEF UpdateOrder, At, Keep
  <2>2. \A g \in Forums : ~Owes(t, g)
    BY <2>1 DEF Owes, At
  <2> QED BY <2>1, <2>2, MapAside
<1>3. ASSUME NEW t \in Threads, Fetch(t) PROVE MapHasCause'
  <2>1. my[t].at = "fetch" /\ UNCHANGED <<rows, forums, mapMarks>> /\ \A u \in Threads \ {t} : my'[u] = my[u]
    BY <1>0, <1>3 DEF Fetch, At, Return, Keep
  <2>2. ASSUME NEW f \in Forums, Owes(t, f) PROVE Owes(t, f)'
    <3>1. f = my[t].f /\ Live(rows[f])
      BY <2>1, <2>2 DEF Owes, At
    <3>2. my'[t] = One("put", f, [Empty EXCEPT ![f] = rows[f]])
      BY <1>0, <1>3, <3>1 DEF Fetch, Keep
    <3>3. my'[t].at = "put" /\ my'[t].f = f /\ my'[t].snap[f] = rows[f]
      BY <3>2, NothingType DEF Empty
    <3> QED BY <2>1, <3>3 DEF Owes, At
  <2> QED BY <2>1, <2>2, MapAside
<1>4. ASSUME NEW t \in Threads, GiveUp(t) PROVE MapHasCause'
  <2>1. /\ my[t].at \in {"stmt", "fetch"} /\ UNCHANGED <<rows, forums, late>>
        /\ \A u \in Threads \ {t} : my'[u] = my[u] /\ Abandon(t, {my[t].f})
    BY <1>4 DEF GiveUp, Return, Keep
  <2>2. ASSUME NEW f \in Forums, Wrong(f), Owes(t, f)
        PROVE  (\E u \in Threads \ {t} : Owes(u, f)) \/ f \in behind'
    <3>1. f = my[t].f
      BY <2>1, <2>2 DEF Owes, At
    <3> QED BY <1>4, <2>2, <3>1 DEF GiveUp, Abandon
  <2>3. behind \subseteq behind'
    BY <1>4 DEF GiveUp, Abandon
  <2> QED BY <2>1, <2>2, <2>3, MapAside
<1>5. ASSUME NEW t \in Threads, OrderFails(t) PROVE MapHasCause'
  <2>1. UNCHANGED <<rows, forums, late>> /\ Abandon(t, Forums) /\ \A u \in Threads \ {t} : my'[u] = my[u]
    BY <1>5 DEF OrderFails, Return, Keep
  <2>2. ASSUME NEW f \in Forums, Wrong(f), Owes(t, f)
        PROVE  (\E u \in Threads \ {t} : Owes(u, f)) \/ f \in behind'
    BY <2>1, <2>2 DEF Abandon
  <2>3. behind \subseteq behind'
    BY <2>1 DEF Abandon
  <2> QED BY <2>1, <2>2, <2>3, MapAside
<1>6. ASSUME NEW t \in Threads, LoadFails(t) \/ Publish(t) PROVE MapHasCause'
  <2>1. /\ my[t].at \in {"rows", "range"} /\ UNCHANGED <<rows, forums, late>> /\ Abandon(t, my[t].left)
    BY <1>6 DEF LoadFails, Publish, At
  <2>2. ASSUME NEW f \in Forums, Wrong(f), Owes(t, f)
        PROVE  (\E u \in Threads \ {t} : Owes(u, f)) \/ f \in behind'
    <3>1. f \in my[t].left
      BY <2>1, <2>2 DEF Owes, At
    <3> QED BY <2>1, <2>2, <3>1 DEF Abandon
  <2>3. behind \subseteq behind'
    BY <2>1 DEF Abandon
  <2>4. ASSUME NEW u \in Threads \ {t}
        PROVE  my'[u].at = my[u].at /\ my'[u].f = my[u].f /\ my'[u].snap = my[u].snap /\ my'[u].left = my[u].left
    BY <1>0, <1>6 DEF LoadFails, Publish, Return, Keep, Locals
  <2>5. ASSUME NEW u \in Threads \ {t}, NEW f \in Forums PROVE Owes(u, f) => Owes(u, f)'
    BY <2>1, <2>4 DEF Owes, At
  <2>6. ASSUME NEW f \in Forums, Wrong(f)' PROVE Excused(f)'
    <3>1. Wrong(f)
      BY <2>1, <2>6 DEF Wrong
    <3>2. (\E u \in Threads : Owes(u, f)) \/ f \in late \cup behind
      BY <3>1 DEF MapHasCause
    <3>3. (\E u \in Threads \ {t} : Owes(u, f)) \/ f \in late' \cup behind'
      BY <2>1, <2>2, <2>3, <3>1, <3>2
    <3> QED BY <2>5, <3>3 DEF Excused
  <2> QED BY <2>6 DEF MapHasCause, Excused
<1>7. ASSUME NEW t \in Threads, LoadQuery(t) PROVE MapHasCause'
  <2>1. /\ UNCHANGED <<rows, forums, mapMarks>> /\ \A u \in Threads \ {t} : my'[u] = my[u]
        /\ my'[t].at = "rows" /\ my'[t].snap = rows /\ my'[t].left = {f \in Forums : rows[f].stage # "none"}
    BY <1>0, <1>7 DEF LoadQuery, Keep
  <2>2. ASSUME NEW f \in Forums, Wrong(f) PROVE Owes(t, f)'
    <3>1. rows[f].stage # "none"
      BY <2>2 DEF Wrong, Shape, RowsFirst
    <3> QED BY <2>1, <3>1 DEF Owes, At
  <2> QED BY <2>1, <2>2, MapAside
<1>8. ASSUME NEW t \in Threads, NEW f \in Forums, Range(t, f) PROVE MapHasCause'
  <2>1. UNCHANGED <<rows, forums, mapMarks>> /\ my[t].at = "range" /\ \A u \in Threads \ {t} : my'[u] = my[u]
    BY <1>8 DEF Range, At, Keep
  <2>2. \A g \in Forums : ~Owes(t, g)
    BY <2>1 DEF Owes, At
  <2> QED BY <2>1, <2>2, MapAside
<1>9. ASSUME NEW t \in Threads, Put(t) \/ CacheDelete(t) PROVE MapHasCause'
  <2>1. PICK r : SetEntry(t, my[t].f, r)
    BY <1>9 DEF Put, CacheDelete
  <2>2. my[t].at \in {"put", "drop"} /\ my[t].f \in Forums
    BY <1>9 DEF Put, CacheDelete, At, Shape, Prepared
  <2>3. PICK f \in Forums : f = my[t].f
    BY <2>2
  <2>4. UNCHANGED rows /\ \A u \in Threads \ {t} : my'[u] = my[u]
    BY <1>0, <1>9 DEF Put, CacheDelete, Rebuild, Keep
  <2>5. \A g \in Forums \ {f} : ~Owes(t, g)
    BY <2>2, <2>3 DEF Owes, At
  <2> QED BY <2>1, <2>3, <2>4, <2>5, MapSet
<1>10. ASSUME NEW t \in Threads, NEW f \in Forums, LoadRow(t, f) PROVE MapHasCause'
  <2>1. PICK r : r = my[t].snap[f]
    OBVIOUS
  <2>2. SetEntry(t, f, r) /\ UNCHANGED rows
    BY <1>10, <2>1 DEF LoadRow
  <2>3. /\ my[t].at = "rows" /\ my'[t].at = "rows" /\ my'[t].left = my[t].left \ {f}
        /\ my'[t].snap = my[t].snap /\ \A u \in Threads \ {t} : my'[u] = my[u]
    BY <1>0, <1>10 DEF LoadRow, At, Keep, Gathered
  <2>4. \A g \in Forums \ {f} : Owes(t, g) => Owes(t, g)'
    BY <2>2, <2>3 DEF Owes, At
  <2> QED BY <2>2, <2>3, <2>4, MapSet
<1>11. ASSUME NEW t \in Threads, NEW f \in Forums, Create(t, f) \/ Update(t, f) \/ Touch(t, f) PROVE MapHasCause'
  <2>1. PICK stage : Write(f, stage) /\ (stage \in {"shown", "hidden"} \/ stage = rows[f].stage)
    BY <1>11 DEF Create, Update, Touch
  <2>2. PICK label \in {"stmt", "fetch"} : GoOn(t, label, f)
    BY <1>11 DEF Create, Update, Touch
  <2>3. my[t].at = "idle" /\ UNCHANGED <<forums, mapMarks>>
    BY <1>11 DEF Create, Update, Touch, At
  <2>4. my'[t].at = label /\ my'[t].f = f /\ \A u \in Threads \ {t} : my'[u] = my[u]
    BY <1>0, <2>2 DEF GoOn, Keep
  <2>5. rows' = [rows EXCEPT ![f] = [stage |-> stage, ver |-> rows[f].ver + 1]] /\ rows'[f].stage = stage
    BY <2>1 DEF Write, Shape, TypeOK
  <2>6. \A g \in Forums : ~Owes(t, g)
    BY <2>3 DEF Owes, At
  <2>7. Owes(t, f)' \/ (~Live(rows[f]) /\ ~Live(rows'[f]))
    BY <2>1, <2>4, <2>5 DEF Owes, Live
  <2> QED BY <2>3, <2>4, <2>5, <2>6, <2>7, MapWrite
<1>12. ASSUME NEW t \in Threads, TouchAgain(t) PROVE MapHasCause'
  <2>1. my[t].at = "stmt" /\ my[t].f \in Forums
    BY <1>12 DEF TouchAgain, At, Shape, Prepared
  <2>2. PICK f \in Forums : f = my[t].f
    BY <2>1
  <2>3. PICK stage : stage = rows[f].stage
    OBVIOUS
  <2>4. /\ rows' = [rows EXCEPT ![f] = [stage |-> stage, ver |-> rows[f].ver + 1]] /\ rows'[f].stage = stage
        /\ UNCHANGED <<forums, mapMarks>>
    BY <1>12, <2>2, <2>3 DEF TouchAgain, Write, Shape, TypeOK
  <2>5. my'[t].at = "fetch" /\ my'[t].f = f /\ \A u \in Threads \ {t} : my'[u] = my[u]
    BY <1>0, <1>12, <2>2 DEF TouchAgain, GoOn, Keep
  <2>6. \A g \in Forums \ {f} : ~Owes(t, g)
    BY <2>1, <2>2 DEF Owes, At
  <2>7. Owes(t, f)' \/ (~Live(rows[f]) /\ ~Live(rows'[f]) /\ ~Owes(t, f))
    BY <2>1, <2>3, <2>4, <2>5 DEF Owes, At, Live
  <2> QED BY <2>4, <2>5, <2>6, <2>7, MapWrite
<1>13. ASSUME NEW t \in Threads, NEW f \in Forums, Delete(t, f) PROVE MapHasCause'
  <2>1. my[t].at = "idle" /\ UNCHANGED <<forums, mapMarks>>
    BY <1>13 DEF Delete, At
  <2>2. my'[t].at = "drop" /\ my'[t].f = f /\ \A u \in Threads \ {t} : my'[u] = my[u]
    BY <1>0, <1>13 DEF Delete, GoOn, Keep
  <2>3. \A g \in Forums : ~Owes(t, g)
    BY <2>1 DEF Owes, At
  <2>4. CASE Live(rows[f])
    <3>1. rows' = [rows EXCEPT ![f] = [stage |-> "blank", ver |-> rows[f].ver + 1]] /\ rows'[f].stage = "blank"
      BY <1>13, <2>4 DEF Delete, Shape, TypeOK
    <3>2. Owes(t, f)'
      BY <2>2, <3>1 DEF Owes, At, Live
    <3> QED BY <2>1, <2>2, <2>3, <3>1, <3>2, MapWrite
  <2>5. CASE ~Live(rows[f])
    <3>1. rows' = rows
      BY <1>13, <2>5 DEF Delete
    <3> QED BY <2>1, <2>2, <2>3, <3>1, MapAside
  <2> QED BY <2>4, <2>5
<1>14. ASSUME NEW t \in Threads, NEW f \in Forums, OrderOne(t, f) PROVE MapHasCause'
  <2>1. PICK stage : stage = rows[f].stage
    OBVIOUS
  <2>2. rows' = [rows EXCEPT ![f] = [stage |-> stage, ver |-> rows[f].ver + 1]] /\ UNCHANGED <<forums, mapMarks>>
    BY <1>14, <2>1 DEF OrderOne, Write
  <2>3. my'[t].at = "order" /\ \A u \in Threads \ {t} : my'[u] = my[u]
    BY <1>0, <1>14 DEF OrderOne, Keep
  <2>4. \A g \in Forums : Owes(t, g)'
    BY <2>3 DEF Owes, At
  <2> QED BY <2>2, <2>3, <2>4, MapWrite
<1>15. ASSUME UNCHANGED vars PROVE MapHasCause'
  BY <1>15 DEF vars, MapHasCause, Wrong, Owes, At, Known, Live
<1> QED BY <1>1, <1>2, <1>3, <1>4, <1>5, <1>6, <1>7, <1>8, <1>9, <1>10, <1>11, <1>12, <1>13, <1>14,
           <1>15 DEF Next

\* ForumStore!MapHasCause: the map differs from the table only while somebody is
\* about to reload or remove the forum, after a late read, or after a writer that
\* gave up.
THEOREM MapHasCauseAlways == Spec => []MapHasCause
BY ShapeInit, ShapeStep, MapInit, MapStep, PTL DEF Spec

\* ForumStore!QuietListsForums: with nobody in the store the view is that of the
\* table, but for the recorded causes.
THEOREM QuietListsForumsAlways == Spec => []QuietListsForums
<1>1. ASSUME ViewHasCause, MapHasCause PROVE QuietListsForums
  <2>1. SUFFICES ASSUME \A t \in Threads : At(t, "idle"),
                        NEW f \in Forums \ (overtaken \cup cutShort \cup late \cup behind)
                 PROVE  view[f] = Listed(rows[f])
    BY DEF QuietListsForums
  <2>2. \A t \in Threads : ~Owes(t, f) /\ ~Shows(t, f)
    BY <2>1 DEF Owes, Shows, At
  <2>3. Known(forums[f]) = Known(rows[f]) /\ view[f] = Listed(forums[f])
    BY <1>1, <2>1, <2>2 DEF ViewHasCause, MapHasCause, Wrong
  <2>4. Listed(forums[f]) = Listed(rows[f])
    BY <2>3 DEF Known, Listed, Live, Nothing
  <2> QED BY <2>3, <2>4
<1> QED BY <1>1, ViewHasCauseAlways, MapHasCauseAlways, PTL
=============================================================================
