------------------------- MODULE MeetingQueriesProofs -------------------------
(***************************************************************************)
(* Proofs about MeetingQueries: what a walk through the pages shows, for   *)
(* any number of meetings, any size of page and any number of changes made *)
(* while the pages are turned.                                             *)
(***************************************************************************)
EXTENDS MeetingQueries, FiniteSetTheorems, SequenceTheorems, TLAPS

(***************************************************************************)
(* What a walk keeps.  A meeting is found by how many meetings of the list *)
(* come before it: the pages turned so far are the first Position of them. *)
(***************************************************************************)
Ahead(S, m) == {n \in S \ {m} : Before(n, m)}
Untied(S) == \A m, n \in S : meetings[m].date = meetings[n].date => m = n
InOrder(s) == \A i, j \in 1..Len(s) : i < j => Before(s[i], s[j])

\* What the next answer of this request would be cut from.
List == IF at = "reading" THEN Wanted ELSE Listed(meetings)
Kept == Listed(meetings) \ upset.came
Position == (pageNo - 1) * input.pageSize
OnPage == {page[i] : i \in 1..Len(page)}

Calm == ~upset.tied /\ ~Tied(meetings)
Growing == Calm /\ upset.gone \cup upset.moved = {}
Shrinking == Calm /\ upset.came \cup upset.moved = {}

TypeInv ==
  /\ meetings \in [Ids -> Meeting] /\ Ids \subseteq Owned \cup Others
  /\ input \in Inputs
  /\ pageNo \in Nat \ {0}
  /\ seen \in Seq(Owned)
  /\ page # NotRead => page \in Seq(Owned) /\ at = "reading"
  /\ total # NotRead => total \in Nat
  /\ upset.n \in Nat

\* A meeting that was there all along has items if they were asked for.
Found == at = "reading" /\ input.hasTodos => Kept \subseteq withItems

\* A kept meeting not shown yet is not before the next page.
SkipInv == Growing =>
  /\ at = "reading" /\ input.hasTodos =>
       \A m \in withItems \cap Owned : m \in Ids /\ meetings[m].todo
  /\ at # "ended" /\ page = NotRead =>
       \A m \in Kept \ Shown : Position <= Cardinality(Ahead(List, m))
  /\ page # NotRead =>
       \A m \in Kept \ (Shown \cup OnPage) :
         /\ Len(page) = input.pageSize
         /\ Position + input.pageSize <= Cardinality(Ahead(Listed(meetings), m))
  /\ at = "ended" => Kept \subseteq Shown

\* A listed meeting already shown is before the next page.
RepeatInv == Shrinking =>
  /\ at = "reading" => Untied(Wanted)
  /\ at # "ended" /\ page = NotRead =>
       \A m \in List \cap Shown : Cardinality(Ahead(List, m)) < Position
  /\ page # NotRead =>
       /\ OnPage \cap Shown = {} /\ IsInjective(page)
       /\ \A m \in Listed(meetings) \cap (Shown \cup OnPage) :
            Cardinality(Ahead(Listed(meetings), m)) < Position + input.pageSize
  /\ IsInjective(seen)

\* Until something changes the answers are parts of one list.
WholeInv == Calm /\ upset.n = 0 =>
  /\ upset.came = {} /\ upset.gone = {} /\ upset.moved = {}
  /\ List = Listed(meetings)
  /\ Shown \subseteq Listed(meetings) /\ InOrder(seen)
  /\ page # NotRead => /\ OnPage \subseteq Listed(meetings) /\ InOrder(page)
                       /\ \A m \in Shown, n \in OnPage : Before(m, n)
  /\ total \in {NotRead, Cardinality(Listed(meetings))}
  /\ at = "ended" => total # NotRead

WalkInv == TypeInv /\ Found /\ SkipInv /\ RepeatInv /\ WholeInv

(***************************************************************************)
(* Lists                                                                   *)
(***************************************************************************)
\* What the client asks for has the types of the DTO.
LEMMA AskedFor ==
  ASSUME input \in Inputs
  PROVE  input.pageSize \in Nat \ {0} /\ input.hasTodos \in BOOLEAN
BY QueriesAssumption DEF PaginatedMeetingsDto

\* Both traits are passed if and only if they are counted as two.
LEMMA PassesBoth ==
  ASSUME NEW ms, NEW m
  PROVE  /\ "range" \in Passes(ms, m) <=> ms[m].date \in input.range
         /\ "todos" \in Passes(ms, m) <=> (~input.hasTodos \/ ms[m].todo)
         /\ Cardinality(Passes(ms, m)) = 2 <=>
              "range" \in Passes(ms, m) /\ "todos" \in Passes(ms, m)
<1> DEFINE R == ms[m].date \in input.range
           T == ~input.hasTodos \/ ms[m].todo
<1>1. Passes(ms, m) = (IF R THEN {"range"} ELSE {}) \cup (IF T THEN {"todos"} ELSE {})
  BY DEF Passes
<1> HIDE DEF R, T
<1>2. Cardinality({}) = 0 /\ IsFiniteSet({})  BY FS_EmptySet
<1>3. Cardinality({"range"}) = 1 /\ IsFiniteSet({"range"}) /\ Cardinality({"todos"}) = 1
  BY FS_Singleton
<1>4. Cardinality({"range"} \cup {"todos"}) = 2  BY <1>3, FS_AddElement
<1>5. "range" \in Passes(ms, m) <=> R  BY <1>1
<1>6. "todos" \in Passes(ms, m) <=> T  BY <1>1
<1>7. Cardinality(Passes(ms, m)) = 2 <=> R /\ T
  <2>1. CASE R /\ T  BY <2>1, <1>1, <1>4
  <2>2. CASE R /\ ~T
    <3>1. Passes(ms, m) = {"range"}  BY <2>2, <1>1
    <3> QED  BY <3>1, <2>2, <1>3
  <2>3. CASE ~R /\ T
    <3>1. Passes(ms, m) = {"todos"}  BY <2>3, <1>1
    <3> QED  BY <3>1, <2>3, <1>3
  <2>4. CASE ~R /\ ~T
    <3>1. Passes(ms, m) = {}  BY <2>4, <1>1
    <3> QED  BY <3>1, <2>4, <1>2
  <2> QED  BY <2>1, <2>2, <2>3, <2>4
<1> QED  BY <1>5, <1>6, <1>7 DEF R, T

\* What is listed: the user's meetings in range that have items if those are wanted.
LEMMA ListedIs ==
  ASSUME NEW ms
  PROVE  \A m : m \in Listed(ms) <=>
           /\ m \in Owned \cap DOMAIN ms
           /\ ms[m].date \in input.range
           /\ ~input.hasTodos \/ ms[m].todo
BY PassesBoth DEF Listed

\* What a request cuts its page from: the same, by the ids it found before.
LEMMA WantedIs ==
  ASSUME input \in Inputs
  PROVE  \A m : m \in Wanted <=>
           /\ m \in Owned \cap Ids
           /\ meetings[m].date \in input.range
           /\ input.hasTodos => m \in withItems
<1>1. input.hasTodos \in BOOLEAN  BY AskedFor
<1> QED  BY <1>1 DEF Wanted, Matching, InRange

\* All lists are of meetings the user has.
LEMMA Lists ==
  /\ \A ms : Listed(ms) \subseteq Owned /\ Listed(ms) \subseteq DOMAIN ms
  /\ Wanted \subseteq Owned /\ Wanted \subseteq Ids
  /\ List \subseteq Owned /\ List \subseteq Ids
BY DEF Listed, Wanted, Matching, List, Ids

\* The longer the list, the more there is ahead.
LEMMA MoreAhead ==
  ASSUME NEW S, NEW T \in SUBSET Owned, NEW m, S \subseteq T
  PROVE  /\ IsFiniteSet(T) /\ Cardinality(Ahead(T, m)) \in Nat
         /\ Cardinality(Ahead(S, m)) \in Nat
         /\ Cardinality(Ahead(S, m)) <= Cardinality(Ahead(T, m))
<1>1. IsFiniteSet(T)  BY FS_Subset, QueriesAssumption
<1>2. Ahead(T, m) \in SUBSET T /\ Ahead(S, m) \in SUBSET Ahead(T, m)  BY DEF Ahead
<1>3. IsFiniteSet(Ahead(T, m))  BY <1>1, <1>2, FS_Subset
<1>4. IsFiniteSet(Ahead(S, m)) /\ Cardinality(Ahead(S, m)) <= Cardinality(Ahead(T, m))
  BY <1>2, <1>3, FS_Subset
<1> QED  BY <1>1, <1>3, <1>4, FS_CardinalityType

\* Turning a page moves the position by its size.
LEMMA Turned ==
  ASSUME NEW k \in Nat \ {0}, NEW n \in Nat
  PROVE  (k - 1) * n \in Nat /\ k * n = (k - 1) * n + n /\ ((k + 1) - 1) * n = (k - 1) * n + n
OBVIOUS

(***************************************************************************)
(* Pages of a sorted list                                                  *)
(***************************************************************************)
\* Stored meetings have the types of their schema.
LEMMA DatesAreNumbers ==
  ASSUME TypeInv, NEW m \in Ids
  PROVE  meetings[m].date \in Nat /\ meetings[m].todo \in BOOLEAN
BY QueriesAssumption DEF TypeInv, Meeting

\* Without equal dates there is one order: the i-th meeting has i - 1 ahead of it.
LEMMA SortedIs ==
  ASSUME TypeInv, NEW S \in SUBSET (Owned \cap Ids), Untied(S), NEW s \in Sorted(S)
  PROVE  /\ s \in Seq(S) /\ Len(s) = Cardinality(S) /\ IsInjective(s) /\ InOrder(s)
         /\ \A m \in S : \E j \in 1..Len(s) : s[j] = m
         /\ \A j \in 1..Len(s) : Cardinality(Ahead(S, s[j])) = j - 1
<1> DEFINE n == Cardinality(S)
<1>1. IsFiniteSet(S) /\ n \in Nat  BY QueriesAssumption, FS_Subset, FS_CardinalityType
<1>2. s \in [1..n -> S] /\ \A i, j \in 1..n : i # j => s[i] # s[j]
  BY DEF Sorted, SetToSeqs
<1> HIDE DEF n
<1>3. s \in Seq(S) /\ Len(s) = n
  <2>1. s \in UNION {[1..k -> S] : k \in Nat}  BY <1>1, <1>2
  <2>2. s \in Seq(S)  BY <2>1, SeqDef
  <2>3. Len(s) \in Nat /\ DOMAIN s = 1..Len(s)  BY <2>2, LenProperties
  <2>4. DOMAIN s = 1..n  BY <1>2
  <2>5. ASSUME NEW k \in Nat PROVE Cardinality(1..k) = k
    <3>1. Cardinality(1..k) = IF 1 > k THEN 0 ELSE k - 1 + 1  BY FS_Interval
    <3> QED  BY <3>1
  <2>6. Len(s) = n  BY <2>3, <2>4, <2>5, <1>1
  <2> QED  BY <2>2, <2>6
<1>4. IsInjective(s)  BY <1>2 DEF IsInjective
<1>5. InOrder(s)  BY <1>3 DEF Sorted, InOrder
<1>6. \A m \in S : \E j \in 1..n : s[j] = m
  <2>1. s \in Injection(1..n, S)  BY <1>2, <1>4 DEF Injection
  <2>2. Cardinality(1..n) = n  BY <1>1, FS_Interval
  <2>3. s \in Surjection(1..n, S)  BY <2>1, <2>2, <1>1, FS_Injection DEF n
  <2> QED  BY <2>3 DEF Surjection
<1>7. ASSUME NEW j \in 1..n  PROVE Cardinality(Ahead(S, s[j])) = j - 1
  <2> DEFINE A == Ahead(S, s[j])
             b == [i \in 1..(j-1) |-> s[i]]
  <2>1. j - 1 \in Nat  BY <1>1
  <2>2. ASSUME NEW i \in 1..n, Before(s[i], s[j]), i # j  PROVE i < j
    <3>1. SUFFICES ASSUME j < i PROVE FALSE  BY <2>2, <1>1
    <3>2. Before(s[j], s[i])  BY <3>1, <1>3, <1>5 DEF InOrder
    <3>3. s[i] \in S /\ s[j] \in S /\ s[i] # s[j]  BY <2>2, <1>2
    <3>4. meetings[s[i]].date \in Nat /\ meetings[s[j]].date \in Nat
      BY <3>3, DatesAreNumbers
    <3>5. meetings[s[i]].date = meetings[s[j]].date  BY <3>2, <3>4, <2>2 DEF Before
    <3> QED  BY <3>3, <3>5 DEF Untied
  <2>3. ASSUME NEW i \in 1..(j-1)  PROVE s[i] \in A
    <3>1. i \in 1..n /\ i < j  BY <1>1
    <3>2. Before(s[i], s[j])  BY <3>1, <1>3, <1>5 DEF InOrder
    <3> QED  BY <3>1, <3>2, <1>2 DEF Ahead
  <2>4. ASSUME NEW m \in A  PROVE \E i \in 1..(j-1) : s[i] = m
    <3>1. m \in S /\ m # s[j] /\ Before(m, s[j])  BY DEF Ahead
    <3>2. PICK i \in 1..n : s[i] = m  BY <3>1, <1>6
    <3>3. i < j  BY <3>1, <3>2, <2>2
    <3> QED  BY <3>2, <3>3, <1>1
  <2> HIDE DEF A
  <2>5. \A i \in 1..(j-1) : i \in 1..n  BY <1>1
  <2>6. b \in Bijection(1..(j-1), A)
    <3>1. b \in [1..(j-1) -> A]  BY <2>3
    <3>2. IsInjective(b)  BY <2>5, <1>2 DEF IsInjective
    <3>3. \A m \in A : \E i \in 1..(j-1) : b[i] = m  BY <2>4
    <3> QED  BY <3>1, <3>2, <3>3 DEF Bijection, Injection, Surjection
  <2>7. Cardinality(A) = j - 1  BY <2>6, <2>1, FS_CountingElements DEF ExistsBijection
  <2> QED  BY <2>7 DEF A
<1> QED  BY <1>3, <1>4, <1>5, <1>6, <1>7 DEF n

\* A page is the next pageSize meetings of the list, as far as there are some.
LEMMA PageIs ==
  ASSUME TypeInv, NEW S, NEW s \in Seq(S)
  PROVE  /\ SkipLimit(s) \in Seq(S) /\ Position \in Nat
         /\ Len(SkipLimit(s)) <= input.pageSize
         /\ Len(SkipLimit(s)) < input.pageSize => Len(s) < Position + input.pageSize
         /\ \A i \in 1..Len(SkipLimit(s)) :
              Position + i \in 1..Len(s) /\ SkipLimit(s)[i] = s[Position + i]
         /\ \A j \in 1..Len(s) : Position < j /\ j <= Position + input.pageSize =>
              \E i \in 1..Len(SkipLimit(s)) : SkipLimit(s)[i] = s[j]
<1> DEFINE z == input.pageSize
           a == Position + 1
           b == Min({Len(s), pageNo * z})
<1>1. z \in Nat \ {0} /\ pageNo \in Nat \ {0}  BY AskedFor DEF TypeInv
<1>2. Position \in Nat /\ pageNo * z = Position + z  BY <1>1, Turned DEF Position
<1>3. Len(s) \in Nat /\ \A i \in 1..Len(s) : s[i] \in S  BY LenProperties
<1> HIDE DEF z
<1>4. /\ b = IF Len(s) <= Position + z THEN Len(s) ELSE Position + z
      /\ b \in Nat
  <2> DEFINE p == Position + z
  <2>1. p \in Nat  BY <1>1, <1>2
  <2>2. b = Min({Len(s), p})  BY <1>2
  <2> HIDE DEF p
  <2>3. Min({Len(s), p}) = IF Len(s) <= p THEN Len(s) ELSE p
    <3> DEFINE q == IF Len(s) <= p THEN Len(s) ELSE p
    <3>1. q \in {Len(s), p} /\ \A y \in {Len(s), p} : q <= y  BY <1>3, <2>1
    <3>2. \A x \in {Len(s), p} : (\A y \in {Len(s), p} : x <= y) => x = q
      BY <1>3, <2>1
    <3> QED  BY <3>1, <3>2, Zenon DEF Min
  <2> QED  BY <2>1, <2>2, <2>3, <1>3 DEF p
<1> HIDE DEF b
<1>5. SkipLimit(s) = SubSeq(s, a, b)  BY DEF SkipLimit, Position, b, z
<1>6. /\ SubSeq(s, a, b) \in Seq(S)
      /\ Len(SubSeq(s, a, b)) = IF a <= b THEN b - a + 1 ELSE 0
      /\ \A i \in 1..(b - a + 1) : SubSeq(s, a, b)[i] = s[a + i - 1]
  <2>1. a \in Int /\ b \in Int  BY <1>2, <1>4
  <2>2. \A i \in a..b : s[i] \in S  BY <1>2, <1>3, <1>4
  <2> HIDE DEF a
  <2> QED  BY <2>1, <2>2, SubSeqProperties
<1> DEFINE g == SkipLimit(s)
<1>7. g \in Seq(S) /\ Len(g) = IF a <= b THEN b - a + 1 ELSE 0  BY <1>5, <1>6
<1>8. Len(g) <= z /\ (Len(g) < z => Len(s) < Position + z)  BY <1>1, <1>2, <1>3, <1>4, <1>7
<1>9. ASSUME NEW i \in 1..Len(g)  PROVE Position + i \in 1..Len(s) /\ g[i] = s[Position + i]
  <2>1. i \in 1..(b - a + 1) /\ Position + i \in 1..Len(s)  BY <1>1, <1>2, <1>3, <1>4, <1>7
  <2>2. g[i] = s[a + i - 1]  BY <2>1, <1>5, <1>6
  <2>3. a + i - 1 = Position + i  BY <2>1, <1>2
  <2> QED  BY <2>1, <2>2, <2>3
<1>10. ASSUME NEW j \in 1..Len(s), Position < j, j <= Position + z
       PROVE  \E i \in 1..Len(g) : g[i] = s[j]
  <2>1. j - Position \in 1..Len(g) /\ Position + (j - Position) = j
    BY <1>1, <1>2, <1>3, <1>4, <1>7, <1>10
  <2>2. g[j - Position] = s[j]  BY <2>1, <1>9
  <2> QED  BY <2>1, <2>2
<1> QED  BY <1>2, <1>7, <1>8, <1>9, <1>10 DEF z

(***************************************************************************)
(* Types and the first page                                                *)
(***************************************************************************)
\* A walk starts well typed.
LEMMA InitTyped == Init => TypeInv
<1> SUFFICES ASSUME Init PROVE TypeInv  OBVIOUS
<1>1. PICK S \in SUBSET Owned : \E mine \in [S -> Meeting] :
        meetings = [m \in S \cup Others |-> IF m \in S THEN mine[m] ELSE Theirs[m]]
  BY DEF Init
<1>2. meetings \in [S \cup Others -> Meeting]  BY <1>1, QueriesAssumption
<1>3. Ids = S \cup Others  BY <1>1 DEF Ids
<1>4. <<>> \in Seq(Owned)  BY EmptySeq
<1> QED  BY <1>2, <1>3, <1>4 DEF Init, TypeInv

\* Nothing is shown and nothing can have been missed when a walk starts.
LEMMA InitWalk == Init => WalkInv
<1> SUFFICES ASSUME Init PROVE WalkInv  OBVIOUS
<1>1. TypeInv  BY InitTyped
<1>2. at = "asking" /\ page = NotRead /\ total = NotRead /\ seen = <<>> /\ pageNo = 1
  BY DEF Init
<1>3. upset.came = {} /\ upset.gone = {} /\ upset.moved = {}  BY DEF Init
<1>4. Shown = {} /\ IsInjective(seen) /\ InOrder(seen) /\ Len(seen) = 0
  BY <1>2, EmptySeq DEF Shown, IsInjective, InOrder
<1>5. Position = 0  BY <1>1, <1>2, Turned, AskedFor DEF Position, TypeInv
<1>6. List = Listed(meetings)  BY <1>2 DEF List
<1>7. SkipInv
  <2>1. \A m : 0 <= Cardinality(Ahead(List, m))  BY Lists, MoreAhead
  <2> QED  BY <2>1, <1>2, <1>5 DEF SkipInv
<1>8. RepeatInv  BY <1>2, <1>4 DEF RepeatInv
<1>9. WholeInv  BY <1>2, <1>3, <1>4, <1>6 DEF WholeInv
<1> QED  BY <1>1, <1>2, <1>7, <1>8, <1>9 DEF WalkInv, Found

\* Every step of a request keeps the types.
LEMMA RequestTyped == TypeInv /\ Request => TypeInv'
<1> SUFFICES ASSUME TypeInv, Request PROVE TypeInv'  OBVIOUS
<1>1. Ids' = DOMAIN meetings' /\ meetings' = meetings /\ input' = input /\ upset' = upset
  BY DEF Request, FindUserMeetings, FindTodos, ReadPage, CountMeetings, ShowPage, Ids
<1>2. /\ meetings' \in [Ids' -> Meeting] /\ Ids' \subseteq Owned \cup Others
      /\ input' \in Inputs /\ upset'.n \in Nat
  BY <1>1 DEF TypeInv, Ids
<1>3. CASE FindUserMeetings \/ FindTodos
  BY <1>2, <1>3 DEF TypeInv, FindUserMeetings, FindTodos
<1>4. CASE ReadPage
  <2>1. PICK s \in Sorted(Wanted) : page' = SkipLimit(s)  BY <1>4 DEF ReadPage
  <2>2. s \in [1..Cardinality(Wanted) -> Wanted]  BY DEF Sorted, SetToSeqs
  <2>3. Cardinality(Wanted) \in Nat
    BY Lists, QueriesAssumption, FS_Subset, FS_CardinalityType
  <2>4. s \in [1..Cardinality(Wanted) -> Owned]  BY <2>2, Lists
  <2>5. s \in Seq(Owned)
    <3> DEFINE k == Cardinality(Wanted)
    <3>1. k \in Nat /\ s \in [1..k -> Owned]  BY <2>3, <2>4
    <3> HIDE DEF k
    <3>2. s \in UNION {[1..j -> Owned] : j \in Nat}  BY <3>1
    <3> QED  BY <3>2, SeqDef
  <2>6. page' \in Seq(Owned)  BY <2>1, <2>5, PageIs
  <2> QED  BY <1>2, <1>4, <2>6 DEF TypeInv, ReadPage
<1>5. CASE CountMeetings
  <2>1. Cardinality(Wanted) \in Nat
    BY Lists, QueriesAssumption, FS_Subset, FS_CardinalityType
  <2> QED  BY <1>2, <1>5, <2>1 DEF TypeInv, CountMeetings
<1>6. CASE ShowPage
  <2>1. seen' \in Seq(Owned)  BY <1>6, ConcatProperties DEF ShowPage, TypeInv
  <2>2. page' = NotRead /\ total' = total  BY <1>6 DEF ShowPage
  <2>3. pageNo' \in Nat \ {0}  BY <1>6 DEF ShowPage, TypeInv
  <2> QED  BY <1>2, <2>1, <2>2, <2>3 DEF TypeInv
<1> QED  BY <1>3, <1>4, <1>5, <1>6 DEF Request

\* A change is one of four, and all keep the type of the collection.
LEMMA ChangeTyped ==
  ASSUME TypeInv, CreateMeeting \/ UpdateMeeting \/ DeleteMeeting \/ ChangeItems
  PROVE  TypeInv' /\ Changes(meetings')
<1>1. \A ms : Changes(ms) => Changes(meetings') /\ meetings' = ms  BY DEF Changes
<1>2. ASSUME NEW ms, Changes(ms), NEW D \in SUBSET (Owned \cup Others), ms \in [D -> Meeting]
      PROVE  TypeInv' /\ Changes(meetings')
  <2>1. meetings' = ms /\ UNCHANGED request /\ upset'.n = upset.n + 1
    BY <1>2 DEF Changes
  <2>2. Ids' = D  BY <1>2, <2>1 DEF Ids
  <2> QED  BY <1>1, <1>2, <2>1, <2>2 DEF TypeInv, request
<1>3. meetings \in [Ids -> Meeting] /\ Ids \subseteq Owned \cup Others  BY DEF TypeInv
<1>4. CASE CreateMeeting
  <2> DEFINE ms(m, d) == [n \in Ids \cup {m} |-> IF n = m THEN [date |-> d, todo |-> FALSE]
                                                        ELSE meetings[n]]
  <2>1. PICK m \in Owned \ Ids, d \in Dates : Changes(ms(m, d))
    BY <1>4 DEF CreateMeeting
  <2>2. [date |-> d, todo |-> FALSE] \in Meeting  BY DEF Meeting
  <2>3. ms(m, d) \in [Ids \cup {m} -> Meeting]  BY <2>2, <1>3
  <2> HIDE DEF ms
  <2>4. Ids \cup {m} \in SUBSET (Owned \cup Others)  BY <1>3
  <2> QED  BY <2>1, <2>3, <2>4, <1>2
<1>5. CASE UpdateMeeting
  <2>1. PICK m \in Owned \cap Ids, d \in Dates : Changes([meetings EXCEPT ![m].date = d])
    BY <1>5 DEF UpdateMeeting
  <2>2. [meetings EXCEPT ![m].date = d] \in [Ids -> Meeting]  BY <1>3 DEF Meeting
  <2> QED  BY <2>1, <2>2, <1>2, <1>3
<1>6. CASE DeleteMeeting
  <2>1. PICK m \in Owned \cap Ids : Changes(Restrict(meetings, Ids \ {m}))
    BY <1>6 DEF DeleteMeeting
  <2>2. Restrict(meetings, Ids \ {m}) \in [Ids \ {m} -> Meeting]  BY <1>3 DEF Restrict
  <2> QED  BY <2>1, <2>2, <1>2, <1>3
<1>7. CASE ChangeItems
  <2>1. PICK m \in Owned \cap Ids : Changes([meetings EXCEPT ![m].todo = ~@])
    BY <1>7 DEF ChangeItems
  <2>2. [meetings EXCEPT ![m].todo = ~@] \in [Ids -> Meeting]  BY <1>3 DEF Meeting
  <2> QED  BY <2>1, <2>2, <1>2, <1>3
<1> QED  BY <1>4, <1>5, <1>6, <1>7

(***************************************************************************)
(* Requests                                                                *)
(***************************************************************************)
\* Lists and their order depend on the collection and the input only.
LEMMA SameList ==
  ASSUME UNCHANGED <<meetings, input>>
  PROVE  /\ Ids' = Ids /\ Listed(meetings)' = Listed(meetings)
         /\ \A m, n : Before(m, n)' <=> Before(m, n)
         /\ \A S, m : Ahead(S, m)' = Ahead(S, m)
         /\ \A S : Untied(S)' <=> Untied(S)
         /\ Tied(meetings)' <=> Tied(meetings)
<1>1. Ids' = Ids /\ meetings' = meetings /\ input' = input  BY DEF Ids
<1>2. \A m, n : Before(m, n)' <=> Before(m, n)  BY <1>1 DEF Before
<1>3. \A S, m : Ahead(S, m)' = Ahead(S, m)  BY <1>2 DEF Ahead
<1>4. \A S : Untied(S)' <=> Untied(S)  BY <1>1 DEF Untied
<1>5. Listed(meetings)' = Listed(meetings)  BY <1>1 DEF Listed, Passes
<1>6. Tied(meetings)' <=> Tied(meetings)  BY <1>1, <1>5 DEF Tied
<1> QED  BY <1>1, <1>2, <1>3, <1>4, <1>5, <1>6

\* What kind of walk it is depends on these and on what has changed.
LEMMA SameWalk ==
  ASSUME UNCHANGED <<meetings, input, upset>>
  PROVE  /\ Kept' = Kept /\ (Calm' <=> Calm)
         /\ (Growing' <=> Growing) /\ (Shrinking' <=> Shrinking)
BY SameList DEF Kept, Calm, Growing, Shrinking

\* A request that has not asked for a page yet has the list before it.
LEMMA BegunStep ==
  ASSUME WalkInv, at \in {"asking", "todos"}, at' \in {"todos", "reading"},
         UNCHANGED <<meetings, input, pageNo, page, seen, upset>>,
         total' \in {total, NotRead},
         at' = "reading" => ~input.hasTodos \/ withItems' = {m \in Ids : meetings[m].todo}
  PROVE  Found' /\ SkipInv' /\ RepeatInv' /\ WholeInv'
<1>1. page = NotRead /\ page' = NotRead /\ List = Listed(meetings)
  BY DEF WalkInv, TypeInv, List
<1>2. Shown' = Shown /\ Position' = Position  BY DEF Shown, Position
<1>3. /\ Kept' = Kept /\ (Calm' <=> Calm)
      /\ (Growing' <=> Growing) /\ (Shrinking' <=> Shrinking)
  BY SameWalk
<1>4. /\ Ids' = Ids /\ Listed(meetings)' = Listed(meetings)
      /\ \A S, m : Ahead(S, m)' = Ahead(S, m)
      /\ \A S : Untied(S)' <=> Untied(S)
      /\ \A m, n : Before(m, n)' <=> Before(m, n)
  BY SameList
<1>5. input \in Inputs /\ input' = input /\ meetings' = meetings  BY DEF WalkInv, TypeInv
<1>6. at' = "reading" => Wanted' = Listed(meetings)
  <2>1. SUFFICES ASSUME at' = "reading" PROVE \A m : m \in Wanted' <=> m \in Listed(meetings)
    OBVIOUS
  <2>2. \A m : m \in Wanted' <=>
          /\ m \in Owned \cap Ids
          /\ meetings[m].date \in input.range
          /\ input.hasTodos => m \in withItems'
    BY <1>4, <1>5, AskedFor DEF Wanted, Matching, InRange
  <2> QED  BY <2>1, <2>2, <1>5, AskedFor, ListedIs DEF Ids
<1>7. List' = Listed(meetings)  BY <1>4, <1>6 DEF List
<1>8. Found'
  <2>1. SUFFICES ASSUME at' = "reading", input.hasTodos PROVE Kept \subseteq withItems'
    BY <1>3, <1>5 DEF Found
  <2> QED  BY <2>1, <1>5, AskedFor, ListedIs DEF Kept, Ids
<1>9. SkipInv'
  <2>1. SUFFICES ASSUME Growing
                 PROVE  /\ at' = "reading" /\ input.hasTodos =>
                             \A m \in withItems' \cap Owned : m \in Ids /\ meetings[m].todo
                        /\ \A m \in Kept \ Shown : Position <= Cardinality(Ahead(List, m))
    BY <1>1, <1>2, <1>3, <1>4, <1>5, <1>7 DEF SkipInv
  <2>2. at' = "reading" /\ input.hasTodos =>
          \A m \in withItems' \cap Owned : m \in Ids /\ meetings[m].todo
    BY <1>5, AskedFor
  <2> QED  BY <2>1, <2>2, <1>1 DEF WalkInv, SkipInv
<1>10. RepeatInv'
  <2>1. SUFFICES ASSUME Shrinking
                 PROVE  /\ Untied(Listed(meetings)) /\ IsInjective(seen)
                        /\ \A m \in List \cap Shown : Cardinality(Ahead(List, m)) < Position
    BY <1>1, <1>2, <1>3, <1>4, <1>6, <1>7 DEF RepeatInv
  <2>2. Untied(Listed(meetings))  BY <2>1 DEF Shrinking, Calm, Tied, Untied
  <2> QED  BY <2>1, <2>2, <1>1 DEF WalkInv, RepeatInv
<1>11. WholeInv'
  <2>1. SUFFICES ASSUME Calm, upset.n = 0
                 PROVE  /\ upset.came = {} /\ upset.gone = {} /\ upset.moved = {}
                        /\ Shown \subseteq Listed(meetings) /\ InOrder(seen)
                        /\ total' \in {NotRead, Cardinality(Listed(meetings))}
    <3>1. InOrder(seen)' <=> InOrder(seen)  BY <1>4 DEF InOrder
    <3> QED  BY <2>1, <3>1, <1>1, <1>2, <1>3, <1>4, <1>7 DEF WholeInv
  <2> QED  BY <2>1 DEF WalkInv, WholeInv
<1> QED  BY <1>8, <1>9, <1>10, <1>11

\* A request that begins changes no list.
LEMMA FindUserMeetingsStep ==
  WalkInv /\ FindUserMeetings => Found' /\ SkipInv' /\ RepeatInv' /\ WholeInv'
<1> SUFFICES ASSUME WalkInv, FindUserMeetings
             PROVE  Found' /\ SkipInv' /\ RepeatInv' /\ WholeInv'
  OBVIOUS
<1>1. at = "asking" /\ at' \in {"todos", "reading"} /\ (at' = "reading" => ~input.hasTodos)
  BY DEF FindUserMeetings
<1>2. UNCHANGED <<meetings, input, pageNo, page, seen, upset>> /\ total' = NotRead
  BY DEF FindUserMeetings
<1> QED  BY <1>1, <1>2, BegunStep

\* Just after they are found, the ids with items are those listed.
LEMMA FindTodosStep ==
  WalkInv /\ FindTodos => Found' /\ SkipInv' /\ RepeatInv' /\ WholeInv'
<1> SUFFICES ASSUME WalkInv, FindTodos
             PROVE  Found' /\ SkipInv' /\ RepeatInv' /\ WholeInv'
  OBVIOUS
<1>1. /\ at = "todos" /\ at' = "reading" /\ withItems' = {m \in Ids : meetings[m].todo}
      /\ UNCHANGED <<meetings, input, pageNo, page, seen, upset>> /\ total' = total
  BY DEF FindTodos
<1> QED  BY <1>1, BegunStep

\* What an answer leaves alone.
LEMMA SameRequest ==
  ASSUME UNCHANGED <<meetings, input, at, pageNo, withItems, seen, upset>>
  PROVE  Wanted' = Wanted /\ List' = List /\ Shown' = Shown /\ Position' = Position
<1>1. Ids' = Ids  BY DEF Ids
<1>2. Wanted' = Wanted  BY <1>1 DEF Wanted, Matching, InRange
<1> QED  BY <1>2, SameList DEF List, Shown, Position

\* Growing lists lose nothing, so what was found is still listed.
LEMMA GrowingWanted ==
  ASSUME WalkInv, Growing, at = "reading"
  PROVE  Kept \subseteq Wanted /\ Wanted \subseteq Listed(meetings) /\ Untied(Wanted)
<1>1. input \in Inputs /\ input.hasTodos \in BOOLEAN  BY AskedFor DEF WalkInv, TypeInv
<1>2. Kept \subseteq Wanted  BY <1>1, WantedIs, ListedIs DEF WalkInv, Found, Kept, Ids
<1>3. Wanted \subseteq Listed(meetings)
  BY <1>1, WantedIs, ListedIs DEF WalkInv, SkipInv, Ids
<1> QED  BY <1>2, <1>3 DEF Growing, Calm, Tied, Untied

\* Shrinking lists gain nothing, so what is listed was found.
LEMMA ShrinkingWanted ==
  ASSUME WalkInv, Shrinking, at = "reading"
  PROVE  Listed(meetings) \subseteq Wanted /\ Untied(Wanted)
<1>1. input \in Inputs /\ input.hasTodos \in BOOLEAN  BY AskedFor DEF WalkInv, TypeInv
<1>2. Kept = Listed(meetings)  BY DEF Shrinking, Kept
<1>3. Listed(meetings) \subseteq Wanted
  BY <1>1, <1>2, WantedIs, ListedIs DEF WalkInv, Found, Ids
<1> QED  BY <1>3 DEF WalkInv, RepeatInv

\* The page read holds the next meetings: no kept one is before it, no shown one on it.
LEMMA ReadPageStep ==
  WalkInv /\ ReadPage => Found' /\ SkipInv' /\ RepeatInv' /\ WholeInv'
<1> SUFFICES ASSUME WalkInv, ReadPage
             PROVE  Found' /\ SkipInv' /\ RepeatInv' /\ WholeInv'
  OBVIOUS
<1> DEFINE z == input.pageSize
           L == Listed(meetings)
<1>1. /\ at = "reading" /\ page = NotRead
      /\ UNCHANGED <<meetings, input, at, pageNo, withItems, total, seen, upset>>
  BY DEF ReadPage
<1>2. TypeInv /\ input \in Inputs /\ z \in Nat \ {0} /\ List = Wanted
  BY <1>1, AskedFor DEF WalkInv, TypeInv, List
<1>3. /\ Wanted' = Wanted /\ List' = List /\ Shown' = Shown /\ Position' = Position
      /\ Ids' = Ids /\ Listed(meetings)' = L
      /\ \A S, m : Ahead(S, m)' = Ahead(S, m)
      /\ \A S : Untied(S)' <=> Untied(S)
      /\ \A m, n : Before(m, n)' <=> Before(m, n)
  BY <1>1, SameRequest, SameList
<1>4. /\ Kept' = Kept /\ (Calm' <=> Calm)
      /\ (Growing' <=> Growing) /\ (Shrinking' <=> Shrinking)
  BY <1>1, SameWalk
<1>5. PICK s \in Sorted(Wanted) : page' = SkipLimit(s)  BY DEF ReadPage
<1>6. Wanted \in SUBSET (Owned \cap Ids) /\ L \in SUBSET Owned  BY Lists
<1>7. ASSUME Untied(Wanted)
      PROVE  /\ s \in Seq(Wanted) /\ Len(s) = Cardinality(Wanted) /\ IsInjective(s) /\ InOrder(s)
             /\ \A m \in Wanted : \E j \in 1..Len(s) : s[j] = m
             /\ \A j \in 1..Len(s) : Cardinality(Ahead(Wanted, s[j])) = j - 1
             /\ Position \in Nat /\ Len(page') \in Nat /\ Len(s) \in Nat
             /\ Len(page') <= z /\ (Len(page') < z => Len(s) < Position + z)
             /\ \A i \in 1..Len(page') :
                  Position + i \in 1..Len(s) /\ page'[i] = s[Position + i]
             /\ \A j \in 1..Len(s) : Position < j /\ j <= Position + z => s[j] \in OnPage'
             /\ OnPage' \subseteq Wanted
  <2>1. /\ s \in Seq(Wanted) /\ Len(s) = Cardinality(Wanted) /\ IsInjective(s) /\ InOrder(s)
        /\ \A m \in Wanted : \E j \in 1..Len(s) : s[j] = m
        /\ \A j \in 1..Len(s) : Cardinality(Ahead(Wanted, s[j])) = j - 1
    BY <1>2, <1>5, <1>6, <1>7, SortedIs
  <2>2. /\ page' \in Seq(Wanted) /\ Position \in Nat
        /\ Len(page') <= z /\ (Len(page') < z => Len(s) < Position + z)
        /\ \A i \in 1..Len(page') :
             Position + i \in 1..Len(s) /\ page'[i] = s[Position + i]
        /\ \A j \in 1..Len(s) : Position < j /\ j <= Position + z =>
             \E i \in 1..Len(page') : page'[i] = s[j]
    BY <1>2, <1>5, <2>1, PageIs
  <2>3. Len(page') \in Nat /\ Len(s) \in Nat /\ \A i \in 1..Len(page') : page'[i] \in Wanted
    BY <2>1, <2>2, LenProperties
  <2> QED  BY <2>1, <2>2, <2>3 DEF OnPage
<1>8. Found'  BY <1>1, <1>4 DEF WalkInv, Found
<1>9. SkipInv'
  <2>1. SUFFICES ASSUME Growing, page' # NotRead
                 PROVE  \A m \in Kept \ (Shown \cup OnPage') :
                          Len(page') = z /\ Position + z <= Cardinality(Ahead(L, m))
    BY <1>1, <1>3, <1>4 DEF WalkInv, SkipInv
  <2> SUFFICES ASSUME NEW m \in Kept \ (Shown \cup OnPage')
               PROVE  Len(page') = z /\ Position + z <= Cardinality(Ahead(L, m))
    OBVIOUS
  <2>2. m \in Wanted /\ Wanted \subseteq L /\ Untied(Wanted)  BY <1>1, <2>1, GrowingWanted
  <2>3. PICK j \in 1..Len(s) : s[j] = m  BY <2>2, <1>7
  <2>4. Cardinality(Ahead(Wanted, m)) = j - 1 /\ Position \in Nat  BY <2>2, <2>3, <1>7
  <2>5. Position <= Cardinality(Ahead(Wanted, m))
    BY <2>1, <1>1, <1>2 DEF WalkInv, SkipInv
  <2>6. ~(Position < j /\ j <= Position + z)  BY <2>2, <2>3, <1>7
  <2>7. Position + z <= j - 1  BY <2>4, <2>5, <2>6, <1>2
  <2>8. Len(page') = z
    <3>1. /\ Len(page') \in Nat /\ Len(s) \in Nat
          /\ Len(page') <= z /\ (Len(page') < z => Len(s) < Position + z)
      BY <2>2, <1>7
    <3> QED  BY <3>1, <2>3, <2>4, <2>7, <1>2
  <2>9. /\ Cardinality(Ahead(Wanted, m)) <= Cardinality(Ahead(L, m))
        /\ Cardinality(Ahead(L, m)) \in Nat
    BY <1>6, <2>2, MoreAhead
  <2> QED  BY <2>4, <2>7, <2>8, <2>9, <1>2
<1>10. RepeatInv'
  <2>1. SUFFICES ASSUME Shrinking, page' # NotRead
                 PROVE  /\ OnPage' \cap Shown = {} /\ IsInjective(page')
                        /\ \A m \in L \cap (Shown \cup OnPage') :
                             Cardinality(Ahead(L, m)) < Position + z
    BY <1>1, <1>3, <1>4 DEF WalkInv, RepeatInv
  <2>2. L \subseteq Wanted /\ Untied(Wanted)  BY <1>1, <2>1, ShrinkingWanted
  <2>3. \A m \in Wanted \cap Shown : Cardinality(Ahead(Wanted, m)) < Position
    BY <2>1, <1>1, <1>2 DEF WalkInv, RepeatInv
  <2>4. ASSUME NEW m \in OnPage'
        PROVE  /\ Position <= Cardinality(Ahead(Wanted, m))
               /\ Cardinality(Ahead(Wanted, m)) < Position + z
    <3>1. PICK i \in 1..Len(page') : m = page'[i]  BY DEF OnPage
    <3>2. Position + i \in 1..Len(s) /\ m = s[Position + i]  BY <3>1, <2>2, <1>7
    <3>3. Cardinality(Ahead(Wanted, m)) = Position + i - 1  BY <3>2, <2>2, <1>7
    <3>4. Position \in Nat /\ Len(page') \in Nat /\ Len(page') <= z  BY <2>2, <1>7
    <3> QED  BY <3>1, <3>3, <3>4, <1>2
  <2>5. OnPage' \cap Shown = {}
    <3>1. SUFFICES ASSUME NEW m \in OnPage' \cap Shown PROVE FALSE  OBVIOUS
    <3>2. m \in Wanted  BY <2>2, <1>7
    <3>3. Cardinality(Ahead(Wanted, m)) \in Nat  BY <1>6, MoreAhead
    <3> QED  BY <3>2, <3>3, <2>2, <2>3, <2>4, <1>7
  <2>6. IsInjective(page')
    <3>1. DOMAIN page' = 1..Len(page')
      <4>1. page' \in Seq(Wanted)  BY <1>2, <1>5, <1>7, <2>2, PageIs
      <4> QED  BY <4>1, LenProperties
    <3>2. DOMAIN s = 1..Len(s)  BY <1>7, <2>2, LenProperties
    <3>3. ASSUME NEW i \in 1..Len(page'), NEW j \in 1..Len(page'), page'[i] = page'[j]
          PROVE  i = j
      <4>1. /\ Position + i \in 1..Len(s) /\ page'[i] = s[Position + i]
            /\ Position + j \in 1..Len(s) /\ page'[j] = s[Position + j]
        BY <2>2, <1>7
      <4>2. Position + i = Position + j  BY <4>1, <3>2, <3>3, <2>2, <1>7 DEF IsInjective
      <4> QED  BY <4>2, <2>2, <1>7
    <3> QED  BY <3>1, <3>3 DEF IsInjective
  <2>7. ASSUME NEW m \in L \cap (Shown \cup OnPage')
        PROVE  Cardinality(Ahead(L, m)) < Position + z
    <3>1. /\ Cardinality(Ahead(L, m)) <= Cardinality(Ahead(Wanted, m))
          /\ Cardinality(Ahead(L, m)) \in Nat /\ Cardinality(Ahead(Wanted, m)) \in Nat
      BY <1>6, <2>2, MoreAhead
    <3>2. Position \in Nat  BY <2>2, <1>7
    <3>3. CASE m \in Shown  BY <3>1, <3>2, <3>3, <2>2, <2>3, <1>2
    <3>4. CASE m \in OnPage'  BY <3>1, <3>2, <3>4, <2>4, <1>2
    <3> QED  BY <3>3, <3>4
  <2> QED  BY <2>5, <2>6, <2>7
<1>11. WholeInv'
  <2>1. SUFFICES ASSUME Calm, upset.n = 0, page' # NotRead
                 PROVE  /\ OnPage' \subseteq L /\ InOrder(page')
                        /\ \A m \in Shown, n \in OnPage' : Before(m, n)
    <3>1. /\ InOrder(seen)' <=> InOrder(seen)
          /\ InOrder(page)' <=> InOrder(page')
      BY <1>1, <1>3 DEF InOrder
    <3> QED  BY <3>1, <1>1, <1>3, <1>4 DEF WalkInv, WholeInv
  <2>2. /\ Shrinking /\ Wanted = L /\ Shown \subseteq L
    BY <2>1, <1>2 DEF WalkInv, WholeInv, Shrinking
  <2>3. Untied(Wanted)  BY <1>1, <2>2, ShrinkingWanted
  <2>4. InOrder(page')
    <3>1. SUFFICES ASSUME NEW i \in 1..Len(page'), NEW j \in 1..Len(page'), i < j
                   PROVE  Before(page'[i], page'[j])
      BY DEF InOrder
    <3>2. /\ Position + i \in 1..Len(s) /\ page'[i] = s[Position + i]
          /\ Position + j \in 1..Len(s) /\ page'[j] = s[Position + j]
      BY <2>3, <1>7
    <3>3. Position \in Nat /\ Len(page') \in Nat  BY <2>3, <1>7
    <3>4. Position + i < Position + j  BY <3>1, <3>3
    <3> QED  BY <3>2, <3>4, <2>3, <1>7 DEF InOrder
  <2>5. ASSUME NEW m \in Shown, NEW n \in OnPage'  PROVE Before(m, n)
    <3>1. PICK j \in 1..Len(s) : s[j] = m  BY <2>2, <2>3, <1>7
    <3>2. PICK i \in 1..Len(page') : n = page'[i]  BY DEF OnPage
    <3>3. Position + i \in 1..Len(s) /\ n = s[Position + i] /\ Position \in Nat
      BY <3>2, <2>3, <1>7
    <3>4. Cardinality(Ahead(Wanted, m)) = j - 1  BY <3>1, <2>3, <1>7
    <3>5. Cardinality(Ahead(Wanted, m)) < Position
      BY <2>2, <1>1, <1>2 DEF WalkInv, RepeatInv
    <3>6. j < Position + i  BY <3>2, <3>3, <3>4, <3>5, <2>3, <1>7
    <3> QED  BY <3>1, <3>3, <3>6, <2>3, <1>7 DEF InOrder
  <2> QED  BY <2>2, <2>3, <2>4, <2>5, <1>7
<1> QED  BY <1>8, <1>9, <1>10, <1>11

\* The count is that of the list the page is cut from, unless something changed.
LEMMA CountMeetingsStep ==
  WalkInv /\ CountMeetings => Found' /\ SkipInv' /\ RepeatInv' /\ WholeInv'
<1> SUFFICES ASSUME WalkInv, CountMeetings
             PROVE  Found' /\ SkipInv' /\ RepeatInv' /\ WholeInv'
  OBVIOUS
<1>1. /\ at = "reading" /\ total' = Cardinality(Wanted)
      /\ UNCHANGED <<meetings, input, at, pageNo, withItems, page, seen, upset>>
  BY DEF CountMeetings
<1>2. /\ Wanted' = Wanted /\ List' = List /\ Shown' = Shown /\ Position' = Position
      /\ Ids' = Ids /\ Listed(meetings)' = Listed(meetings) /\ OnPage' = OnPage
      /\ \A S, m : Ahead(S, m)' = Ahead(S, m)
      /\ \A S : Untied(S)' <=> Untied(S)
      /\ \A m, n : Before(m, n)' <=> Before(m, n)
  BY <1>1, SameRequest, SameList DEF OnPage
<1>3. /\ Kept' = Kept /\ (Calm' <=> Calm)
      /\ (Growing' <=> Growing) /\ (Shrinking' <=> Shrinking)
  BY <1>1, SameWalk
<1>4. Found'  BY <1>1, <1>3 DEF WalkInv, Found
<1>5. SkipInv'  BY <1>1, <1>2, <1>3 DEF WalkInv, SkipInv
<1>6. RepeatInv'  BY <1>1, <1>2, <1>3 DEF WalkInv, RepeatInv
<1>7. WholeInv'
  <2>1. /\ InOrder(seen)' <=> InOrder(seen)
        /\ InOrder(page)' <=> InOrder(page)
    BY <1>1, <1>2 DEF InOrder
  <2>2. List = Wanted  BY <1>1 DEF List
  <2> QED  BY <2>1, <2>2, <1>1, <1>2, <1>3 DEF WalkInv, WholeInv
<1> QED  BY <1>4, <1>5, <1>6, <1>7

\* The page shown is added to what was seen, in its order.
LEMMA ShownIs ==
  ASSUME TypeInv, page \in Seq(Owned), seen' = seen \o page
  PROVE  /\ Shown' = Shown \cup OnPage
         /\ IsInjective(seen) /\ IsInjective(page) /\ OnPage \cap Shown = {} => IsInjective(seen')
         /\ UNCHANGED <<meetings, input>> /\ InOrder(seen) /\ InOrder(page)
              /\ (\A m \in Shown, n \in OnPage : Before(m, n)) => InOrder(seen)'
<1> DEFINE l == Len(seen)
           k == Len(page)
<1>1. /\ seen \in Seq(Owned) /\ l \in Nat /\ k \in Nat
      /\ DOMAIN seen = 1..l /\ DOMAIN page = 1..k
  BY LenProperties DEF TypeInv
<1>2. /\ seen' \in Seq(Owned) /\ Len(seen') = l + k
      /\ \A i \in 1..(l + k) : seen'[i] = IF i <= l THEN seen[i] ELSE page[i - l]
  BY <1>1, ConcatProperties
<1>3. DOMAIN seen' = 1..(l + k)  BY <1>2, LenProperties
<1> HIDE DEF l, k
<1>4. ASSUME NEW i \in 1..(l + k)
      PROVE  \/ i \in 1..l /\ seen'[i] = seen[i]
             \/ i - l \in 1..k /\ seen'[i] = page[i - l] /\ ~(i <= l)
  BY <1>1, <1>2
<1>5. \A i \in 1..l : i \in 1..(l + k) /\ seen'[i] = seen[i]  BY <1>1, <1>2
<1>6. ASSUME NEW i \in 1..k  PROVE l + i \in 1..(l + k) /\ seen'[l + i] = page[i]
  <2>1. l + i \in 1..(l + k) /\ ~(l + i <= l) /\ (l + i) - l = i  BY <1>1
  <2> QED  BY <2>1, <1>2
<1>7. Shown' = {seen'[i] : i \in 1..(l + k)} /\ Shown = {seen[i] : i \in 1..l}
      /\ OnPage = {page[i] : i \in 1..k}
  BY <1>2 DEF Shown, OnPage, l, k
<1>8. Shown' = Shown \cup OnPage
  <2>1. ASSUME NEW m \in Shown'  PROVE m \in Shown \cup OnPage
    <3>1. PICK i \in 1..(l + k) : m = seen'[i]  BY <1>7
    <3> QED  BY <3>1, <1>4, <1>7
  <2>2. Shown \subseteq Shown'  BY <1>5, <1>7
  <2>3. OnPage \subseteq Shown'  BY <1>6, <1>7
  <2> QED  BY <2>1, <2>2, <2>3
<1>9. ASSUME IsInjective(seen), IsInjective(page), OnPage \cap Shown = {}
      PROVE  IsInjective(seen')
  <2> SUFFICES ASSUME NEW i \in 1..(l + k), NEW j \in 1..(l + k), seen'[i] = seen'[j]
               PROVE  i = j
    BY <1>3 DEF IsInjective
  <2>1. CASE i \in 1..l /\ seen'[i] = seen[i] /\ j \in 1..l /\ seen'[j] = seen[j]
    BY <2>1, <1>1, <1>9 DEF IsInjective
  <2>2. CASE i - l \in 1..k /\ seen'[i] = page[i - l] /\ j - l \in 1..k /\ seen'[j] = page[j - l]
    <3>1. i - l = j - l  BY <2>2, <1>1, <1>9 DEF IsInjective
    <3> QED  BY <3>1, <1>1
  <2>3. CASE i \in 1..l /\ seen'[i] = seen[i] /\ j - l \in 1..k /\ seen'[j] = page[j - l]
    BY <2>3, <1>7, <1>9
  <2>4. CASE i - l \in 1..k /\ seen'[i] = page[i - l] /\ j \in 1..l /\ seen'[j] = seen[j]
    BY <2>4, <1>7, <1>9
  <2> QED  BY <1>4, <2>1, <2>2, <2>3, <2>4
<1>10. ASSUME UNCHANGED <<meetings, input>>, InOrder(seen), InOrder(page),
              \A m \in Shown, n \in OnPage : Before(m, n)
       PROVE  InOrder(seen)'
  <2>1. SUFFICES ASSUME NEW i \in 1..(l + k), NEW j \in 1..(l + k), i < j
                 PROVE  Before(seen'[i], seen'[j])
    <3>1. \A m, n : Before(m, n)' <=> Before(m, n)  BY <1>10, SameList
    <3> QED  BY <3>1, <1>2 DEF InOrder
  <2>2. CASE i \in 1..l /\ seen'[i] = seen[i] /\ j \in 1..l /\ seen'[j] = seen[j]
    BY <2>1, <2>2, <1>10 DEF InOrder, l
  <2>3. CASE i - l \in 1..k /\ seen'[i] = page[i - l] /\ j - l \in 1..k /\ seen'[j] = page[j - l]
    <3>1. i - l < j - l  BY <2>1, <1>1
    <3> QED  BY <3>1, <2>3, <1>10 DEF InOrder, k
  <2>4. CASE i \in 1..l /\ seen'[i] = seen[i] /\ j - l \in 1..k /\ seen'[j] = page[j - l]
    BY <2>4, <1>7, <1>10
  <2>5. CASE ~(i <= l) /\ j \in 1..l  BY <2>1, <2>5, <1>1
  <2> QED  BY <1>4, <2>2, <2>3, <2>4, <2>5
<1> QED  BY <1>8, <1>9, <1>10

\* What was ahead of a full page is ahead of the next position.
LEMMA ShowPageStep ==
  WalkInv /\ ShowPage => Found' /\ SkipInv' /\ RepeatInv' /\ WholeInv'
<1> SUFFICES ASSUME WalkInv, ShowPage
             PROVE  Found' /\ SkipInv' /\ RepeatInv' /\ WholeInv'
  OBVIOUS
<1> DEFINE z == input.pageSize
           L == Listed(meetings)
<1>1. /\ at = "reading" /\ page # NotRead /\ total # NotRead
      /\ seen' = seen \o page /\ page' = NotRead
      /\ UNCHANGED <<meetings, input, total, upset>>
      /\ \/ Len(page) < z /\ at' = "ended" /\ pageNo' = pageNo
         \/ ~(Len(page) < z) /\ at' = "asking" /\ pageNo' = pageNo + 1
  BY DEF ShowPage
<1>2. /\ TypeInv /\ page \in Seq(Owned) /\ z \in Nat \ {0} /\ pageNo \in Nat \ {0}
  BY <1>1, AskedFor DEF WalkInv, TypeInv
<1>3. /\ Ids' = Ids /\ Listed(meetings)' = L
      /\ \A S, m : Ahead(S, m)' = Ahead(S, m)
      /\ \A m, n : Before(m, n)' <=> Before(m, n)
  BY <1>1, SameList
<1>4. /\ Kept' = Kept /\ (Calm' <=> Calm)
      /\ (Growing' <=> Growing) /\ (Shrinking' <=> Shrinking)
  BY <1>1, SameWalk
<1>5. List' = L  BY <1>1, <1>3 DEF List
<1>6. /\ Shown' = Shown \cup OnPage
      /\ IsInjective(seen) /\ IsInjective(page) /\ OnPage \cap Shown = {} => IsInjective(seen')
      /\ InOrder(seen) /\ InOrder(page) /\ (\A m \in Shown, n \in OnPage : Before(m, n))
           => InOrder(seen)'
  BY <1>1, <1>2, ShownIs
<1>7. at' = "asking" => Position' = Position + z
  BY <1>1, <1>2, Turned DEF Position
<1>8. Found'  BY <1>1 DEF Found
<1>9. SkipInv'
  <2>1. SUFFICES ASSUME Growing
                 PROVE  /\ at' = "asking" =>
                             \A m \in Kept \ (Shown \cup OnPage) :
                               Position + z <= Cardinality(Ahead(L, m))
                        /\ at' = "ended" => Kept \subseteq Shown \cup OnPage
    BY <1>1, <1>3, <1>4, <1>5, <1>6, <1>7 DEF SkipInv
  <2>2. \A m \in Kept \ (Shown \cup OnPage) :
          Len(page) = z /\ Position + z <= Cardinality(Ahead(L, m))
    BY <2>1, <1>1 DEF WalkInv, SkipInv
  <2>3. at' = "ended" => Len(page) # z
    <3>1. Len(page) \in Nat  BY <1>2, LenProperties
    <3> QED  BY <3>1, <1>1, <1>2
  <2> QED  BY <2>2, <2>3
<1>10. RepeatInv'
  <2>1. SUFFICES ASSUME Shrinking
                 PROVE  /\ at' = "asking" =>
                             \A m \in L \cap (Shown \cup OnPage) :
                               Cardinality(Ahead(L, m)) < Position + z
                        /\ IsInjective(seen')
    BY <1>1, <1>3, <1>4, <1>5, <1>6, <1>7 DEF RepeatInv
  <2> QED  BY <2>1, <1>1, <1>6 DEF WalkInv, RepeatInv
<1>11. WholeInv'
  <2>1. SUFFICES ASSUME Calm, upset.n = 0
                 PROVE  /\ upset.came = {} /\ upset.gone = {} /\ upset.moved = {}
                        /\ Shown \cup OnPage \subseteq L /\ InOrder(seen)'
                        /\ total \in {NotRead, Cardinality(L)}
    BY <1>1, <1>3, <1>4, <1>5, <1>6 DEF WholeInv
  <2> QED  BY <2>1, <1>1, <1>6 DEF WalkInv, WholeInv
<1> QED  BY <1>8, <1>9, <1>10, <1>11

(***************************************************************************)
(* Changes                                                                 *)
(***************************************************************************)
\* Traits are pairs of a meeting and what it passes.
LEMMA TraitsAre ==
  ASSUME NEW ms, NEW m, NEW t
  PROVE  <<m, t>> \in Traits(ms) <=> m \in Owned \cap DOMAIN ms /\ t \in Passes(ms, m)
BY DEF Traits

\* A meeting comes by a trait it did not have, and goes by one it had.
LEMMA ChangeIs ==
  ASSUME Changes(meetings')
  PROVE  /\ UNCHANGED request /\ at # "ended" /\ upset'.n = upset.n + 1
         /\ upset.came \subseteq upset'.came /\ upset.gone \subseteq upset'.gone
         /\ upset.moved \subseteq upset'.moved
         /\ Calm' => Calm
         /\ \A m, t : /\ m \in Owned \cap Ids' /\ t \in Passes(meetings, m)'
                      /\ m \notin upset'.came
                      => m \in Ids /\ t \in Passes(meetings, m)
         /\ \A m, t : /\ m \in Owned \cap Ids /\ t \in Passes(meetings, m)
                      /\ upset'.gone = {}
                      => m \in Ids' /\ t \in Passes(meetings, m)'
         /\ \A m : m \in Owned \cap Ids \cap Ids' /\ upset'.moved = {}
                     => meetings'[m].date = meetings[m].date
<1> DEFINE came == {t[1] : t \in Traits(meetings') \ Traits(meetings)}
           gone == {t[1] : t \in Traits(meetings) \ Traits(meetings')}
           moved == {m \in Owned \cap Ids \cap DOMAIN meetings' :
                       meetings'[m].date # meetings[m].date}
<1>1. /\ UNCHANGED request /\ at # "ended" /\ upset'.n = upset.n + 1
      /\ upset'.came = upset.came \cup came /\ upset'.gone = upset.gone \cup gone
      /\ upset'.moved = upset.moved \cup moved
      /\ upset'.tied = (upset.tied \/ Tied(meetings) \/ Tied(meetings'))
  BY DEF Changes
<1>2. Ids' = DOMAIN meetings' /\ Ids = DOMAIN meetings /\ input' = input  BY <1>1 DEF Ids, request
<1>3. \A m : Passes(meetings, m)' = Passes(meetings', m)  BY <1>2 DEF Passes
<1>4. ASSUME NEW m, NEW t, m \in Owned \cap Ids', t \in Passes(meetings, m)', m \notin came
      PROVE  m \in Ids /\ t \in Passes(meetings, m)
  <2>1. <<m, t>> \in Traits(meetings')  BY <1>2, <1>3, <1>4, TraitsAre
  <2>2. <<m, t>> \in Traits(meetings)
    <3>1. <<m, t>>[1] = m  OBVIOUS
    <3> QED  BY <2>1, <3>1, <1>4
  <2> QED  BY <2>2, <1>2, TraitsAre
<1>5. ASSUME NEW m, NEW t, m \in Owned \cap Ids, t \in Passes(meetings, m), gone = {}
      PROVE  m \in Ids' /\ t \in Passes(meetings, m)'
  <2>1. <<m, t>> \in Traits(meetings)  BY <1>2, <1>5, TraitsAre
  <2>2. <<m, t>> \in Traits(meetings')  BY <2>1, <1>5
  <2> QED  BY <2>2, <1>2, <1>3, TraitsAre
<1>6. \A m : m \in Owned \cap Ids \cap Ids' /\ moved = {} => meetings'[m].date = meetings[m].date
  BY <1>2
<1>7. Calm' => Calm  BY <1>1 DEF Calm
<1> HIDE DEF came, gone, moved
<1> QED  BY <1>1, <1>4, <1>5, <1>6, <1>7

\* A change keeps the bounds: meetings that come only add to what is ahead, those
\* that go only take away.
LEMMA ChangeStep ==
  ASSUME WalkInv, Changes(meetings'), TypeInv'
  PROVE  Found' /\ SkipInv' /\ RepeatInv' /\ WholeInv'
<1> DEFINE z == input.pageSize
           L == Listed(meetings)
<1>1. /\ UNCHANGED request /\ at # "ended" /\ upset'.n = upset.n + 1
      /\ upset.came \subseteq upset'.came /\ upset.gone \subseteq upset'.gone
      /\ upset.moved \subseteq upset'.moved
      /\ Calm' => Calm
  BY ChangeIs
<1>2. /\ input' = input /\ at' = at /\ pageNo' = pageNo /\ withItems' = withItems
      /\ page' = page /\ total' = total /\ seen' = seen
      /\ Shown' = Shown /\ Position' = Position /\ OnPage' = OnPage
  BY <1>1 DEF request, Shown, Position, OnPage
<1>3. input \in Inputs /\ input.hasTodos \in BOOLEAN /\ TypeInv
  BY AskedFor DEF WalkInv, TypeInv
<1>4. /\ \A m : m \in L <=> /\ m \in Owned \cap Ids /\ "range" \in Passes(meetings, m)
                            /\ "todos" \in Passes(meetings, m)
      /\ \A m : m \in Listed(meetings)' <=>
           /\ m \in Owned \cap Ids' /\ "range" \in Passes(meetings, m)'
           /\ "todos" \in Passes(meetings, m)'
  <2>1. /\ Ids' = DOMAIN meetings' /\ Ids = DOMAIN meetings
        /\ Listed(meetings)' = Listed(meetings')
        /\ \A m : Passes(meetings, m)' = Passes(meetings', m)
    BY <1>2 DEF Ids, Listed, Passes
  <2> QED  BY <2>1, PassesBoth DEF Listed
<1>5. /\ \A m : m \in Wanted <=> /\ m \in Owned \cap Ids /\ "range" \in Passes(meetings, m)
                                 /\ input.hasTodos => m \in withItems
      /\ \A m : m \in Wanted' <=> /\ m \in Owned \cap Ids' /\ "range" \in Passes(meetings, m)'
                                  /\ input.hasTodos => m \in withItems
  <2>1. \A m : m \in Wanted' <=> /\ m \in Owned \cap Ids' /\ meetings'[m].date \in input.range
                                 /\ input.hasTodos => m \in withItems
    BY <1>2, <1>3 DEF Wanted, Matching, InRange
  <2>2. \A m : "range" \in Passes(meetings, m)' <=> meetings'[m].date \in input.range
    <3>1. \A m : Passes(meetings, m)' = Passes(meetings', m)  BY <1>2 DEF Passes
    <3> QED  BY <3>1, PassesBoth
  <2> QED  BY <2>1, <2>2, <1>3, WantedIs, PassesBoth
<1>6. Kept' \subseteq Kept
  <2> SUFFICES ASSUME NEW m \in Kept' PROVE m \in Kept  OBVIOUS
  <2>1. m \in Listed(meetings)' /\ m \notin upset'.came  BY DEF Kept
  <2>2. m \in L  BY <2>1, <1>4, ChangeIs
  <2> QED  BY <2>1, <2>2, <1>1 DEF Kept
<1>7. List \subseteq Owned \cap Ids /\ List' \subseteq Owned \cap Ids'
      /\ L \subseteq Owned \cap Ids /\ Listed(meetings)' \subseteq Owned \cap Ids'
  BY <1>4, <1>5 DEF List
<1>8. ASSUME NEW m, NEW n, m \in Owned \cap Ids \cap Ids', n \in Owned \cap Ids \cap Ids',
             upset'.moved = {}
      PROVE  Before(m, n)' <=> Before(m, n)
  <2>1. meetings'[m].date = meetings[m].date /\ meetings'[n].date = meetings[n].date
    BY <1>8, ChangeIs
  <2> QED  BY <2>1, <1>2 DEF Before
<1>9. Found'  BY <1>2, <1>6 DEF WalkInv, Found
<1>10. SkipInv'
  <2>1. SUFFICES ASSUME Growing'
                 PROVE  /\ at = "reading" /\ input.hasTodos =>
                             \A m \in withItems \cap Owned : m \in Ids' /\ meetings'[m].todo
                        /\ at # "ended" /\ page = NotRead =>
                             \A m \in Kept' \ Shown : Position <= Cardinality(Ahead(List, m)')
                        /\ page # NotRead =>
                             \A m \in Kept' \ (Shown \cup OnPage) :
                               /\ Len(page) = z
                               /\ Position + z <= Cardinality(Ahead(Listed(meetings), m)')
    BY <1>1, <1>2 DEF SkipInv
  <2>2. Growing /\ upset'.gone = {} /\ upset'.moved = {}  BY <2>1, <1>1 DEF Growing
  <2>3. L \subseteq Listed(meetings)' /\ Wanted \subseteq Wanted' /\ List \subseteq List'
    <3>1. L \subseteq Listed(meetings)'  BY <2>2, <1>4, ChangeIs
    <3>2. Wanted \subseteq Wanted'  BY <2>2, <1>5, ChangeIs
    <3> QED  BY <3>1, <3>2, <1>2 DEF List
  <2>4. ASSUME NEW S, NEW T, S \subseteq T, S \subseteq Owned \cap Ids, T \subseteq Owned \cap Ids',
               S \subseteq Ids', NEW m \in Owned \cap Ids \cap Ids'
        PROVE  /\ Cardinality(Ahead(S, m)) <= Cardinality(Ahead(T, m)')
               /\ Cardinality(Ahead(S, m)) \in Nat /\ Cardinality(Ahead(T, m)') \in Nat
    <3>1. Ahead(S, m) \subseteq Ahead(T, m)'  BY <2>2, <2>4, <1>8 DEF Ahead
    <3>2. Ahead(T, m)' \subseteq Owned  BY <2>4 DEF Ahead
    <3>3. IsFiniteSet(Ahead(T, m)')  BY <3>2, QueriesAssumption, FS_Subset
    <3> QED  BY <3>1, <3>3, FS_Subset, FS_CardinalityType
  <2>5. Position \in Nat /\ z \in Nat
    BY <1>3, AskedFor, Turned DEF Position, TypeInv
  <2>6. at = "reading" /\ input.hasTodos =>
          \A m \in withItems \cap Owned : m \in Ids' /\ meetings'[m].todo
    <3> SUFFICES ASSUME at = "reading", input.hasTodos, NEW m \in withItems \cap Owned
                 PROVE  m \in Ids' /\ meetings'[m].todo
      OBVIOUS
    <3>1. m \in Ids /\ meetings[m].todo  BY <2>2 DEF WalkInv, SkipInv
    <3>2. "todos" \in Passes(meetings, m)  BY <3>1, PassesBoth
    <3>3. m \in Ids' /\ "todos" \in Passes(meetings, m)'  BY <3>1, <3>2, <2>2, ChangeIs
    <3>4. Passes(meetings, m)' = Passes(meetings', m)  BY <1>2 DEF Passes
    <3> QED  BY <3>3, <3>4, PassesBoth
  <2>7. at # "ended" /\ page = NotRead =>
          \A m \in Kept' \ Shown : Position <= Cardinality(Ahead(List, m)')
    <3> SUFFICES ASSUME at # "ended", page = NotRead, NEW m \in Kept' \ Shown
                 PROVE  Position <= Cardinality(Ahead(List, m)')
      OBVIOUS
    <3>1. m \in Kept \ Shown /\ m \in Owned \cap Ids \cap Ids'
      BY <1>6, <1>7, <2>3 DEF Kept
    <3>2. Position <= Cardinality(Ahead(List, m))  BY <3>1, <2>2 DEF WalkInv, SkipInv
    <3>3. List \subseteq Ids'  BY <1>7, <2>3
    <3>4. /\ Cardinality(Ahead(List, m)) <= Cardinality(Ahead(List, m)')
          /\ Cardinality(Ahead(List, m)) \in Nat /\ Cardinality(Ahead(List, m)') \in Nat
      BY <3>1, <3>3, <2>3, <2>4, <1>7
    <3> QED  BY <3>2, <3>4, <2>5
  <2>8. page # NotRead =>
          \A m \in Kept' \ (Shown \cup OnPage) :
            Len(page) = z /\ Position + z <= Cardinality(Ahead(Listed(meetings), m)')
    <3> SUFFICES ASSUME page # NotRead, NEW m \in Kept' \ (Shown \cup OnPage)
                 PROVE  Len(page) = z /\ Position + z <= Cardinality(Ahead(Listed(meetings), m)')
      OBVIOUS
    <3>1. m \in Kept \ (Shown \cup OnPage) /\ m \in Owned \cap Ids \cap Ids'
      BY <1>6, <1>7, <2>3 DEF Kept
    <3>2. Len(page) = z /\ Position + z <= Cardinality(Ahead(L, m))
      BY <3>1, <2>2 DEF WalkInv, SkipInv
    <3>3. L \subseteq Ids'  BY <1>7, <2>3
    <3>4. /\ Cardinality(Ahead(L, m)) <= Cardinality(Ahead(Listed(meetings), m)')
          /\ Cardinality(Ahead(L, m)) \in Nat /\ Cardinality(Ahead(Listed(meetings), m)') \in Nat
      BY <3>1, <3>3, <2>3, <2>4, <1>7
    <3> QED  BY <3>2, <3>4, <2>5
  <2> QED  BY <2>6, <2>7, <2>8
<1>11. RepeatInv'
  <2>1. SUFFICES ASSUME Shrinking'
                 PROVE  /\ at = "reading" => Untied(Wanted)'
                        /\ at # "ended" /\ page = NotRead =>
                             \A m \in List' \cap Shown : Cardinality(Ahead(List, m)') < Position
                        /\ page # NotRead =>
                             /\ OnPage \cap Shown = {} /\ IsInjective(page)
                             /\ \A m \in Listed(meetings)' \cap (Shown \cup OnPage) :
                                  Cardinality(Ahead(Listed(meetings), m)') < Position + z
                        /\ IsInjective(seen)
    BY <1>1, <1>2 DEF RepeatInv
  <2>2. Shrinking /\ upset'.came = {} /\ upset'.moved = {}  BY <2>1, <1>1 DEF Shrinking
  <2>3. Listed(meetings)' \subseteq L /\ Wanted' \subseteq Wanted /\ List' \subseteq List
    <3>1. Listed(meetings)' \subseteq L  BY <2>2, <1>4, ChangeIs
    <3>2. Wanted' \subseteq Wanted  BY <2>2, <1>5, ChangeIs
    <3> QED  BY <3>1, <3>2, <1>2 DEF List
  <2>4. ASSUME NEW S, NEW T, T \subseteq S, S \subseteq Owned \cap Ids, T \subseteq Owned \cap Ids',
               NEW m \in T
        PROVE  /\ Cardinality(Ahead(T, m)') <= Cardinality(Ahead(S, m))
               /\ Cardinality(Ahead(S, m)) \in Nat /\ Cardinality(Ahead(T, m)') \in Nat
    <3>1. Ahead(T, m)' \subseteq Ahead(S, m)  BY <2>2, <2>4, <1>8 DEF Ahead
    <3>2. Ahead(S, m) \subseteq Owned  BY <2>4 DEF Ahead
    <3>3. IsFiniteSet(Ahead(S, m))  BY <3>2, QueriesAssumption, FS_Subset
    <3> QED  BY <3>1, <3>3, FS_Subset, FS_CardinalityType
  <2>5. Position \in Nat /\ z \in Nat
    BY <1>3, AskedFor, Turned DEF Position, TypeInv
  <2>6. at = "reading" => Untied(Wanted)'
    <3> SUFFICES ASSUME at = "reading", NEW m \in Wanted', NEW n \in Wanted',
                        meetings'[m].date = meetings'[n].date
                 PROVE  m = n
      BY DEF Untied
    <3>1. m \in Wanted /\ n \in Wanted /\ Untied(Wanted)
      BY <2>2, <2>3 DEF WalkInv, RepeatInv
    <3>2. m \in Owned \cap Ids \cap Ids' /\ n \in Owned \cap Ids \cap Ids'
      BY <3>1, <1>5
    <3>3. meetings'[m].date = meetings[m].date /\ meetings'[n].date = meetings[n].date
      BY <3>2, <2>2, ChangeIs
    <3> QED  BY <3>1, <3>3 DEF Untied
  <2>7. at # "ended" /\ page = NotRead =>
          \A m \in List' \cap Shown : Cardinality(Ahead(List, m)') < Position
    <3> SUFFICES ASSUME at # "ended", page = NotRead, NEW m \in List' \cap Shown
                 PROVE  Cardinality(Ahead(List, m)') < Position
      OBVIOUS
    <3>1. Cardinality(Ahead(List, m)) < Position  BY <2>2, <2>3 DEF WalkInv, RepeatInv
    <3>2. /\ Cardinality(Ahead(List, m)') <= Cardinality(Ahead(List, m))
          /\ Cardinality(Ahead(List, m)) \in Nat /\ Cardinality(Ahead(List, m)') \in Nat
      BY <2>3, <2>4, <1>7
    <3> QED  BY <3>1, <3>2, <2>5
  <2>8. page # NotRead =>
          /\ OnPage \cap Shown = {} /\ IsInjective(page)
          /\ \A m \in Listed(meetings)' \cap (Shown \cup OnPage) :
               Cardinality(Ahead(Listed(meetings), m)') < Position + z
    <3>1. SUFFICES ASSUME page # NotRead, NEW m \in Listed(meetings)' \cap (Shown \cup OnPage)
                   PROVE  Cardinality(Ahead(Listed(meetings), m)') < Position + z
      BY <2>2 DEF WalkInv, RepeatInv
    <3>2. Cardinality(Ahead(L, m)) < Position + z
      BY <3>1, <2>2, <2>3 DEF WalkInv, RepeatInv
    <3>3. /\ Cardinality(Ahead(Listed(meetings), m)') <= Cardinality(Ahead(L, m))
          /\ Cardinality(Ahead(L, m)) \in Nat /\ Cardinality(Ahead(Listed(meetings), m)') \in Nat
      BY <2>3, <2>4, <1>7
    <3> QED  BY <3>2, <3>3, <2>5
  <2> QED  BY <2>2, <2>6, <2>7, <2>8 DEF WalkInv, RepeatInv
<1>12. WholeInv'
  <2>1. upset'.n # 0  BY <1>1, <1>3 DEF TypeInv
  <2> QED  BY <2>1 DEF WholeInv
<1> QED  BY <1>9, <1>10, <1>11, <1>12

(***************************************************************************)
(* Walks                                                                   *)
(***************************************************************************)
\* A step that changes nothing keeps the invariant.
LEMMA StutterStep == WalkInv /\ UNCHANGED vars => WalkInv'
<1> SUFFICES ASSUME WalkInv, UNCHANGED vars PROVE WalkInv'  OBVIOUS
<1>1. /\ UNCHANGED <<meetings, input, at, pageNo, withItems, page, total, seen, upset>>
  BY DEF vars, request
<1>2. /\ Wanted' = Wanted /\ List' = List /\ Shown' = Shown /\ Position' = Position
      /\ Ids' = Ids /\ Listed(meetings)' = Listed(meetings) /\ OnPage' = OnPage
      /\ \A S, m : Ahead(S, m)' = Ahead(S, m)
      /\ \A S : Untied(S)' <=> Untied(S)
      /\ \A m, n : Before(m, n)' <=> Before(m, n)
      /\ Kept' = Kept /\ (Calm' <=> Calm)
      /\ (Growing' <=> Growing) /\ (Shrinking' <=> Shrinking)
  BY <1>1, SameRequest, SameList, SameWalk DEF OnPage
<1>3. TypeInv'  BY <1>1, <1>2 DEF WalkInv, TypeInv
<1>4. Found'  BY <1>1, <1>2 DEF WalkInv, Found
<1>5. SkipInv'  BY <1>1, <1>2 DEF WalkInv, SkipInv
<1>6. RepeatInv'  BY <1>1, <1>2 DEF WalkInv, RepeatInv
<1>7. WholeInv'
  <2>1. /\ InOrder(seen)' <=> InOrder(seen)
        /\ InOrder(page)' <=> InOrder(page)
    BY <1>1, <1>2 DEF InOrder
  <2> QED  BY <2>1, <1>1, <1>2 DEF WalkInv, WholeInv
<1> QED  BY <1>3, <1>4, <1>5, <1>6, <1>7 DEF WalkInv

\* The walk's invariant holds in every state.
THEOREM WalkHolds == Spec => []WalkInv
<1>1. WalkInv /\ [Next]_vars => WalkInv'
  <2> SUFFICES ASSUME WalkInv, [Next]_vars PROVE WalkInv'  OBVIOUS
  <2>1. CASE Request
    <3>1. TypeInv'  BY <2>1, RequestTyped DEF WalkInv
    <3>2. Found' /\ SkipInv' /\ RepeatInv' /\ WholeInv'
      BY <2>1, FindUserMeetingsStep, FindTodosStep, ReadPageStep, CountMeetingsStep, ShowPageStep
      DEF Request
    <3> QED  BY <3>1, <3>2 DEF WalkInv
  <2>2. CASE CreateMeeting \/ UpdateMeeting \/ DeleteMeeting \/ ChangeItems
    <3>1. TypeInv' /\ Changes(meetings')  BY <2>2, ChangeTyped DEF WalkInv
    <3> QED  BY <3>1, ChangeStep DEF WalkInv
  <2>3. CASE UNCHANGED vars  BY <2>3, StutterStep
  <2> QED  BY <2>1, <2>2, <2>3 DEF Next
<1> QED  BY <1>1, InitWalk, PTL DEF Spec

\* Meetings that come while the pages are turned push others to later pages,
\* never to earlier ones: a meeting listed all along is on one of the pages.
THEOREM NothingSkippedHolds == Spec => []NothingSkipped
<1>1. WalkInv => NothingSkipped
  BY DEF WalkInv, SkipInv, NothingSkipped, Ended, Growing, Calm, Kept
<1> QED  BY <1>1, WalkHolds, PTL

\* Meetings that go pull others to earlier pages: none is on two pages.
THEOREM NothingRepeatedHolds == Spec => []NothingRepeated
<1>1. WalkInv => NothingRepeated
  BY DEF WalkInv, RepeatInv, NothingRepeated, Ended, Shrinking, Calm
<1> QED  BY <1>1, WalkHolds, PTL

\* A walk during which nothing changed shows each meeting asked for once, in
\* the order asked for, and its last page came with their number.
THEOREM WalkIsWholeHolds == Spec => []WalkIsWhole
<1>1. ASSUME WalkInv, Ended, upset.n = 0
      PROVE  /\ Shown = {m \in FindAllUserMeetings : input.hasTodos => meetings[m].todo}
             /\ total = Len(seen)
             /\ \A i, j \in 1..Len(seen) : i < j =>
                  IF input.newestFirst THEN meetings[seen[i]].date > meetings[seen[j]].date
                                       ELSE meetings[seen[i]].date < meetings[seen[j]].date
  <2> DEFINE L == Listed(meetings)
  <2>1. at = "ended" /\ Calm  BY <1>1 DEF Ended, Calm
  <2>2. /\ Shown \subseteq L /\ InOrder(seen) /\ upset.came = {}
        /\ total = Cardinality(L) /\ Growing /\ Shrinking
    BY <1>1, <2>1 DEF WalkInv, WholeInv, Growing, Shrinking
  <2>3. L \subseteq Shown  BY <1>1, <2>1, <2>2 DEF WalkInv, SkipInv, Kept
  <2>4. IsInjective(seen)  BY <1>1, <2>2 DEF WalkInv, RepeatInv
  <2>5. input.hasTodos \in BOOLEAN /\ TypeInv  BY <1>1, AskedFor DEF WalkInv, TypeInv
  <2>6. L = {m \in FindAllUserMeetings : input.hasTodos => meetings[m].todo}
    BY <2>5, ListedIs DEF FindAllUserMeetings, InRange, Ids
  <2>7. Len(seen) \in Nat /\ DOMAIN seen = 1..Len(seen) /\ seen \in [1..Len(seen) -> Owned]
    BY <2>5, LenProperties DEF TypeInv
  <2>8. \A i \in 1..Len(seen) : seen[i] \in L  BY <2>2 DEF Shown
  <2>9. total = Len(seen)
    <3>1. seen \in [1..Len(seen) -> L]  BY <2>7, <2>8
    <3>2. \A m \in L : \E i \in 1..Len(seen) : seen[i] = m  BY <2>3 DEF Shown
    <3>3. seen \in Bijection(1..Len(seen), L)
      BY <3>1, <3>2, <2>4 DEF Bijection, Injection, Surjection
    <3>4. Cardinality(L) = Len(seen)  BY <3>3, <2>7, FS_CountingElements DEF ExistsBijection
    <3> QED  BY <3>4, <2>2
  <2>10. ASSUME NEW i \in 1..Len(seen), NEW j \in 1..Len(seen), i < j
         PROVE  IF input.newestFirst THEN meetings[seen[i]].date > meetings[seen[j]].date
                                     ELSE meetings[seen[i]].date < meetings[seen[j]].date
    <3>1. Before(seen[i], seen[j])  BY <2>2, <2>10 DEF InOrder
    <3>2. seen[i] # seen[j]  BY <2>4, <2>7, <2>10 DEF IsInjective
    <3>3. seen[i] \in L /\ seen[j] \in L  BY <2>8
    <3>4. meetings[seen[i]].date # meetings[seen[j]].date
      BY <3>2, <3>3, <2>1 DEF Calm, Tied
    <3>5. meetings[seen[i]].date \in Nat /\ meetings[seen[j]].date \in Nat
      BY <3>3, <2>5, Lists, DatesAreNumbers DEF Ids
    <3> QED  BY <3>1, <3>4, <3>5 DEF Before
  <2> QED  BY <2>2, <2>3, <2>6, <2>9, <2>10
<1>2. WalkInv => WalkIsWhole  BY <1>1 DEF WalkIsWhole
<1> QED  BY <1>2, WalkHolds, PTL
===============================================================================
