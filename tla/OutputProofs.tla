---------------------------- MODULE OutputProofs ----------------------------
(***************************************************************************)
(* Proofs about what people get to read: the pages of a list (Listing),    *)
(* for any finite set of rows and any page sizes, and the letters that     *)
(* render makes of the templates (Templates), whatever anybody has typed.  *)
(***************************************************************************)
EXTENDS Listing, Templates, FiniteSetTheorems, TLAPS

TypeInv ==
    /\ created \in [Row -> 0..MaxTime]
    /\ selected \subseteq {r \in Row : Exist(r)}
    /\ query.limit \in Nat
    /\ page \in Nat
    /\ wanted \subseteq {r \in Row : Exist(r)}

(* No other row was created when r was. *)
Alone(r) == \A s \in Row \ {r} : created[s] # created[r]

(* The rows of the list down to r, when r is alone. *)
DownTo(r) == {s \in selected : created[s] >= created[r]}

(* A row that is not seen yet is still below the edge of the next page.    *)
StillAhead ==
    page > 0 /\ ~shifted =>
        \A r \in wanted :
            /\ r \in selected
            /\ Alone(r) => \/ r \in seen
                           \/ Offset(page, query.limit) < Cardinality(DownTo(r))

WalkInv == TypeInv /\ StillAhead /\ WalkMissesNothing

-----------------------------------------------------------------------------
(* Pages *)

LEMMA PageSizeType ==
    ASSUME NEW n \in Nat
    PROVE  PageSize(n) \in 1..100
  BY DEF PageSize

(* The next page begins where this one ends. *)
LEMMA NextOffset ==
    ASSUME NEW n \in Nat, NEW p \in Nat \ {0}
    PROVE  /\ Offset(p, n) \in Nat
           /\ Offset(p + 1, n) = Offset(p, n) + PageSize(n)
<1> DEFINE size == PageSize(n)
<1>1. size \in Nat
  BY PageSizeType
<1>2. (p - 1) * size \in Nat /\ (p + 1 - 1) * size = (p - 1) * size + size
  <2> HIDE DEF size
  <2> QED
    BY <1>1
<1> QED
  BY <1>2 DEF Offset

(* The last page ends the list. *)
LEMMA LastPage ==
    ASSUME NEW n \in Nat, NEW p \in Nat \ {0}, NEW total \in Nat,
           p >= TotalPages(total, n)
    PROVE  total <= Offset(p, n) + PageSize(n)
<1> DEFINE size == PageSize(n)
           pages == (total + size - 1) \div size
<1>1. size \in 1..100
  BY PageSizeType
<1>2. \A t \in Nat, m \in 1..100, k \in Nat :
        k >= (t + m - 1) \div m => t <= (k - 1) * m + m
  OBVIOUS
<1> QED
  BY <1>1, <1>2 DEF Offset, TotalPages

-----------------------------------------------------------------------------
(* The order of the list *)

(* However rows of equal age are put, the list has every row once.         *)
LEMMA OrderedList ==
    ASSUME TypeInv, NEW q \in Ordered
    PROVE  /\ Len(q) = Cardinality(selected)
           /\ Cardinality(selected) \in Nat
           /\ DOMAIN q = 1..Len(q)
           /\ \A i, j \in DOMAIN q : i # j => q[i] # q[j]
           /\ \A i \in DOMAIN q : q[i] \in selected
           /\ \A r \in selected : \E i \in DOMAIN q : q[i] = r
<1> DEFINE size == Cardinality(selected)
<1>1. IsFiniteSet(selected) /\ size \in Nat
  BY ListingAssumption, FS_Subset, FS_CardinalityType DEF TypeInv
<1>2. /\ q \in [1..size -> selected]
      /\ \A i, j \in 1..size : i # j => q[i] # q[j]
  BY DEF Ordered, SetToSeqs
<1>3. q \in Injection(1..size, selected)
  BY <1>2 DEF Injection, IsInjective
<1>4. Cardinality(1..size) = size
  BY <1>1, FS_Interval
<1>5. q \in Surjection(1..size, selected)
  BY <1>1, <1>3, <1>4, FS_Injection
<1>6. \A r \in selected : \E i \in 1..size : q[i] = r
  BY <1>5 DEF Surjection
<1>7. q \in Seq(selected) /\ Len(q) = size
  BY <1>1, <1>2
<1> QED
  BY <1>1, <1>2, <1>6, <1>7

(* A row that is alone has the place of its age: as many rows are at or    *)
(* above it as were created no earlier.                                    *)
LEMMA PlaceInList ==
    ASSUME TypeInv, NEW q \in Ordered, NEW k \in DOMAIN q, Alone(q[k])
    PROVE  Cardinality(DownTo(q[k])) = k
<1> DEFINE r == q[k]
           upper == [i \in 1..k |-> q[i]]
<1>1. /\ DOMAIN q = 1..Len(q)
      /\ Len(q) \in Nat
      /\ \A i, j \in DOMAIN q : i # j => q[i] # q[j]
      /\ \A i \in DOMAIN q : q[i] \in selected
      /\ \A s \in selected : \E i \in DOMAIN q : q[i] = s
  BY OrderedList
<1>2. \A i, j \in DOMAIN q : i < j => created[q[i]] >= created[q[j]]
  BY DEF Ordered
<1>3. \A s \in selected : s \in Row /\ created[s] \in Int
  BY DEF TypeInv
<1>4. \A i \in DOMAIN q : created[q[i]] >= created[r] => i <= k
  <2> SUFFICES ASSUME NEW i \in DOMAIN q, created[q[i]] >= created[r], i > k
               PROVE  FALSE
    BY <1>1
  <2>1. created[q[i]] = created[r]
    BY <1>1, <1>2, <1>3
  <2>2. q[i] \in Row \ {r}
    BY <1>1, <1>3
  <2> QED
    BY <2>1, <2>2 DEF Alone
<1>5. \A i \in 1..k : q[i] \in DownTo(r)
  BY <1>1, <1>2, <1>3 DEF DownTo
<1>6. \A s \in DownTo(r) : \E i \in 1..k : q[i] = s
  <2> SUFFICES ASSUME NEW s \in DownTo(r)
               PROVE  \E i \in 1..k : q[i] = s
    OBVIOUS
  <2>1. PICK i \in DOMAIN q : q[i] = s
    BY <1>1 DEF DownTo
  <2>2. i <= k
    BY <1>4, <2>1 DEF DownTo
  <2> QED
    BY <1>1, <2>1, <2>2
<1>7. upper \in Injection(1..k, DownTo(r))
  BY <1>1, <1>5 DEF Injection, IsInjective
<1>8. upper \in Surjection(1..k, DownTo(r))
  BY <1>5, <1>6 DEF Surjection
<1>9. IsFiniteSet(1..k) /\ Cardinality(1..k) = k
  BY <1>1, FS_Interval
<1> HIDE DEF upper
<1> QED
  BY <1>7, <1>8, <1>9, FS_Surjection

-----------------------------------------------------------------------------
(* The walk *)

LEMMA DownToGrows ==
    ASSUME NEW S \in SUBSET selected', NEW r,
           IsFiniteSet(selected'), S \subseteq DownTo(r)'
    PROVE  /\ IsFiniteSet(S)
           /\ Cardinality(S) <= Cardinality(DownTo(r)')
           /\ Cardinality(S) \in Nat /\ Cardinality(DownTo(r)') \in Nat
<1>1. DownTo(r)' \in SUBSET selected'
  BY DEF DownTo
<1>2. IsFiniteSet(DownTo(r)')
  BY <1>1, FS_Subset
<1> QED
  BY <1>2, FS_Subset, FS_CardinalityType

LEMMA WalkInit == ListingInit => WalkInv
<1> SUFFICES ASSUME ListingInit PROVE WalkInv
  OBVIOUS
<1>1. query.limit \in Nat
  BY ListingAssumption DEF ListingInit, Queries
<1> QED
  BY <1>1 DEF ListingInit, WalkInv, TypeInv, Exist, StillAhead, WalkMissesNothing

LEMMA TypeNext == TypeInv /\ [ListingNext]_listingVars => TypeInv'
<1> SUFFICES ASSUME TypeInv, [ListingNext]_listingVars PROVE TypeInv'
  OBVIOUS
<1> USE DEF TypeInv, Exist
<1>1. CASE StartWalk
  BY <1>1 DEF StartWalk
<1>2. ASSUME NEW q \in Ordered, Fetch(q) PROVE TypeInv'
  BY <1>2 DEF Fetch
<1>3. ASSUME NEW r \in Row, Join(r) PROVE TypeInv'
  BY <1>3 DEF Join
<1>4. ASSUME NEW r \in Row, Leave(r) PROVE TypeInv'
  BY <1>4 DEF Leave
<1>5. ASSUME NEW r \in Row, NEW t \in 1..MaxTime, Insert(r, t) PROVE TypeInv'
  BY <1>5, ListingAssumption DEF Insert
<1>6. CASE UNCHANGED listingVars
  BY <1>6 DEF listingVars
<1> QED
  BY <1>1, <1>2, <1>3, <1>4, <1>5, <1>6 DEF ListingNext

LEMMA FetchAdvances ==
    ASSUME WalkInv, NEW q \in Ordered, Fetch(q)
    PROVE  StillAhead' /\ WalkMissesNothing'
<1> DEFINE n == query.limit
           offset == Offset(page, n)
           items == {q[i] : i \in {i \in DOMAIN q :
                       offset < i /\ i <= offset + PageSize(n)}}
<1>1. /\ n \in Nat /\ page \in Nat \ {0}
      /\ page' = IF page < TotalPages(Len(q), n) THEN page + 1 ELSE 0
      /\ seen' = seen \cup items
      /\ UNCHANGED <<created, selected, query, wanted, shifted>>
  BY DEF WalkInv, TypeInv, Fetch
<1>2. /\ Len(q) \in Nat
      /\ DOMAIN q = 1..Len(q)
      /\ \A r \in selected : \E i \in DOMAIN q : q[i] = r
  BY OrderedList DEF WalkInv
<1>3. /\ offset \in Nat
      /\ Offset(page + 1, n) = offset + PageSize(n)
      /\ PageSize(n) \in Nat
  <2>1. PageSize(n) \in 1..100
    BY <1>1, PageSizeType
  <2>2. Offset(page, n) \in Nat /\ Offset(page + 1, n) = Offset(page, n) + PageSize(n)
    BY <1>1, NextOffset
  <2> QED
    BY <2>1, <2>2
<1>4. page >= TotalPages(Len(q), n) => Len(q) <= offset + PageSize(n)
  BY <1>1, <1>2, LastPage
<1>5. TotalPages(Len(q), n) \in Int
  <2>1. PageSize(n) \in 1..100
    BY <1>1, PageSizeType
  <2>2. \A m \in 1..100, total \in Nat : (total + m - 1) \div m \in Int
    OBVIOUS
  <2> QED
    BY <1>2, <2>1, <2>2 DEF TotalPages
<1>6. \A r \in Row : Alone(r)' <=> Alone(r)
  BY <1>1 DEF Alone
<1>7. \A r : DownTo(r)' = DownTo(r)
  BY <1>1 DEF DownTo
<1>8. ASSUME NEW r \in wanted, ~shifted, Alone(r), r \notin seen'
      PROVE  /\ page' = page + 1
             /\ Offset(page + 1, n) < Cardinality(DownTo(r))
  <2>1. r \in selected /\ offset < Cardinality(DownTo(r))
    BY <1>1, <1>8 DEF WalkInv, StillAhead
  <2>2. PICK k \in DOMAIN q : q[k] = r
    BY <1>2, <2>1
  <2>3. Cardinality(DownTo(r)) = k
    BY <1>8, <2>2, PlaceInList DEF WalkInv
  <2>4. k > offset + PageSize(n)
    BY <1>1, <1>2, <1>3, <1>8, <2>1, <2>2, <2>3
  <2>5. ~(page >= TotalPages(Len(q), n))
    BY <1>2, <1>3, <1>4, <2>4
  <2> QED
    BY <1>1, <1>2, <1>3, <1>5, <2>3, <2>4, <2>5
<1>9. StillAhead'
  <2> SUFFICES ASSUME page' > 0, ~shifted, NEW r \in wanted
               PROVE  /\ r \in selected
                      /\ Alone(r) => \/ r \in seen'
                                     \/ Offset(page', n) < Cardinality(DownTo(r))
    <3>1. wanted \subseteq Row
      BY DEF WalkInv, TypeInv
    <3> QED
      BY <1>1, <1>6, <1>7, <3>1 DEF StillAhead
  <2>1. r \in selected
    BY <1>1 DEF WalkInv, StillAhead
  <2> QED
    BY <1>8, <2>1
<1>10. WalkMissesNothing'
  <2> SUFFICES ASSUME page' = 0, ~shifted, NEW r \in wanted, r \notin seen'
               PROVE  \E s \in Row \ {r} : created[s] = created[r]
    BY <1>1 DEF WalkMissesNothing
  <2> QED
    BY <1>1, <1>8 DEF Alone
<1> QED
  BY <1>9, <1>10

(* An insert leaves every row of the list where it is or moves it down.    *)
LEMMA InsertKeeps ==
    ASSUME WalkInv, TypeInv', NEW x \in Row, NEW t \in 1..MaxTime, Insert(x, t)
    PROVE  StillAhead' /\ WalkMissesNothing'
<1>1. /\ created[x] = 0
      /\ created' = [created EXCEPT ![x] = t]
      /\ selected' = selected \cup {x}
      /\ UNCHANGED <<query, page, seen, wanted, shifted>>
  BY DEF Insert, Exist
<1>2. /\ created \in [Row -> 0..MaxTime] /\ wanted \subseteq Row
      /\ \A r \in selected : created[r] # 0
      /\ query.limit \in Nat /\ page \in Nat
  BY DEF WalkInv, TypeInv, Exist
<1>3. \A r \in selected : r # x /\ created'[r] = created[r]
  BY <1>1, <1>2
<1>4. \A r \in selected : Alone(r)' => Alone(r)
  BY <1>1, <1>2, <1>3 DEF Alone
<1>5. ASSUME NEW r \in selected
      PROVE  /\ Cardinality(DownTo(r)) <= Cardinality(DownTo(r)')
             /\ Cardinality(DownTo(r)) \in Nat
             /\ Cardinality(DownTo(r)') \in Nat
  <2>1. DownTo(r) \subseteq DownTo(r)'
    BY <1>1, <1>3, <1>5 DEF DownTo
  <2>2. DownTo(r) \in SUBSET selected'
    BY <1>1 DEF DownTo
  <2>3. IsFiniteSet(selected')
    BY ListingAssumption, FS_Subset DEF TypeInv
  <2> QED
    BY <2>1, <2>2, <2>3, DownToGrows
<1>6. StillAhead'
  <2> SUFFICES ASSUME page > 0, ~shifted, NEW r \in wanted
               PROVE  /\ r \in selected'
                      /\ Alone(r)' =>
                           \/ r \in seen
                           \/ Offset(page, query.limit) < Cardinality(DownTo(r)')
    BY <1>1 DEF StillAhead
  <2>1. /\ r \in selected
        /\ Alone(r) => \/ r \in seen
                       \/ Offset(page, query.limit) < Cardinality(DownTo(r))
    BY DEF WalkInv, StillAhead
  <2>2. Offset(page, query.limit) \in Nat
    BY <1>2, NextOffset
  <2> QED
    BY <1>1, <1>4, <1>5, <2>1, <2>2
<1>7. WalkMissesNothing'
  <2> SUFFICES ASSUME page = 0, seen # {}, ~shifted, NEW r \in wanted, r \notin seen
               PROVE  \E s \in Row \ {r} : created'[s] = created'[r]
    BY <1>1 DEF WalkMissesNothing
  <2>1. PICK s \in Row \ {r} : created[s] = created[r]
    BY DEF WalkInv, WalkMissesNothing
  <2>2. created[r] # 0
    BY DEF WalkInv, TypeInv, Exist
  <2>3. r # x /\ s # x
    BY <1>1, <2>1, <2>2
  <2>4. created'[s] = created[s] /\ created'[r] = created[r]
    BY <1>1, <1>2, <2>3
  <2> QED
    BY <2>1, <2>4
<1> QED
  BY <1>6, <1>7

LEMMA WalkNext == WalkInv /\ [ListingNext]_listingVars => WalkInv'
<1> SUFFICES ASSUME WalkInv, [ListingNext]_listingVars
             PROVE  StillAhead' /\ WalkMissesNothing'
  BY TypeNext DEF WalkInv
<1>1. TypeInv /\ TypeInv'
  BY TypeNext DEF WalkInv
<1>2. CASE StartWalk
  <2>1. /\ page = 0 /\ page' = 1 /\ wanted' = selected
        /\ UNCHANGED <<created, selected, query, seen, shifted>>
    BY <1>2 DEF StartWalk
  <2>2. ASSUME NEW r \in selected
        PROVE  Offset(1, query.limit) < Cardinality(DownTo(r))
    <3>1. Offset(1, query.limit) = 0
      <4>1. PageSize(query.limit) \in Int
        BY <1>1, PageSizeType DEF TypeInv
      <4> QED
        BY <4>1 DEF Offset
    <3>2. DownTo(r) \subseteq selected /\ r \in DownTo(r)
      BY <1>1, <2>2 DEF DownTo, TypeInv
    <3>3. IsFiniteSet(DownTo(r))
      BY <1>1, <3>2, ListingAssumption, FS_Subset DEF TypeInv
    <3>4. Cardinality(DownTo(r)) \in Nat /\ Cardinality(DownTo(r)) # 0
      BY <3>2, <3>3, FS_CardinalityType, FS_EmptySet
    <3> QED
      BY <3>1, <3>4
  <2>3. \A r : DownTo(r)' = DownTo(r)
    BY <2>1 DEF DownTo
  <2> QED
    BY <2>1, <2>2, <2>3 DEF StillAhead, WalkMissesNothing
<1>3. ASSUME NEW q \in Ordered, Fetch(q)
      PROVE  StillAhead' /\ WalkMissesNothing'
  BY <1>3, FetchAdvances
<1>4. ASSUME NEW r \in Row, Join(r)
      PROVE  StillAhead' /\ WalkMissesNothing'
  <2>1. /\ selected' = selected \cup {r}
        /\ UNCHANGED <<created, query, page, seen, wanted, shifted>>
    BY <1>4 DEF Join
  <2>2. \A x : Alone(x)' <=> Alone(x)
    BY <2>1 DEF Alone
  <2>3. ASSUME NEW x
        PROVE  /\ Cardinality(DownTo(x)) <= Cardinality(DownTo(x)')
               /\ Cardinality(DownTo(x)) \in Nat
               /\ Cardinality(DownTo(x)') \in Nat
    <3>1. DownTo(x) \subseteq DownTo(x)' /\ DownTo(x) \in SUBSET selected'
      BY <2>1 DEF DownTo
    <3>2. IsFiniteSet(selected')
      BY <1>1, ListingAssumption, FS_Subset DEF TypeInv
    <3> QED
      BY <3>1, <3>2, DownToGrows
  <2>4. page > 0 => Offset(page, query.limit) \in Nat
    BY <1>1, NextOffset DEF TypeInv
  <2>5. StillAhead'
    <3> SUFFICES ASSUME page > 0, ~shifted, NEW x \in wanted
                 PROVE  /\ x \in selected'
                        /\ Alone(x) =>
                             \/ x \in seen
                             \/ Offset(page, query.limit) < Cardinality(DownTo(x)')
      BY <2>1, <2>2 DEF StillAhead
    <3> QED
      BY <2>1, <2>3, <2>4 DEF WalkInv, StillAhead
  <2> QED
    BY <2>1, <2>5 DEF WalkInv, WalkMissesNothing
<1>5. ASSUME NEW r \in Row, Leave(r)
      PROVE  StillAhead' /\ WalkMissesNothing'
  <2>1. CASE page > 0
    <3>1. shifted'
      BY <1>5, <2>1 DEF Leave
    <3> QED
      BY <3>1 DEF StillAhead, WalkMissesNothing
  <2>2. CASE ~(page > 0)
    <3>1. /\ shifted' <=> shifted
          /\ UNCHANGED <<created, query, page, seen, wanted>>
      BY <1>5, <2>2 DEF Leave
    <3> QED
      BY <2>2, <3>1 DEF StillAhead, WalkMissesNothing, WalkInv
  <2> QED
    BY <2>1, <2>2
<1>6. ASSUME NEW r \in Row, NEW t \in 1..MaxTime, Insert(r, t)
      PROVE  StillAhead' /\ WalkMissesNothing'
  BY <1>1, <1>6, InsertKeeps
<1>7. CASE UNCHANGED listingVars
  <2>1. UNCHANGED <<created, selected, query, page, seen, wanted, shifted>>
    BY <1>7 DEF listingVars
  <2>2. \A x : (Alone(x)' <=> Alone(x)) /\ DownTo(x)' = DownTo(x)
    BY <2>1 DEF Alone, DownTo
  <2> QED
    BY <2>1, <2>2 DEF WalkInv, StillAhead, WalkMissesNothing
<1> QED
  BY <1>2, <1>3, <1>4, <1>5, <1>6, <1>7 DEF ListingNext

(* A client that reads the pages of a list, of any length and in pages of  *)
(* any size, while rows are inserted, misses no row that was there when it *)
(* began, unless two were created at once or one has left the list: the    *)
(* offsets of all six findAll.                                             *)
THEOREM WalkCorrect == ListingSpec => []WalkMissesNothing
<1>1. WalkInv => WalkMissesNothing
  BY DEF WalkInv
<1> QED
  BY <1>1, WalkInit, WalkNext, PTL DEF ListingSpec

-----------------------------------------------------------------------------
(* Letters *)

(* A template after the first n replacements: these variables have their   *)
(* values, the other placeholders are still there.                         *)
Partly(template, v, n, value) ==
    [i \in DOMAIN template |->
       IF \E j \in 1..n : v[j] = template[i] THEN value[template[i]]
                                             ELSE Slot(template[i])]

LetterInv ==
    letter # NoLetter =>
        LET s == letter.slug
            n == letter.replaced
            value == letter.value
            v == Variables(s)
        IN /\ letter = [slug |-> s, value |-> value, replaced |-> n,
                        subject |-> letter.subject, html |-> letter.html]
           /\ s \in Slug
           /\ n \in 0..Len(v)
           /\ DOMAIN value = Range(v)
           /\ (\A i \in DOMAIN v : Harmless(s, value, i)) =>
                /\ letter.subject = Partly(Template[s].subject, v, n, value)
                /\ letter.html = Partly(Template[s].html, v, n, value)

(* The object literals of the callers: no variable is there twice. *)
LEMMA VariablesDiffer ==
    ASSUME NEW s \in Slug
    PROVE  /\ Len(Variables(s)) \in Nat /\ DOMAIN Variables(s) = 1..Len(Variables(s))
           /\ \A i, j \in DOMAIN Variables(s) :
                i # j => Variables(s)[i] # Variables(s)[j]
<1>1. CASE s = "welcome"
  <2>1. Variables(s) = WelcomeVariables
    BY <1>1 DEF Variables
  <2>2. Len(WelcomeVariables) = 5 /\ DOMAIN WelcomeVariables = 1..5
    BY DEF WelcomeVariables
  <2>3. \A i, j \in 1..5 : i # j => WelcomeVariables[i] # WelcomeVariables[j]
    BY DEF WelcomeVariables
  <2> QED
    BY <2>1, <2>2, <2>3
<1>2. CASE s = "invoice-reminder"
  <2>1. Variables(s) = ReminderVariables
    BY <1>2 DEF Variables
  <2>2. Len(ReminderVariables) = 6 /\ DOMAIN ReminderVariables = 1..6
    BY DEF ReminderVariables
  <2>3. \A i, j \in 1..6 : i # j => ReminderVariables[i] # ReminderVariables[j]
    BY DEF ReminderVariables
  <2> QED
    BY <2>1, <2>2, <2>3
<1>3. CASE s = "invoice-overdue"
  <2>1. Variables(s) = OverdueVariables
    BY <1>3 DEF Variables
  <2>2. Len(OverdueVariables) = 6 /\ DOMAIN OverdueVariables = 1..6
    BY DEF OverdueVariables
  <2>3. \A i, j \in 1..6 : i # j => OverdueVariables[i] # OverdueVariables[j]
    BY DEF OverdueVariables
  <2> QED
    BY <2>1, <2>2, <2>3
<1>4. CASE s = "invoice-paid"
  <2>1. Variables(s) = PaidVariables
    BY <1>4 DEF Variables
  <2>2. Len(PaidVariables) = 7 /\ DOMAIN PaidVariables = 1..7
    BY DEF PaidVariables
  <2>3. \A i, j \in 1..7 : i # j => PaidVariables[i] # PaidVariables[j]
    BY DEF PaidVariables
  <2> QED
    BY <2>1, <2>2, <2>3
<1> QED
  BY <1>1, <1>2, <1>3, <1>4 DEF Slug, Template

(* Every placeholder of a template is a variable of its caller. *)
LEMMA VariablesSuffice ==
    ASSUME NEW s \in Slug
    PROVE  \A k \in Range(Template[s].subject) \cup Range(Template[s].html) :
               k \in Range(Variables(s))
<1>1. CASE s = "welcome"
  BY <1>1 DEF Slug, Template, Welcome, Variables, WelcomeVariables, Range
<1>2. CASE s = "invoice-reminder"
  BY <1>2 DEF Slug, Template, InvoiceReminder, Variables, ReminderVariables, Range
<1>3. CASE s = "invoice-overdue"
  BY <1>3 DEF Slug, Template, InvoiceOverdue, Variables, OverdueVariables, Range
<1>4. CASE s = "invoice-paid"
  BY <1>4 DEF Slug, Template, InvoicePaid, Variables, PaidVariables, Range
<1> QED
  BY <1>1, <1>2, <1>3, <1>4 DEF Slug, Template

LEMMA SlotsDiffer ==
    ASSUME NEW k, NEW l, Slot(k) = Slot(l)
    PROVE  k = l
  BY DEF Slot

(* One replacement touches the placeholders of its own variable and        *)
(* nothing that the replacements before it have put in.                    *)
LEMMA OneMoreReplaced ==
    ASSUME NEW s \in Slug, NEW value, NEW template,
           NEW n \in 0..Len(Variables(s)), n < Len(Variables(s)),
           \A i \in DOMAIN Variables(s) : Harmless(s, value, i)
    PROVE  LET v == Variables(s)
           IN Substitute(Partly(template, v, n, value), v[n + 1], value[v[n + 1]])
                = Partly(template, v, n + 1, value)
<1> DEFINE v == Variables(s)
           key == v[n + 1]
           text == Partly(template, v, n, value)
<1>1. /\ DOMAIN v = 1..Len(v) /\ Len(v) \in Nat
      /\ \A i, j \in DOMAIN v : i # j => v[i] # v[j]
      /\ n + 1 \in DOMAIN v
  BY VariablesDiffer
<1>2. /\ value[key] # Match
      /\ \A i, j \in DOMAIN v : value[v[i]] = Slot(v[j]) => j <= i
  BY <1>1 DEF Harmless
<1>3. ASSUME NEW i \in DOMAIN template
      PROVE  (IF text[i] # Slot(key) THEN text[i] ELSE value[key])
               = Partly(template, v, n + 1, value)[i]
  <2> DEFINE k == template[i]
  <2>1. text[i] = IF \E j \in 1..n : v[j] = k THEN value[k] ELSE Slot(k)
    BY DEF Partly
  <2>2. Partly(template, v, n + 1, value)[i]
          = IF \E j \in 1..(n + 1) : v[j] = k THEN value[k] ELSE Slot(k)
    BY DEF Partly
  <2>3. CASE \E j \in 1..n : v[j] = k
    <3>1. PICK j \in 1..n : v[j] = k
      BY <2>3
    <3>2. value[k] # Slot(key)
      BY <1>1, <1>2, <3>1
    <3>3. \E m \in 1..(n + 1) : v[m] = k
      BY <3>1
    <3> QED
      BY <2>1, <2>2, <2>3, <3>2, <3>3
  <2>4. CASE k = key
    <3>1. ~(\E j \in 1..n : v[j] = k)
      BY <1>1, <2>4
    <3>2. \E m \in 1..(n + 1) : v[m] = k
      BY <1>1, <2>4
    <3> QED
      BY <2>1, <2>2, <2>4, <3>1, <3>2
  <2>5. CASE k # key /\ ~(\E j \in 1..n : v[j] = k)
    <3>1. ~(\E m \in 1..(n + 1) : v[m] = k)
      BY <1>1, <2>5
    <3>2. Slot(k) # Slot(key)
      BY <2>5, SlotsDiffer
    <3> QED
      BY <2>1, <2>2, <2>5, <3>1, <3>2
  <2> QED
    BY <2>3, <2>4, <2>5
<1>4. DOMAIN text = DOMAIN template
  BY DEF Partly
<1>5. Substitute(text, key, value[key])
        = [i \in DOMAIN template |-> Partly(template, v, n + 1, value)[i]]
  BY <1>2, <1>3, <1>4 DEF Substitute
<1>6. [i \in DOMAIN template |-> Partly(template, v, n + 1, value)[i]]
        = Partly(template, v, n + 1, value)
  BY DEF Partly
<1> QED
  BY <1>5, <1>6

LEMMA LetterNext ==
    ASSUME LetterInv, [TemplatesNext]_templatesVars
    PROVE  LetterInv'
<1>1. ASSUME NEW s \in Slug, SeedTemplate(s)
      PROVE  LetterInv'
  BY <1>1 DEF SeedTemplate, LetterInv
<1>2. ASSUME NEW s \in Slug, NEW value \in Values(s), Render(s, value)
      PROVE  LetterInv'
  <2>1. letter' = [slug |-> s, value |-> value, replaced |-> 0,
                   subject |-> Text(Template[s].subject),
                   html |-> Text(Template[s].html)]
    BY <1>2 DEF Render
  <2>2. /\ letter'.slug = s /\ letter'.value = value /\ letter'.replaced = 0
        /\ letter'.subject = Text(Template[s].subject)
        /\ letter'.html = Text(Template[s].html)
    BY <2>1
  <2>3. DOMAIN value = Range(Variables(s))
    BY DEF Values
  <2>4. \A template : Text(template) = Partly(template, Variables(s), 0, value)
    BY DEF Text, Partly
  <2>5. Len(Variables(s)) \in Nat
    BY VariablesDiffer
  <2> QED
    BY <2>1, <2>2, <2>3, <2>4, <2>5 DEF LetterInv
<1>3. ASSUME ReplaceNext
      PROVE  LetterInv'
  <2> DEFINE s == letter.slug
             n == letter.replaced
             value == letter.value
             v == Variables(s)
             key == v[n + 1]
  <2>1. /\ letter # NoLetter
        /\ n # Len(v)
        /\ letter' = [letter EXCEPT
                        !.replaced = @ + 1,
                        !.subject = Substitute(@, key, value[key]),
                        !.html = Substitute(@, key, value[key])]
    BY <1>3 DEF ReplaceNext, Rendered
  <2>2. /\ letter = [slug |-> s, value |-> value, replaced |-> n,
                     subject |-> letter.subject, html |-> letter.html]
        /\ s \in Slug
        /\ n \in 0..Len(v)
        /\ DOMAIN value = Range(v)
    BY <2>1 DEF LetterInv
  <2>3. letter' = [slug |-> s, value |-> value, replaced |-> n + 1,
                   subject |-> Substitute(letter.subject, key, value[key]),
                   html |-> Substitute(letter.html, key, value[key])]
    BY <2>1, <2>2
  <2>4. /\ letter'.slug = s /\ letter'.value = value /\ letter'.replaced = n + 1
        /\ letter'.subject = Substitute(letter.subject, key, value[key])
        /\ letter'.html = Substitute(letter.html, key, value[key])
    BY <2>3
  <2>5. Len(v) \in Nat
    BY <2>2, VariablesDiffer
  <2>6. n + 1 \in 0..Len(v) /\ n < Len(v)
    BY <2>1, <2>2, <2>5
  <2>7. ASSUME \A i \in DOMAIN v : Harmless(s, value, i)
        PROVE  /\ letter'.subject = Partly(Template[s].subject, v, n + 1, value)
               /\ letter'.html = Partly(Template[s].html, v, n + 1, value)
    <3>1. /\ letter.subject = Partly(Template[s].subject, v, n, value)
          /\ letter.html = Partly(Template[s].html, v, n, value)
      BY <2>1, <2>7 DEF LetterInv
    <3> HIDE DEF s, n, value
    <3>2. \A template :
            Substitute(Partly(template, v, n, value), key, value[key])
              = Partly(template, v, n + 1, value)
      BY <2>2, <2>6, <2>7, OneMoreReplaced
    <3> QED
      BY <2>4, <3>1, <3>2
  <2> QED
    BY <2>2, <2>3, <2>4, <2>6, <2>7 DEF LetterInv
<1>4. CASE UNCHANGED templatesVars
  BY <1>4 DEF templatesVars, LetterInv
<1> QED
  BY <1>1, <1>2, <1>3, <1>4 DEF TemplatesNext

LEMMA LettersFilled == LetterInv => LettersAreFilled
<1> SUFFICES ASSUME LetterInv, letter # NoLetter, Rendered,
                    \A i \in DOMAIN Variables(letter.slug) :
                        Harmless(letter.slug, letter.value, i)
             PROVE  LET s == letter.slug
                        value == letter.value
                        Filled(template) ==
                            [i \in DOMAIN template |-> value[template[i]]]
                    IN /\ \A k \in Range(Template[s].subject)
                                    \cup Range(Template[s].html) : k \in DOMAIN value
                       /\ letter.subject = Filled(Template[s].subject)
                       /\ letter.html = Filled(Template[s].html)
  BY DEF LettersAreFilled
<1> DEFINE s == letter.slug
           value == letter.value
           v == Variables(s)
<1>1. /\ s \in Slug /\ DOMAIN value = Range(v)
      /\ letter.subject = Partly(Template[s].subject, v, Len(v), value)
      /\ letter.html = Partly(Template[s].html, v, Len(v), value)
  BY DEF LetterInv, Rendered
<1>2. \A k \in Range(Template[s].subject) \cup Range(Template[s].html) : k \in Range(v)
  BY <1>1, VariablesSuffice
<1>3. \A k \in Range(v) : \E j \in 1..Len(v) : v[j] = k
  BY <1>1, VariablesDiffer DEF Range
<1>4. ASSUME NEW template, Range(template) \subseteq Range(v)
      PROVE  Partly(template, v, Len(v), value)
               = [i \in DOMAIN template |-> value[template[i]]]
  <2>1. \A i \in DOMAIN template : \E j \in 1..Len(v) : v[j] = template[i]
    BY <1>3, <1>4 DEF Range
  <2> QED
    BY <2>1 DEF Partly
<1> QED
  BY <1>1, <1>2, <1>4

(* Whatever the owners and businesses are called, and whichever            *)
(* placeholders a name may spell: a letter that render has finished holds  *)
(* its own value for every placeholder of its template, if the values are  *)
(* harmless.                                                               *)
THEOREM LettersCorrect == TemplatesSpec => []LettersAreFilled
<1>1. TemplatesInit => LetterInv
  BY DEF TemplatesInit, LetterInv
<1> QED
  BY <1>1, LetterNext, LettersFilled, PTL DEF TemplatesSpec
=============================================================================
