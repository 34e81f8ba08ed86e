----------------------------- MODULE PagesProofs -----------------------------
(***************************************************************************)
(* Theorems of module Pages, for every set of readers, number of polls and *)
(* of options, bound on writes and faults, and every database. Inv says    *)
(* which polls a walk has met and still owes, RowInv on top of it what is  *)
(* known of the rows: that they were stored, read off or decoded as they   *)
(* were. DecodedAsStored is about every order of a hash's fields; what is  *)
(* decoded after n of them follows for every n because a set of numbers    *)
(* has a least one.                                                        *)
(***************************************************************************)
EXTENDS Pages, TLAPS, FunctionTheorems, FiniteSetTheorems, WellFoundedInduction

(* The types of what decides which polls are on a page.                    *)
Keys == Paths \cup {CounterKey}
Walks == [seen : SUBSET Keys, todo : SUBSET Keys, calls : Nat, over : BOOLEAN]

WalkTypes ==
    /\ mode \in Backends
    /\ log \in Seq(Paths \X (Fields \cup {Created}))
    /\ writing \in [Paths -> Fields \cup {NoField}]
    /\ faults \in 0 .. MaxFaults
    /\ pc \in [Readers -> {"idle"} \cup Busy \cup Ended]
    /\ page \in [Readers -> {"vote", "list"}]
    /\ began \in [Readers -> Nat]
    /\ base \in [Readers -> [polls : SUBSET Paths, at : Nat]]
    /\ walk \in [Readers -> Walks]
    /\ errs \in [Readers -> [data : Nat, find : Nat]]
    /\ DOMAIN shown = Readers /\ shown = [r \in Readers |-> shown[r]]

OnPage(r, p) == \E item \in shown[r] : item.path = p

(* A walk under way: what it owes is what was stored when it asked, what   *)
(* it has met is stored, and is on the page or still to be fetched. A SCAN *)
(* that is over has met all that it owes.                                  *)
WalkInv(r) ==
    page[r] = "list" /\ pc[r] \in Busy \ {"begin"} =>
        /\ base[r].at \in began[r] .. Now
        /\ base[r].polls = StoredAt(base[r].at)
        /\ walk[r].seen \subseteq StoredAt(Now)
        /\ walk[r].todo \subseteq walk[r].seen
        /\ \A p \in walk[r].seen \ walk[r].todo : OnPage(r, p)
        /\ mode = "redis" /\ walk[r].over => base[r].polls \subseteq walk[r].seen
        /\ mode # "redis" =>
            IF pc[r] = "walk" THEN walk[r].todo = {} ELSE \E p \in Paths : walk[r].todo = {p}

(* GET /vote looks for one poll and walks over none.                       *)
VoteInv(r) ==
    page[r] = "vote" =>
        /\ pc[r] \notin {"begin", "walk"}
        /\ pc[r] = "find" => \E p \in Paths : walk[r].todo = {p}

(* The conjuncts of PageIsComplete and RefusedWithCause for one reader.    *)
CompleteInv(r) ==
    pc[r] = "done" /\ page[r] = "list" /\ ~CutShort(r) =>
        \A p \in StoredAt(began[r]) : OnPage(r, p)

CauseInv(r) ==
    /\ pc[r] = "notfound" => walk[r].todo \cap StoredAt(began[r]) = {}
    /\ pc[r] = "panic" =>
        /\ faults < MaxFaults
        /\ mode = "redis" => Tries \in {errs[r].data, errs[r].find}

ReaderInv(r) ==
    began[r] <= Now /\ WalkInv(r) /\ VoteInv(r) /\ CompleteInv(r) /\ CauseInv(r)

Inv == WalkTypes /\ \A r \in Readers : ReaderInv(r)

-----------------------------------------------------------------------------
(* Decoding.                                                               *)

(* Among numbers there is a least one.                                     *)
LEMMA LeastNumber ==
    ASSUME NEW T, T \subseteq Nat, T # {}
    PROVE  \E n \in T : \A m \in T : n <= m
<1>1. PICK n \in T : \A m \in T : ~ (<<m, n>> \in OpToRel(<, Nat))
  BY NatLessThanWellFounded, WFMin
<1>2. \A m \in T : ~ (m < n)
  BY <1>1 DEF OpToRel
<1> QED
  BY <1>2

(* A set of numbers with 0 and with every number's successor has them all. *)
LEMMA AllNumbers ==
    ASSUME NEW T \in SUBSET Nat, 0 \in T, \A n \in T : n + 1 \in T
    PROVE  T = Nat
<1> SUFFICES ASSUME Nat \ T # {} PROVE FALSE
  OBVIOUS
<1>1. PICK n \in Nat \ T : \A m \in Nat \ T : n <= m
  BY LeastNumber
<1>2. n # 0 /\ n - 1 \in T
  BY <1>1
<1> QED
  BY <1>1, <1>2

(* The options after each field of the hash.                               *)
Decoding(d, L, order, opts) ==
    d = [n \in 0 .. L |-> IF n = 0 THEN <<>> ELSE Place(d[n - 1], order[n], opts)]

(* They exist, for every number of fields.                                 *)
LEMMA DecodingExists ==
    ASSUME NEW order, NEW opts
    PROVE  \A L \in Nat : \E d : Decoding(d, L, order, opts)
<1> DEFINE T == {L \in Nat : \E d : Decoding(d, L, order, opts)}
<1>1. 0 \in T
  <2>1. Decoding([n \in 0 .. 0 |-> <<>>], 0, order, opts)
    BY DEF Decoding
  <2> QED
    BY <2>1
<1>2. ASSUME NEW L \in T PROVE L + 1 \in T
  <2>1. PICK d : Decoding(d, L, order, opts)
    BY <1>2
  <2> DEFINE e == [n \in 0 .. L + 1 |->
                      IF n = L + 1 THEN Place(d[L], order[L + 1], opts) ELSE d[n]]
  <2>2. ASSUME NEW n \in 0 .. L + 1
        PROVE  e[n] = IF n = 0 THEN <<>> ELSE Place(e[n - 1], order[n], opts)
    <3>1. CASE n = L + 1
      <4>1. n # 0 /\ n - 1 = L /\ n - 1 \in 0 .. L + 1 /\ n - 1 # L + 1
        BY <3>1
      <4>2. e[n] = Place(d[L], order[n], opts) /\ e[n - 1] = d[L]
        BY <3>1, <4>1
      <4> QED
        BY <4>1, <4>2
    <3>2. CASE n # L + 1
      <4>1. n \in 0 .. L /\ e[n] = d[n] /\ (n # 0 => n - 1 \in 0 .. L /\ e[n - 1] = d[n - 1])
        BY <3>2
      <4>2. d[n] = IF n = 0 THEN <<>> ELSE Place(d[n - 1], order[n], opts)
        BY <2>1, <4>1 DEF Decoding
      <4> QED
        BY <4>1, <4>2
    <3> QED
      BY <3>1, <3>2
  <2>3. Decoding(e, L + 1, order, opts)
    <3>1. e = [n \in 0 .. L + 1 |-> e[n]]
      OBVIOUS
    <3> HIDE DEF e
    <3> QED
      BY <2>2, <3>1 DEF Decoding
  <2> QED
    BY <2>3
<1>3. T = Nat
  BY <1>1, <1>2, AllNumbers
<1> QED
  BY <1>3

(* What DecodeOptions returns is the last of them.                         *)
LEMMA DecodedLast ==
    ASSUME NEW order, NEW opts, Len(order) \in Nat
    PROVE  \E d : /\ Decoding(d, Len(order), order, opts)
                  /\ DecodeOptions(order, opts) = d[Len(order)]
<1> DEFINE d == CHOOSE e : Decoding(e, Len(order), order, opts)
<1>1. Decoding(d, Len(order), order, opts)
  BY DecodingExists
<1>2. DecodeOptions(order, opts) = d[Len(order)]
  BY DEF DecodeOptions, Decoding
<1> QED
  BY <1>1, <1>2

(* The first m options after the first n fields: what of them is among     *)
(* these fields, and zero for the rest.                                    *)
Met(order, n, key, j) == \E i \in 1 .. n : order[i] = <<key, j>>

Partly(order, opts, n, m) ==
    [j \in 1 .. m |-> [name |-> IF Met(order, n, "name", j) THEN opts[j].name ELSE 0,
                       num |-> IF Met(order, n, "num", j) THEN opts[j].num ELSE 0]]

(* Options as they are stored.                                             *)
StoredOptions == [Options -> [name : Nat, num : Nat]]

(* A longer slice begins with what was decoded, and is zero from there on, *)
(* where no field has been met.                                            *)
LEMMA GrowPartly ==
    ASSUME NEW order, NEW opts, NEW n \in Nat, NEW m \in 0 .. NumOptions, NEW o \in Options,
           \A i \in 1 .. n : order[i][2] \in 1 .. m
    PROVE  grow(Partly(order, opts, n, m), o) =
               Partly(order, opts, n, IF m >= o THEN m ELSE o)
<1> DEFINE s == Partly(order, opts, n, m)
<1>0. NumOptions \in Nat /\ m \in Nat /\ o \in Nat
  BY NumOptionsAssumption DEF Options
<1>1. Len(s) = m /\ DOMAIN s = 1 .. m
  BY <1>0 DEF Partly
<1>2. CASE m >= o
  BY <1>1, <1>2 DEF grow
<1>3. CASE ~ (m >= o)
  <2>1. ASSUME NEW j \in 1 .. o, ~ (j <= m), NEW key PROVE ~ Met(order, n, key, j)
    <3> SUFFICES ASSUME NEW i \in 1 .. n, order[i] = <<key, j>> PROVE FALSE
      BY DEF Met
    <3>1. order[i][2] = j
      OBVIOUS
    <3> QED
      BY <1>0, <2>1, <3>1
  <2>2. ASSUME NEW j \in 1 .. o
        PROVE  (IF j <= Len(s) THEN s[j] ELSE Zero) = Partly(order, opts, n, o)[j]
    <3>1. CASE j <= m
      BY <1>0, <1>1, <3>1 DEF Partly
    <3>2. CASE ~ (j <= m)
      <4>1. ~ Met(order, n, "name", j) /\ ~ Met(order, n, "num", j)
        BY <2>1, <3>2
      <4>2. Partly(order, opts, n, o)[j] = [name |-> 0, num |-> 0]
        BY <4>1 DEF Partly
      <4> QED
        BY <1>1, <3>2, <4>2 DEF Zero
    <3> QED
      BY <3>1, <3>2
  <2>3. grow(s, o) = [j \in 1 .. o |-> IF j <= Len(s) THEN s[j] ELSE Zero]
    BY <1>1, <1>3 DEF grow
  <2>4. Partly(order, opts, n, o) = [j \in 1 .. o |-> Partly(order, opts, n, o)[j]]
    BY DEF Partly
  <2>5. [j \in 1 .. o |-> IF j <= Len(s) THEN s[j] ELSE Zero]
            = [j \in 1 .. o |-> Partly(order, opts, n, o)[j]]
    BY <2>2
  <2> QED
    BY <1>3, <2>3, <2>4, <2>5
<1> QED
  BY <1>2, <1>3

(* One more field is one more field met.                                   *)
LEMMA PlaceStep ==
    ASSUME NEW order, NEW opts \in StoredOptions, NEW n \in Nat, NEW m \in 0 .. NumOptions,
           \A i \in 1 .. n : order[i][2] \in 1 .. m,
           NEW key \in {"name", "num"}, NEW o \in Options, order[n + 1] = <<key, o>>
    PROVE  LET k == IF m >= o THEN m ELSE o IN
           /\ k \in 0 .. NumOptions
           /\ Place(Partly(order, opts, n, m), order[n + 1], opts)
                  = Partly(order, opts, n + 1, k)
           /\ \A i \in 1 .. n + 1 : order[i][2] \in 1 .. k
<1> DEFINE k == IF m >= o THEN m ELSE o
           s == Partly(order, opts, n, k)
           t == Partly(order, opts, n + 1, k)
<1>0. NumOptions \in Nat /\ m \in Nat /\ o \in Nat /\ o >= 1
  BY NumOptionsAssumption DEF Options
<1>1. k \in 0 .. NumOptions /\ o \in 1 .. k /\ m <= k
  BY <1>0 DEF Options
<1>2. \A i \in 1 .. n + 1 : order[i][2] \in 1 .. k
  <2>1. order[n + 1][2] = o
    OBVIOUS
  <2>2. \A i \in 1 .. n + 1 : i \in 1 .. n \/ i = n + 1
    OBVIOUS
  <2> QED
    BY <1>0, <1>1, <2>1, <2>2
<1> HIDE DEF k
<1>3. \A j, x : Met(order, n + 1, x, j) <=> Met(order, n, x, j) \/ (x = key /\ j = o)
  <2>1. \A i \in 1 .. n + 1 : i \in 1 .. n \/ i = n + 1
    OBVIOUS
  <2>2. n + 1 \in 1 .. n + 1 /\ 1 .. n \subseteq 1 .. n + 1
    OBVIOUS
  <2> QED
    BY <2>1, <2>2 DEF Met
<1>4. Place(Partly(order, opts, n, m), order[n + 1], opts) = [s EXCEPT ![o][key] = opts[o][key]]
  <2>1. order[n + 1][1] = key /\ order[n + 1][2] = o
    OBVIOUS
  <2> QED
    BY <2>1, GrowPartly DEF Place, k
<1>5. ASSUME NEW j \in 1 .. k, j # o PROVE s[j] = t[j]
  BY <1>3, <1>5 DEF Partly
<1>6. [s[o] EXCEPT ![key] = opts[o][key]] = t[o]
  <2>1. s[o] = [name |-> IF Met(order, n, "name", o) THEN opts[o].name ELSE 0,
                num |-> IF Met(order, n, "num", o) THEN opts[o].num ELSE 0]
    BY <1>1 DEF Partly
  <2>2. t[o] = [name |-> IF Met(order, n + 1, "name", o) THEN opts[o].name ELSE 0,
                num |-> IF Met(order, n + 1, "num", o) THEN opts[o].num ELSE 0]
    BY <1>1 DEF Partly
  <2>3. CASE key = "name"
    <3>1. Met(order, n + 1, "name", o) /\ (Met(order, n + 1, "num", o) <=> Met(order, n, "num", o))
      BY <1>3, <2>3
    <3>2. t[o] = [name |-> opts[o].name,
                  num |-> IF Met(order, n, "num", o) THEN opts[o].num ELSE 0]
      BY <2>2, <3>1
    <3> QED
      BY <2>1, <2>3, <3>2
  <2>4. CASE key = "num"
    <3>1. Met(order, n + 1, "num", o) /\ (Met(order, n + 1, "name", o) <=> Met(order, n, "name", o))
      BY <1>3, <2>4
    <3>2. t[o] = [name |-> IF Met(order, n, "name", o) THEN opts[o].name ELSE 0,
                  num |-> opts[o].num]
      BY <2>2, <3>1
    <3> QED
      BY <2>1, <2>4, <3>2
  <2> QED
    BY <2>3, <2>4
<1>7. [s EXCEPT ![o][key] = opts[o][key]] = t
  <2>1. s = [j \in 1 .. k |-> s[j]] /\ t = [j \in 1 .. k |-> t[j]] /\ DOMAIN s = 1 .. k
    BY DEF Partly
  <2> HIDE DEF s, t
  <2>2. [s EXCEPT ![o][key] = opts[o][key]]
            = [j \in 1 .. k |-> IF j = o THEN [s[o] EXCEPT ![key] = opts[o][key]] ELSE s[j]]
    BY <1>1, <2>1
  <2>3. \A j \in 1 .. k :
            (IF j = o THEN [s[o] EXCEPT ![key] = opts[o][key]] ELSE s[j]) = t[j]
    BY <1>5, <1>6
  <2> QED
    BY <2>1, <2>2, <2>3
<1> QED
  BY <1>1, <1>2, <1>4, <1>7 DEF k

(* After any number of fields, the options are decoded as far as they are  *)
(* among these fields.                                                     *)
LEMMA DecodedPartly ==
    ASSUME NEW L \in Nat, NEW order \in [1 .. L -> HashFields], NEW opts \in StoredOptions,
           NEW d, Decoding(d, L, order, opts)
    PROVE  \E m \in 0 .. NumOptions :
               /\ d[L] = Partly(order, opts, L, m)
               /\ \A i \in 1 .. L : order[i][2] \in 1 .. m
<1> DEFINE Q(n) == \E m \in 0 .. NumOptions :
                       /\ d[n] = Partly(order, opts, n, m)
                       /\ \A i \in 1 .. n : order[i][2] \in 1 .. m
           T == {n \in Nat : n <= L => Q(n)}
<1>1. 0 \in T
  <2>1. d[0] = <<>>
    BY DEF Decoding
  <2>2. Partly(order, opts, 0, 0) = <<>>
    BY DEF Partly
  <2>3. 0 \in 0 .. NumOptions /\ \A i \in 1 .. 0 : order[i][2] \in 1 .. 0
    BY NumOptionsAssumption
  <2> QED
    BY <2>1, <2>2, <2>3
<1>2. ASSUME NEW n \in T PROVE n + 1 \in T
  <2> SUFFICES ASSUME n + 1 <= L PROVE Q(n + 1)
    OBVIOUS
  <2>1. PICK m \in 0 .. NumOptions : /\ d[n] = Partly(order, opts, n, m)
                                     /\ \A i \in 1 .. n : order[i][2] \in 1 .. m
    BY <1>2
  <2>2. d[n + 1] = Place(d[n], order[n + 1], opts)
    <3>1. n + 1 \in 0 .. L /\ n + 1 # 0 /\ (n + 1) - 1 = n
      OBVIOUS
    <3> QED
      BY <3>1 DEF Decoding
  <2>3. PICK key \in {"name", "num"}, o \in Options : order[n + 1] = <<key, o>>
    <3>1. n + 1 \in 1 .. L
      OBVIOUS
    <3>2. order[n + 1] \in {"name", "num"} \X Options
      BY <3>1 DEF HashFields
    <3> QED
      BY <3>2
  <2>4. \E k \in 0 .. NumOptions :
            /\ Place(Partly(order, opts, n, m), order[n + 1], opts)
                   = Partly(order, opts, n + 1, k)
            /\ \A i \in 1 .. n + 1 : order[i][2] \in 1 .. k
    <3> DEFINE k == IF m >= o THEN m ELSE o
    <3>1. n \in Nat
      BY <1>2
    <3>2. /\ k \in 0 .. NumOptions
          /\ Place(Partly(order, opts, n, m), order[n + 1], opts)
                 = Partly(order, opts, n + 1, k)
          /\ \A i \in 1 .. n + 1 : order[i][2] \in 1 .. k
      <4> HIDE DEF Q, T
      <4> QED
        BY <2>1, <2>3, <3>1, PlaceStep
    <3> QED
      BY <3>2
  <2> QED
    BY <2>1, <2>2, <2>4
<1>3. L \in T
  <2>1. T \in SUBSET Nat
    OBVIOUS
  <2> HIDE DEF T
  <2> QED
    BY <1>1, <1>2, <2>1, AllNumbers
<1> QED
  BY <1>3

(* The fields of a hash can be counted, and an order of them has them all. *)
LEMMA OrderHasAll ==
    ASSUME NEW order \in FieldOrders
    PROVE  /\ Cardinality(HashFields) \in Nat
           /\ order \in [1 .. Cardinality(HashFields) -> HashFields]
           /\ \A x \in HashFields : \E i \in 1 .. Cardinality(HashFields) : order[i] = x
<1> DEFINE N == Cardinality(HashFields)
<1>1. IsFiniteSet(Options)
  BY NumOptionsAssumption, FS_Interval DEF Options
<1>2. IsFiniteSet({"name", "num"})
  <2>1. IsFiniteSet({} \cup {"name"})
    BY FS_EmptySet, FS_AddElement
  <2>2. IsFiniteSet(({} \cup {"name"}) \cup {"num"})
    BY <2>1, FS_AddElement
  <2>3. ({} \cup {"name"}) \cup {"num"} = {"name", "num"}
    OBVIOUS
  <2> QED
    BY <2>2, <2>3
<1>3. IsFiniteSet(HashFields)
  BY <1>1, <1>2, FS_Product DEF HashFields
<1>4. N \in Nat
  BY <1>3, FS_CardinalityType
<1>5. Cardinality(1 .. N) = N
  BY <1>4, FS_Interval
<1>6. order \in [1 .. N -> HashFields] /\ order \in Injection(1 .. N, HashFields)
  BY DEF FieldOrders, Injection, IsInjective
<1>7. order \in Surjection(1 .. N, HashFields)
  BY <1>3, <1>5, <1>6, FS_Injection
<1> QED
  BY <1>4, <1>6, <1>7 DEF Surjection

(* Whatever order the fields of a hash come in, the options are decoded as *)
(* they were stored: all of them, each with its name and its votes.        *)
LEMMA DecodedAsStored ==
    ASSUME NEW opts \in StoredOptions, NEW order \in FieldOrders
    PROVE  DecodeOptions(order, opts) = opts
<1> DEFINE N == Cardinality(HashFields)
<1>1. N \in Nat /\ order \in [1 .. N -> HashFields]
  BY OrderHasAll
<1>2. Len(order) = N
  BY <1>1
<1>3. PICK d : /\ Decoding(d, N, order, opts)
               /\ DecodeOptions(order, opts) = d[N]
  BY <1>1, <1>2, DecodedLast
<1>4. PICK m \in 0 .. NumOptions : /\ d[N] = Partly(order, opts, N, m)
                                   /\ \A i \in 1 .. N : order[i][2] \in 1 .. m
  BY <1>1, <1>3, DecodedPartly
<1>5. ASSUME NEW key \in {"name", "num"}, NEW o \in Options PROVE Met(order, N, key, o) /\ o <= m
  <2>1. <<key, o>> \in HashFields
    BY DEF HashFields
  <2>2. PICK i \in 1 .. N : order[i] = <<key, o>>
    BY <2>1, OrderHasAll
  <2>3. order[i][2] = o
    BY <2>2
  <2> QED
    BY <1>4, <2>2, <2>3 DEF Met
<1>6. m = NumOptions
  <2>1. NumOptions \in Options /\ NumOptions \in Nat
    BY NumOptionsAssumption DEF Options
  <2>2. NumOptions <= m
    BY <1>5, <2>1
  <2> QED
    BY <2>1, <2>2
<1>7. Partly(order, opts, N, m) = [o \in Options |-> Partly(order, opts, N, m)[o]]
  BY <1>6 DEF Partly, Options
<1>8. ASSUME NEW o \in Options PROVE Partly(order, opts, N, m)[o] = opts[o]
  <2>1. Met(order, N, "name", o) /\ Met(order, N, "num", o)
    BY <1>5
  <2>2. Partly(order, opts, N, m)[o] = [name |-> opts[o].name, num |-> opts[o].num]
    BY <1>6, <2>1 DEF Partly, Options
  <2>3. opts[o] \in [name : Nat, num : Nat]
    BY DEF StoredOptions
  <2> QED
    BY <2>2, <2>3
<1>9. opts = [o \in Options |-> opts[o]]
  BY DEF StoredOptions
<1> QED
  BY <1>3, <1>4, <1>7, <1>8, <1>9

-----------------------------------------------------------------------------
(* The log.                                                                *)

(* The database only adds to what it has taken: whatever was stored at a   *)
(* moment stays so, and nothing is put in before it.                       *)
LEMMA LogGrows ==
    ASSUME WalkTypes, \/ log' = log
                      \/ \E x \in Paths \X (Fields \cup {Created}) : log' = Append(log, x)
    PROVE  /\ log' \in Seq(Paths \X (Fields \cup {Created}))
           /\ Now \in Nat /\ Now' \in Nat /\ Now <= Now'
           /\ \A i \in 1 .. Now : log'[i] = log[i]
           /\ StoredAt(Now) \subseteq StoredAt(Now)'
<1> DEFINE S == Paths \X (Fields \cup {Created})
<1>1. log \in Seq(S) /\ Len(log) \in Nat
  BY DEF WalkTypes
<1>2. /\ log' \in Seq(S) /\ Len(log') \in Nat /\ Len(log) <= Len(log')
      /\ \A i \in 1 .. Len(log) : log'[i] = log[i]
  <2>1. CASE log' = log
    BY <1>1, <2>1
  <2>2. ASSUME NEW x \in S, log' = Append(log, x)
        PROVE  /\ log' \in Seq(S) /\ Len(log') \in Nat /\ Len(log) <= Len(log')
               /\ \A i \in 1 .. Len(log) : log'[i] = log[i]
    BY <1>1, <2>2
  <2> QED
    BY <2>1, <2>2
<1>3. StoredAt(Now) \subseteq StoredAt(Now)'
  BY <1>1, <1>2 DEF StoredAt, Stored, Now
<1> QED
  BY <1>1, <1>2, <1>3 DEF Now

(* What was stored earlier is stored later.                                *)
LEMMA StoredLater ==
    ASSUME WalkTypes, NEW j \in Nat, NEW k \in Nat, j <= k
    PROVE  StoredAt(j) \subseteq StoredAt(k) /\ StoredAt(k) \subseteq Paths
BY DEF StoredAt, Stored

(* A poll has a number, and the counter's key is none.                     *)
LEMMA CounterIsNoPoll == CounterKey \notin Paths /\ Paths \subseteq Nat
BY DEF CounterKey, Paths

-----------------------------------------------------------------------------
(* Types.                                                                  *)

(* A step of one reader or of a writer, and what it does to the log.       *)
Writer ==
    \E p \in Paths :
        CreateVote(p) \/ WrittenAndUnlock(p)
          \/ \E f \in Fields : Write(p, f) \/ LockAndWrite(p, f)

Reader(r) ==
    \/ \E p \in Paths : GetVote(r, p)
    \/ GetAll(r) \/ Serve(r) \/ RedisFails(r) \/ ServerFails(r) \/ RowsStop(r)

(* The steps of Next, sorted by who takes them.                            *)
LEMMA Steps ==
    Next => Writer \/ \E r \in Readers : Reader(r) \/ CursorFails(r)
BY DEF Next, Writer, Reader


(* A step takes in at most one write, and only writers write.              *)
LEMMA LogStep ==
    ASSUME WalkTypes, [Next]_vars
    PROVE  /\ \/ log' = log
              \/ \E x \in Paths \X (Fields \cup {Created}) : log' = Append(log, x)
           /\ mode' = mode
           /\ writing' \in [Paths -> Fields \cup {NoField}]
           /\ faults' \in 0 .. MaxFaults /\ faults' <= faults
<1> DEFINE P ==
        /\ \/ log' = log
           \/ \E x \in Paths \X (Fields \cup {Created}) : log' = Append(log, x)
        /\ mode' = mode
        /\ writing' \in [Paths -> Fields \cup {NoField}]
        /\ faults' \in 0 .. MaxFaults /\ faults' <= faults
<1> USE BoundsAssumption DEF WalkTypes
<1>0. ASSUME NEW p \in Paths, NEW f \in Fields \cup {Created},
             log' = Append(log, <<p, f>>)
      PROVE  \E x \in Paths \X (Fields \cup {Created}) : log' = Append(log, x)
  <2>1. <<p, f>> \in Paths \X (Fields \cup {Created})
    OBVIOUS
  <2> QED
    BY <1>0, <2>1
<1>1. ASSUME NEW p \in Paths, CreateVote(p) PROVE P
  BY <1>0, <1>1 DEF CreateVote
<1>2. ASSUME NEW p \in Paths, WrittenAndUnlock(p) PROVE P
  BY <1>0, <1>2 DEF WrittenAndUnlock
<1>3. ASSUME NEW p \in Paths, NEW f \in Fields, Write(p, f) PROVE P
  BY <1>0, <1>3 DEF Write
<1>4. ASSUME NEW p \in Paths, NEW f \in Fields, LockAndWrite(p, f) PROVE P
  BY <1>4 DEF LockAndWrite
<1>5. ASSUME NEW r \in Readers, Reader(r) PROVE P
  <2>1. ASSUME NEW p \in Paths, GetVote(r, p) PROVE P
    BY <2>1 DEF GetVote, NewRequest, database
  <2>2. CASE GetAll(r)
    BY <2>2 DEF GetAll, NewRequest, database
  <2>3. CASE Begin(r)
    BY <2>3 DEF Begin, database
  <2>4. CASE Scan(r)
    BY <2>4 DEF Scan, database
  <2>5. CASE NextPoll(r)
    BY <2>5 DEF NextPoll, database
  <2>6. CASE WalkEnds(r)
    BY <2>6 DEF WalkEnds, database
  <2>7. ASSUME NEW p \in Paths \cup {CounterKey}, Find(r, p) PROVE P
    BY <2>7 DEF Find, database
  <2>8. ASSUME NEW p \in Paths, LockPoll(r, p) \/ ReadOption(r, p) \/ ReadComments(r, p)
        PROVE  P
    BY <2>8 DEF LockPoll, ReadOption, ReadComments, database
  <2>9. CASE RedisFails(r) \/ ServerFails(r) \/ RowsStop(r)
    BY <2>9 DEF RedisFails, ServerFails, RowsStop, database
  <2> QED
    BY <1>5, <2>1, <2>2, <2>3, <2>4, <2>5, <2>6, <2>7, <2>8, <2>9 DEF Reader, Serve
<1>6. ASSUME NEW r \in Readers, CursorFails(r) PROVE P
  BY <1>6 DEF CursorFails, database
<1>7. CASE UNCHANGED vars
  BY <1>7 DEF vars
<1> QED
  BY <1>1, <1>2, <1>3, <1>4, <1>5, <1>6, <1>7, Steps DEF Writer

-----------------------------------------------------------------------------
(* Whose variables a step changes.                                         *)

Places == {"idle"} \cup Busy \cup Ended
Errors == [data : Nat, find : Nat]

ReaderTypes ==
    /\ pc \in [Readers -> Places]
    /\ page \in [Readers -> {"vote", "list"}]
    /\ began \in [Readers -> Nat]
    /\ base \in [Readers -> [polls : SUBSET Paths, at : Nat]]
    /\ walk \in [Readers -> Walks]
    /\ errs \in [Readers -> Errors]
    /\ DOMAIN shown = Readers /\ shown = [r \in Readers |-> shown[r]]

(* A reader to whom nothing happens, unless the whole process exits.       *)
Keeps(r) ==
    /\ pc'[r] \in {pc[r], "exited"}
    /\ page'[r] = page[r] /\ began'[r] = began[r] /\ base'[r] = base[r]
    /\ walk'[r] = walk[r] /\ errs'[r] = errs[r] /\ shown'[r] = shown[r]

(* A reader's step keeps the types and leaves the other readers alone.     *)
LEMMA ReaderStep ==
    ASSUME WalkTypes, NEW r \in Readers, Reader(r)
    PROVE  ReaderTypes' /\ \A q \in Readers \ {r} : Keeps(q)
<1> DEFINE P == ReaderTypes' /\ \A q \in Readers \ {r} : Keeps(q)
<1> USE DEF Goto, ReaderTypes, Keeps, Places, Errors, request
<1>0. ReaderTypes
  BY DEF WalkTypes
<1>w. walk[r] \in Walks
  BY <1>0
<1>1. /\ \A k \in Nat : StoredAt(k) \subseteq Paths
      /\ Now \in Nat
      /\ NoWalk \in Walks
      /\ NoError \in Errors
  <2>1. Now \in Nat
    BY DEF WalkTypes, Now
  <2> QED
    BY <2>1 DEF StoredAt, NoWalk, Walks, NoError
<1>2. ASSUME NEW kind \in {"vote", "list"}, NEW w \in Walks, NEW x \in Busy,
             NewRequest(r, kind), walk' = [walk EXCEPT ![r] = w], Goto(r, x)
      PROVE  P
  BY <1>0, <1>1, <1>2 DEF NewRequest
<1>3. ASSUME NEW p \in Paths, GetVote(r, p) PROVE P
  <2>1. [NoWalk EXCEPT !.todo = {p}] \in Walks
    BY <1>1 DEF Walks, Keys
  <2> QED
    BY <1>2, <1>3, <2>1 DEF GetVote, Busy
<1>4. CASE GetAll(r)
  BY <1>1, <1>2, <1>4 DEF GetAll, Busy
<1>5. CASE Begin(r)
  BY <1>0, <1>1, <1>5 DEF Begin, Busy
<1>6. CASE Scan(r)
  <2>1. PICK keys \in SUBSET (StoredAt(Now) \cup {CounterKey}), last \in BOOLEAN :
            walk' = [walk EXCEPT ![r] =
                        [seen |-> @.seen \cup Listed(keys), todo |-> Listed(keys),
                         calls |-> @.calls + 1, over |-> ScanOver(keys, last)]]
    BY <1>6 DEF Scan
  <2>2. Listed(keys) \subseteq Keys
    BY <1>1 DEF Listed, Keys
  <2>3. [seen |-> walk[r].seen \cup Listed(keys), todo |-> Listed(keys),
         calls |-> walk[r].calls + 1, over |-> ScanOver(keys, last)] \in Walks
    BY <1>0, <2>2 DEF Walks, ScanOver
  <2> QED
    BY <1>0, <1>6, <2>1, <2>3 DEF Scan
<1>7. CASE NextPoll(r)
  <2>1. PICK p \in IF mode = "redis" THEN walk[r].todo
                  ELSE StoredAt(IF mode = "mysql-os-redis" THEN base[r].at ELSE Now)
                           \ walk[r].seen :
          walk' = [walk EXCEPT ![r].todo = IF mode = "redis" THEN @ ELSE {p},
                               ![r].seen = @ \cup {p}]
    BY <1>7 DEF NextPoll
  <2>2. p \in Keys /\ walk[r] \in Walks
    BY <1>0, <1>1, <2>1 DEF Walks, Keys
  <2> DEFINE w == [walk[r] EXCEPT !.todo = IF mode = "redis" THEN @ ELSE {p},
                                  !.seen = @ \cup {p}]
  <2>4. w \in Walks
    BY <2>2 DEF Walks
  <2>5. walk' = [walk EXCEPT ![r] = w]
    BY <2>1
  <2>3. walk' \in [Readers -> Walks] /\ \A q \in Readers \ {r} : walk'[q] = walk[q]
    <3> HIDE DEF w
    <3> QED
      BY <1>0, <2>4, <2>5
  <2> QED
    BY <1>0, <1>7, <2>3 DEF NextPoll, Busy
<1>8. CASE WalkEnds(r)
  BY <1>0, <1>8 DEF WalkEnds, Ended
<1>9. ASSUME NEW p, NEW row, Show(r, p, row) PROVE
          /\ pc' = [pc EXCEPT ![r] = IF page[r] = "vote" THEN "done" ELSE "walk"]
          /\ walk' \in [Readers -> Walks] /\ \A q \in Readers \ {r} : walk'[q] = walk[q]
          /\ DOMAIN shown' = Readers /\ shown' = [q \in Readers |-> shown'[q]]
          /\ \A q \in Readers \ {r} : shown'[q] = shown[q]
  <2>1. [walk[r] EXCEPT !.todo = @ \ {p}] \in Walks
    BY <1>w DEF Walks
  <2>2. walk' = [walk EXCEPT ![r] = [walk[r] EXCEPT !.todo = @ \ {p}]]
    BY <1>0, <1>9 DEF Show
  <2>3. walk' \in [Readers -> Walks] /\ \A q \in Readers \ {r} : walk'[q] = walk[q]
    BY <1>0, <2>1, <2>2
  <2>4. /\ DOMAIN shown' = Readers /\ shown' = [q \in Readers |-> shown'[q]]
        /\ \A q \in Readers \ {r} : shown'[q] = shown[q]
    BY <1>0, <1>9 DEF Show
  <2> QED
    BY <1>9, <2>3, <2>4 DEF Show
<1>10. ASSUME NEW p \in Paths \cup {CounterKey}, Find(r, p) PROVE P
  <2>1. /\ errs' \in [Readers -> Errors] /\ \A q \in Readers \ {r} : errs'[q] = errs[q]
        /\ UNCHANGED <<page, began, base>>
    <3>1. [errs[r] EXCEPT !.find = 0] \in Errors
      BY <1>0
    <3>2. errs' = [errs EXCEPT ![r] = [errs[r] EXCEPT !.find = 0]]
      BY <1>0, <1>10 DEF Find
    <3> QED
      BY <1>0, <1>10, <3>1, <3>2 DEF Find
  <2>2. CASE \E x \in Places : Goto(r, x) /\ UNCHANGED <<walk, cur, shown>>
    BY <1>0, <2>1, <2>2
  <2>3. CASE \E row : Show(r, p, row)
    <3>1. /\ \E x \in Places : pc' = [pc EXCEPT ![r] = x]
          /\ walk' \in [Readers -> Walks] /\ \A q \in Readers \ {r} : walk'[q] = walk[q]
          /\ DOMAIN shown' = Readers /\ shown' = [q \in Readers |-> shown'[q]]
          /\ \A q \in Readers \ {r} : shown'[q] = shown[q]
      BY <1>9, <2>3 DEF Busy, Ended
    <3>2. PICK x \in Places : pc' = [pc EXCEPT ![r] = x]
      BY <3>1
    <3>3. pc' \in [Readers -> Places] /\ \A q \in Readers \ {r} : pc'[q] = pc[q]
      BY <1>0, <3>2
    <3> QED
      BY <1>0, <2>1, <3>1, <3>3
  <2>4. CASE p \notin StoredAt(Now)
    BY <1>10, <2>2, <2>4 DEF Find, Ended
  <2>5. CASE p \in StoredAt(Now) /\ mode = "os"
    BY <1>10, <2>2, <2>5 DEF Find, Busy
  <2>6. CASE p \in StoredAt(Now) /\ mode # "os"
    BY <1>10, <2>3, <2>6 DEF Find
  <2> QED
    BY <2>4, <2>5, <2>6
<1>11. ASSUME NEW p \in Paths, LockPoll(r, p) \/ ReadOption(r, p) PROVE P
  <2>1. /\ UNCHANGED <<page, began, base, walk, errs, shown>>
        /\ pc' = pc \/ pc' = [pc EXCEPT ![r] = "read"]
    BY <1>11 DEF LockPoll, ReadOption
  <2> QED
    BY <1>0, <2>1 DEF Busy
<1>12. ASSUME NEW p \in Paths, ReadComments(r, p) PROVE P
  <2>1. (\E row : Show(r, p, row)) /\ UNCHANGED <<page, began, base, errs>>
    BY <1>12 DEF ReadComments
  <2> QED
    BY <1>0, <1>9, <2>1 DEF Busy, Ended
<1>13. CASE RedisFails(r)
  <2>1. UNCHANGED <<page, began, base, walk, shown>>
    BY <1>13 DEF RedisFails
  <2>2. /\ errs' \in [Readers -> Errors]
        /\ \A q \in Readers \ {r} : errs'[q] = errs[q]
    <3>1. errs[r].data + 1 \in Nat /\ errs[r].find + 1 \in Nat
      BY <1>0
    <3>2. \E e \in Errors : errs' = [errs EXCEPT ![r] = e]
      <4>1. CASE errs' = [errs EXCEPT ![r].data = @ + 1]
        <5>1. [errs[r] EXCEPT !.data = @ + 1] \in Errors
          BY <1>0, <3>1
        <5> QED
          BY <1>0, <4>1, <5>1
      <4>2. CASE errs' = [errs EXCEPT ![r].find = @ + 1]
        <5>1. [errs[r] EXCEPT !.find = @ + 1] \in Errors
          BY <1>0, <3>1
        <5> QED
          BY <1>0, <4>2, <5>1
      <4> QED
        BY <1>13, <4>1, <4>2 DEF RedisFails
    <3> QED
      BY <1>0, <3>2
  <2>3. \E x \in Places : pc' = [pc EXCEPT ![r] = x]
    BY <1>13 DEF RedisFails, GivesUp, Busy, Ended
  <2> QED
    BY <1>0, <2>1, <2>2, <2>3
<1>14. CASE ServerFails(r)
  BY <1>0, <1>14 DEF ServerFails, Ended
<1>15. CASE RowsStop(r)
  <2>1. [walk[r] EXCEPT !.over = TRUE] \in Walks
    BY <1>w DEF Walks
  <2>2. walk' = [walk EXCEPT ![r] = [walk[r] EXCEPT !.over = TRUE]]
    BY <1>0, <1>15 DEF RowsStop
  <2> QED
    BY <1>0, <1>15, <2>1, <2>2 DEF RowsStop, Ended
<1> QED
  BY <1>3, <1>4, <1>5, <1>6, <1>7, <1>8, <1>10, <1>11, <1>12, <1>13, <1>14, <1>15
     DEF Reader, Serve

(* A writer, a cursor that stops the process and a stutter happen to no    *)
(* reader, or to all.                                                      *)
LEMMA OtherStep ==
    ASSUME WalkTypes, \/ Writer
                      \/ \E r \in Readers : CursorFails(r)
                      \/ UNCHANGED vars
    PROVE  ReaderTypes' /\ \A q \in Readers : Keeps(q)
<1> USE DEF ReaderTypes, Keeps, Places, Errors, request, database
<1>0. ReaderTypes
  BY DEF WalkTypes
<1>1. CASE Writer
  BY <1>0, <1>1 DEF Writer, CreateVote, WrittenAndUnlock, Write, LockAndWrite
<1>2. CASE \E r \in Readers : CursorFails(r)
  BY <1>0, <1>2 DEF CursorFails, Ended
<1>3. CASE UNCHANGED vars
  BY <1>0, <1>3 DEF vars
<1> QED
  BY <1>1, <1>2, <1>3

(* Every step keeps the types.                                             *)
LEMMA TypesStep == WalkTypes /\ [Next]_vars => WalkTypes'
<1> SUFFICES ASSUME WalkTypes, [Next]_vars PROVE WalkTypes'
  OBVIOUS
<1>1. /\ mode' \in Backends /\ writing' \in [Paths -> Fields \cup {NoField}]
      /\ faults' \in 0 .. MaxFaults
      /\ log' \in Seq(Paths \X (Fields \cup {Created}))
  BY LogStep, LogGrows DEF WalkTypes
<1>2. ReaderTypes'
  BY Steps, ReaderStep, OtherStep
<1> QED
  BY <1>1, <1>2 DEF WalkTypes, ReaderTypes, Places, Errors

-----------------------------------------------------------------------------
(* The invariant, reader by reader.                                        *)

(* What holds of a reader still does when somebody else takes a step.      *)
LEMMA KeepStep ==
    ASSUME WalkTypes, WalkTypes', [Next]_vars, NEW r \in Readers, ReaderInv(r), Keeps(r)
    PROVE  ReaderInv(r)'
<1>1. /\ Now \in Nat /\ Now' \in Nat /\ Now <= Now'
      /\ \A i \in 1 .. Now : log'[i] = log[i]
      /\ StoredAt(Now) \subseteq StoredAt(Now)'
      /\ mode' = mode
  BY LogStep, LogGrows
<1>2. /\ page'[r] = page[r] /\ began'[r] = began[r] /\ base'[r] = base[r]
      /\ walk'[r] = walk[r] /\ errs'[r] = errs[r] /\ shown'[r] = shown[r]
  BY DEF Keeps
<1>f. faults < MaxFaults => faults' < MaxFaults
  <2>1. faults' \in 0 .. MaxFaults /\ faults' <= faults
    BY LogStep
  <2>2. faults \in 0 .. MaxFaults
    BY DEF WalkTypes
  <2> QED
    BY <2>1, <2>2, BoundsAssumption
<1>3. began[r] \in 0 .. Now /\ StoredAt(began[r])' = StoredAt(began[r])
  <2>1. began[r] \in 0 .. Now
    BY <1>1 DEF ReaderInv, WalkTypes
  <2>2. \A i \in 1 .. began[r] : log'[i] = log[i]
    BY <1>1, <2>1
  <2> QED
    BY <1>2, <2>1, <2>2 DEF StoredAt, Stored
<1>4. CASE pc'[r] = "exited"
  BY <1>1, <1>2, <1>3, <1>4
     DEF ReaderInv, WalkInv, VoteInv, CompleteInv, CauseInv, Busy
<1>5. CASE pc'[r] = pc[r]
  <2>1. WalkInv(r)'
    <3>1. ASSUME base[r].at \in began[r] .. Now
          PROVE  StoredAt(base[r].at)' = StoredAt(base[r].at)
      <4>1. \A i \in 1 .. base[r].at : log'[i] = log[i]
        BY <1>1, <1>3, <3>1
      <4> QED
        BY <1>2, <4>1 DEF StoredAt, Stored
    <3> QED
      BY <1>1, <1>2, <1>3, <1>5, <3>1 DEF ReaderInv, WalkInv, OnPage
  <2>2. VoteInv(r)' /\ CompleteInv(r)' /\ CauseInv(r)'
    BY <1>1, <1>2, <1>3, <1>5, <1>f DEF ReaderInv, VoteInv, CompleteInv, CauseInv, CutShort, OnPage
  <2> QED
    BY <1>1, <1>2, <1>3, <2>1, <2>2 DEF ReaderInv
<1> QED
  BY <1>4, <1>5 DEF Keeps

(* A reader writes nothing.                                                *)
LEMMA ReaderReads ==
    ASSUME NEW r \in Readers, Reader(r) PROVE UNCHANGED database
<1>1. ASSUME NEW p, GetVote(r, p) \/ Find(r, p) \/ LockPoll(r, p) \/ ReadOption(r, p)
                      \/ ReadComments(r, p)
      PROVE  UNCHANGED database
  BY <1>1 DEF GetVote, NewRequest, Find, LockPoll, ReadOption, ReadComments
<1>2. CASE GetAll(r) \/ Begin(r) \/ Scan(r) \/ NextPoll(r) \/ WalkEnds(r)
  BY <1>2 DEF GetAll, NewRequest, Begin, Scan, NextPoll, WalkEnds
<1>3. CASE RedisFails(r) \/ ServerFails(r) \/ RowsStop(r)
  BY <1>3 DEF RedisFails, ServerFails, RowsStop
<1> QED
  BY <1>1, <1>2, <1>3 DEF Reader, Serve

(* While nothing is written, what was stored at a moment is what is.       *)
LEMMA SameLog ==
    ASSUME WalkTypes, UNCHANGED database, NEW r \in Readers
    PROVE  /\ Now' = Now /\ Now \in Nat /\ mode' = mode
           /\ StoredAt(Now)' = StoredAt(Now) /\ StoredAt(Now) \subseteq Paths
           /\ began'[r] = began[r] => StoredAt(began[r])' = StoredAt(began[r])
           /\ base'[r] = base[r] => StoredAt(base[r].at)' = StoredAt(base[r].at)
           /\ began[r] <= Now => StoredAt(began[r]) \subseteq StoredAt(Now)
           /\ began[r] <= base[r].at => StoredAt(began[r]) \subseteq StoredAt(base[r].at)
           /\ base[r].at <= Now => StoredAt(base[r].at) \subseteq StoredAt(Now)
<1>1. log' = log /\ mode' = mode
  BY DEF database
<1>2. Now \in Nat /\ began[r] \in Nat /\ base[r].at \in Nat
  BY DEF WalkTypes, Now
<1>3. /\ Now' = Now /\ StoredAt(Now)' = StoredAt(Now)
      /\ began'[r] = began[r] => StoredAt(began[r])' = StoredAt(began[r])
      /\ base'[r] = base[r] => StoredAt(base[r].at)' = StoredAt(base[r].at)
  BY <1>1 DEF StoredAt, Stored, Now
<1> QED
  BY <1>1, <1>2, <1>3, StoredLater

(* A poll that is shown is off the list of those to fetch.                 *)
LEMMA ShowStep ==
    ASSUME WalkTypes, NEW r \in Readers, NEW p \in Paths, NEW row, ReaderInv(r),
           pc[r] \in {"find", "read"}, p \in walk[r].todo, Show(r, p, row),
           UNCHANGED <<database, request, base>>
    PROVE  ReaderInv(r)'
<1>1. /\ pc'[r] = IF page[r] = "vote" THEN "done" ELSE "walk"
      /\ page'[r] = page[r] /\ began'[r] = began[r] /\ base'[r] = base[r]
      /\ walk'[r].seen = walk[r].seen /\ walk'[r].todo = walk[r].todo \ {p}
      /\ walk'[r].over = walk[r].over
      /\ OnPage(r, p)' /\ \A q : OnPage(r, q) => OnPage(r, q)'
  <2>1. /\ pc'[r] = IF page[r] = "vote" THEN "done" ELSE "walk"
        /\ page'[r] = page[r] /\ began'[r] = began[r] /\ base'[r] = base[r]
    BY DEF WalkTypes, Show, Goto, request
  <2>2. walk'[r] = [walk[r] EXCEPT !.todo = @ \ {p}] /\ walk[r] \in Walks
    BY DEF WalkTypes, Show
  <2>3. shown'[r] = shown[r] \cup {[path |-> p, row |-> row]}
    BY DEF WalkTypes, Show
  <2>4. OnPage(r, p)' /\ \A q : OnPage(r, q) => OnPage(r, q)'
    <3>1. [path |-> p, row |-> row].path = p /\ [path |-> p, row |-> row] \in shown'[r]
      BY <2>3
    <3>2. OnPage(r, p)'
      BY <3>1 DEF OnPage
    <3>3. \A q : OnPage(r, q) => OnPage(r, q)'
      BY <2>3 DEF OnPage
    <3> QED
      BY <3>2, <3>3
  <2> QED
    BY <2>1, <2>2, <2>4 DEF Walks
<1>2. page[r] \in {"vote", "list"} /\ began'[r] <= Now'
  BY <1>1, SameLog DEF WalkTypes, ReaderInv
<1>3. WalkInv(r)'
  BY <1>1, <1>2, SameLog DEF ReaderInv, WalkInv, Busy
<1>4. VoteInv(r)' /\ CompleteInv(r)' /\ CauseInv(r)'
  BY <1>1, <1>2 DEF VoteInv, CompleteInv, CauseInv
<1> QED
  BY <1>2, <1>3, <1>4 DEF ReaderInv

(* A reader's own step keeps what holds of it.                             *)
LEMMA OwnStep ==
    ASSUME WalkTypes, WalkTypes', NEW r \in Readers, ReaderInv(r), Reader(r)
    PROVE  ReaderInv(r)'
<1>0. UNCHANGED database
  BY ReaderReads
<1>1. /\ page[r] \in {"vote", "list"} /\ walk[r] \in Walks
      /\ Now \in Nat /\ began[r] \in Nat /\ began[r] <= Now
      /\ mode' = mode
      /\ {faults, faults', MaxFaults} \subseteq Nat /\ faults <= MaxFaults
  <2>1. {faults, faults', MaxFaults} \subseteq Nat /\ faults <= MaxFaults
    BY BoundsAssumption DEF WalkTypes
  <2> QED
    BY <1>0, <2>1, SameLog DEF WalkTypes, ReaderInv
<1>2. ASSUME NEW kind, NewRequest(r, kind), pc'[r] \in {"find", "begin"}
      PROVE  /\ page'[r] = kind /\ began'[r] = Now /\ began'[r] <= Now'
             /\ CompleteInv(r)' /\ CauseInv(r)'
  <2>1. page'[r] = kind /\ began'[r] = Now
    BY <1>2 DEF NewRequest, WalkTypes
  <2>2. Now' = Now
    BY <1>0, SameLog
  <2> QED
    BY <1>1, <1>2, <2>1, <2>2 DEF CompleteInv, CauseInv
<1>3. ASSUME NEW p \in Paths, GetVote(r, p) PROVE ReaderInv(r)'
  <2>1. pc'[r] = "find" /\ NewRequest(r, "vote") /\ walk'[r].todo = {p}
    BY <1>3 DEF GetVote, Goto, WalkTypes, NoWalk
  <2>2. /\ page'[r] = "vote" /\ began'[r] <= Now'
        /\ CompleteInv(r)' /\ CauseInv(r)'
    BY <1>2, <2>1
  <2> QED
    BY <2>1, <2>2 DEF ReaderInv, WalkInv, VoteInv
<1>4. CASE GetAll(r)
  <2>1. pc'[r] = "begin" /\ NewRequest(r, "list")
    BY <1>4 DEF GetAll, Goto, WalkTypes
  <2>2. /\ page'[r] = "list" /\ began'[r] <= Now'
        /\ CompleteInv(r)' /\ CauseInv(r)'
    BY <1>2, <2>1
  <2> QED
    BY <2>1, <2>2 DEF ReaderInv, WalkInv, VoteInv
<1>5. CASE Begin(r)
  <2>1. /\ pc[r] = "begin" /\ pc'[r] = "walk" /\ page' = page /\ began' = began
        /\ base'[r].polls = StoredAt(Now) /\ base'[r].at = Now
        /\ walk'[r].seen = {} /\ walk'[r].todo = {} /\ walk'[r].over = FALSE
    BY <1>5 DEF Begin, Goto, request, NoWalk, WalkTypes
  <2>2. page[r] = "list"
    BY <1>1, <2>1 DEF ReaderInv, VoteInv
  <2>3. WalkInv(r)'
    <3>1. base'[r].at \in began'[r] .. Now'
      BY <1>0, <1>1, <2>1, SameLog
    <3>2. base'[r].polls = StoredAt(base[r].at)'
      BY <1>0, <2>1 DEF database, StoredAt, Stored
    <3> QED
      BY <2>1, <3>1, <3>2 DEF WalkInv
  <2> QED
    BY <1>0, <1>1, <2>1, <2>2, <2>3, SameLog DEF ReaderInv, VoteInv, CompleteInv, CauseInv
<1>6. CASE Scan(r)
  <2>1. PICK keys \in SUBSET (StoredAt(Now) \cup {CounterKey}), last \in BOOLEAN :
            /\ last => base[r].polls \subseteq walk[r].seen \cup keys
            /\ walk' = [walk EXCEPT ![r] =
                           [seen |-> @.seen \cup Listed(keys), todo |-> Listed(keys),
                            calls |-> @.calls + 1, over |-> ScanOver(keys, last)]]
    BY <1>6 DEF Scan
  <2>2. /\ pc[r] = "walk" /\ mode = "redis" /\ walk[r].todo = {}
        /\ pc' = pc /\ page' = page /\ began' = began /\ base' = base /\ shown' = shown
    BY <1>6 DEF Scan, request
  <2>3. /\ walk'[r].seen = walk[r].seen \cup Listed(keys)
        /\ walk'[r].todo = Listed(keys) /\ walk'[r].over = last
    BY <2>1 DEF WalkTypes, ScanOver
  <2>4. page[r] = "list"
    BY <1>1, <2>2 DEF ReaderInv, VoteInv
  <2>5. base[r].polls \subseteq Paths /\ Listed(keys) \subseteq StoredAt(Now)
    BY <2>1, CounterIsNoPoll DEF Listed, WalkTypes
  <2>6. last => base[r].polls \subseteq walk'[r].seen
    BY <2>1, <2>3, <2>5, CounterIsNoPoll DEF Listed
  <2>7. WalkInv(r)'
    <3>1. StoredAt(Now)' = StoredAt(Now) /\ StoredAt(base[r].at)' = StoredAt(base[r].at)
          /\ Now' = Now
      BY <1>0, <2>2, SameLog
    <3>2. /\ base[r].at \in began[r] .. Now /\ base[r].polls = StoredAt(base[r].at)
          /\ walk[r].seen \subseteq StoredAt(Now) /\ \A p \in walk[r].seen : OnPage(r, p)
      BY <2>2, <2>4 DEF ReaderInv, WalkInv, Busy
    <3>3. \A p \in walk[r].seen : OnPage(r, p)'
      BY <2>2, <3>2 DEF OnPage
    <3> QED
      BY <1>1, <2>2, <2>3, <2>5, <2>6, <3>1, <3>2, <3>3 DEF WalkInv
  <2> QED
    BY <1>0, <1>1, <2>2, <2>4, <2>7, SameLog DEF ReaderInv, VoteInv, CompleteInv, CauseInv
<1>7. CASE NextPoll(r)
  <2>1. PICK p \in IF mode = "redis" THEN walk[r].todo
                  ELSE StoredAt(IF mode = "mysql-os-redis" THEN base[r].at ELSE Now)
                           \ walk[r].seen :
          walk' = [walk EXCEPT ![r].todo = IF mode = "redis" THEN @ ELSE {p},
                               ![r].seen = @ \cup {p}]
    BY <1>7 DEF NextPoll
  <2>2. /\ pc[r] = "walk" /\ pc'[r] = "find"
        /\ page' = page /\ began' = began /\ base' = base /\ shown' = shown
    BY <1>7 DEF NextPoll, Goto, request, WalkTypes
  <2>3. page[r] = "list"
    BY <1>1, <2>2 DEF ReaderInv, VoteInv
  <2>4. /\ walk'[r].todo = IF mode = "redis" THEN walk[r].todo ELSE {p}
        /\ walk'[r].seen = walk[r].seen \cup {p} /\ walk'[r].over = walk[r].over
    BY <1>1, <2>1 DEF WalkTypes, Walks
  <2>5. p \in StoredAt(Now) /\ p \in Paths
    BY <1>0, <2>1, <2>2, <2>3, SameLog DEF ReaderInv, WalkInv, Busy
  <2>6. WalkInv(r)'
    <3>1. StoredAt(Now)' = StoredAt(Now) /\ StoredAt(base[r].at)' = StoredAt(base[r].at)
          /\ Now' = Now
      BY <1>0, <2>2, SameLog
    <3>2. /\ base[r].at \in began[r] .. Now /\ base[r].polls = StoredAt(base[r].at)
          /\ walk[r].seen \subseteq StoredAt(Now) /\ walk[r].todo \subseteq walk[r].seen
          /\ \A q \in walk[r].seen \ walk[r].todo : OnPage(r, q)
          /\ mode = "redis" /\ walk[r].over => base[r].polls \subseteq walk[r].seen
          /\ mode # "redis" => walk[r].todo = {}
      BY <2>2, <2>3 DEF ReaderInv, WalkInv, Busy
    <3>3. \A q \in walk'[r].seen \ walk'[r].todo : OnPage(r, q)'
      BY <2>1, <2>2, <2>4, <3>2 DEF OnPage
    <3>4. walk'[r].todo \subseteq walk'[r].seen /\ walk'[r].seen \subseteq StoredAt(Now)
      BY <2>4, <2>5, <3>2
    <3> QED
      BY <1>1, <2>2, <2>3, <2>4, <2>5, <3>1, <3>2, <3>3, <3>4 DEF WalkInv
  <2> QED
    BY <1>0, <1>1, <2>2, <2>3, <2>6, SameLog DEF ReaderInv, VoteInv, CompleteInv, CauseInv
<1>8. CASE WalkEnds(r)
  <2>1. /\ pc[r] = "walk" /\ pc'[r] = "done"
        /\ page' = page /\ began' = began /\ shown' = shown
        /\ base[r].polls \subseteq walk[r].seen \/ (mode = "redis" /\ walk[r].over)
        /\ walk[r].todo = {} \/ mode # "redis"
    BY <1>8 DEF WalkEnds, Goto, request, WalkTypes
  <2>2. page[r] = "list"
    BY <1>1, <2>1 DEF ReaderInv, VoteInv
  <2>3. \A p \in StoredAt(began[r]) : OnPage(r, p)
    BY <1>0, <1>1, <2>1, <2>2, SameLog DEF ReaderInv, WalkInv, Busy
  <2>4. CompleteInv(r)'
    BY <1>0, <2>1, <2>3, SameLog DEF CompleteInv, OnPage
  <2> QED
    BY <1>0, <1>1, <2>1, <2>2, <2>4, SameLog DEF ReaderInv, WalkInv, VoteInv, CauseInv, Busy
<1>9. ASSUME NEW p \in Paths \cup {CounterKey}, Find(r, p) PROVE ReaderInv(r)'
  <2>1. /\ pc[r] = "find" /\ p \in walk[r].todo
        /\ UNCHANGED <<database, request, base>>
        /\ page' = page /\ began' = began /\ base' = base
    BY <1>9 DEF Find, request
  <2>2. CASE p \notin StoredAt(Now)
    <3>1. /\ pc'[r] = IF p \in Paths /\ page[r] = "vote" THEN "notfound" ELSE "panic"
          /\ walk' = walk
      BY <1>9, <2>2 DEF Find, Goto, WalkTypes
    <3>2. page[r] = "vote"
      BY <1>1, <2>1, <2>2 DEF ReaderInv, WalkInv, Busy
    <3>3. p \in Paths /\ walk[r].todo = {p}
      BY <2>1, <3>2 DEF ReaderInv, VoteInv
    <3>4. CauseInv(r)'
      BY <1>0, <2>1, <2>2, <3>1, <3>2, <3>3, <1>1, SameLog DEF CauseInv
    <3> QED
      BY <1>0, <1>1, <2>1, <3>1, <3>2, <3>3, <3>4, SameLog
         DEF ReaderInv, WalkInv, VoteInv, CompleteInv
  <2>3. CASE p \in StoredAt(Now) /\ mode = "os"
    <3>1. /\ pc'[r] = IF TakesLock(r) THEN "lock" ELSE "read"
          /\ walk' = walk /\ shown' = shown
      BY <1>9, <2>3 DEF Find, Goto, WalkTypes
    <3>2. WalkInv(r)'
      BY <1>0, <1>1, <2>1, <2>3, <3>1, SameLog DEF ReaderInv, WalkInv, OnPage, Busy
    <3> QED
      BY <1>0, <1>1, <2>1, <3>1, <3>2, SameLog DEF ReaderInv, VoteInv, CompleteInv, CauseInv
  <2>4. CASE p \in StoredAt(Now) /\ mode # "os"
    <3>1. PICK row : Show(r, p, row)
      BY <1>9, <2>4 DEF Find
    <3>2. p \in Paths
      BY <2>4 DEF StoredAt
    <3> QED
      BY <2>1, <3>1, <3>2, ShowStep
  <2> QED
    BY <2>2, <2>3, <2>4
<1>10. ASSUME NEW p \in Paths, LockPoll(r, p) \/ ReadOption(r, p) PROVE ReaderInv(r)'
  <2>1. /\ pc[r] \in {"lock", "read"} /\ pc'[r] = "read"
        /\ page' = page /\ began' = began /\ base' = base /\ walk' = walk /\ shown' = shown
    BY <1>10 DEF LockPoll, ReadOption, Goto, request, WalkTypes
  <2>2. WalkInv(r)'
    BY <1>0, <1>1, <2>1, SameLog DEF ReaderInv, WalkInv, OnPage, Busy
  <2> QED
    BY <1>0, <1>1, <2>1, <2>2, SameLog DEF ReaderInv, VoteInv, CompleteInv, CauseInv
<1>11. ASSUME NEW p \in Paths, ReadComments(r, p) PROVE ReaderInv(r)'
  <2>1. /\ pc[r] = "read" /\ p \in walk[r].todo /\ UNCHANGED <<database, request, base>>
        /\ \E row : Show(r, p, row)
    BY <1>11 DEF ReadComments
  <2> QED
    BY <2>1, ShowStep
<1>12. CASE RedisFails(r)
  <2>1. /\ mode = "redis" /\ faults' < MaxFaults
        /\ page' = page /\ began' = began /\ base' = base /\ walk' = walk /\ shown' = shown
    BY <1>1, <1>12 DEF RedisFails, request
  <2>2. CASE /\ pc[r] = "walk"
             /\ errs' = [errs EXCEPT ![r].data = @ + 1]
             /\ Goto(r, IF errs[r].data + 1 = Tries THEN "panic" ELSE "begin")
    <3>1. /\ page[r] = "list" /\ pc'[r] \in {"panic", "begin"}
          /\ pc'[r] = "panic" => errs'[r].data = Tries
      BY <1>1, <2>2 DEF ReaderInv, VoteInv, Goto, WalkTypes
    <3> QED
      BY <1>0, <1>1, <2>1, <3>1, SameLog
         DEF ReaderInv, WalkInv, VoteInv, CompleteInv, CauseInv, Busy
  <2>3. CASE /\ pc[r] = "find"
             /\ errs' = [errs EXCEPT ![r].find = @ + 1]
             /\ Goto(r, IF errs[r].find + 1 = Tries THEN GivesUp(r) ELSE "find")
    <3>1. /\ pc'[r] \in {"panic", "find"}
          /\ pc'[r] = "panic" => errs'[r].find = Tries
      BY <1>1, <2>3 DEF Goto, GivesUp, WalkTypes
    <3>2. WalkInv(r)'
      BY <1>0, <1>1, <2>1, <2>3, <3>1, SameLog DEF ReaderInv, WalkInv, OnPage, Busy
    <3> QED
      BY <1>0, <1>1, <2>1, <2>3, <3>1, <3>2, SameLog
         DEF ReaderInv, VoteInv, CompleteInv, CauseInv
  <2> QED
    BY <1>12, <2>2, <2>3 DEF RedisFails
<1>13. CASE ServerFails(r)
  <2>1. /\ mode # "redis" /\ faults' < MaxFaults /\ pc'[r] = "panic"
        /\ page' = page /\ began' = began
    BY <1>1, <1>13 DEF ServerFails, Goto, request, WalkTypes
  <2> QED
    BY <1>0, <1>1, <2>1, SameLog
       DEF ReaderInv, WalkInv, VoteInv, CompleteInv, CauseInv, Busy
<1>14. CASE RowsStop(r)
  <2>1. /\ mode = "mysql-os-redis" /\ pc'[r] = "done"
        /\ page' = page /\ began' = began /\ walk'[r].over = TRUE
    BY <1>1, <1>14 DEF RowsStop, Goto, request, WalkTypes, Walks
  <2> QED
    BY <1>0, <1>1, <2>1, SameLog
       DEF ReaderInv, WalkInv, VoteInv, CompleteInv, CauseInv, CutShort, Busy
<1> QED
  BY <1>3, <1>4, <1>5, <1>6, <1>7, <1>8, <1>9, <1>10, <1>11, <1>12, <1>13, <1>14
     DEF Reader, Serve

-----------------------------------------------------------------------------
(* Nothing has been asked for yet.                                         *)
LEMMA InvInit == Init => Inv
<1> SUFFICES ASSUME Init PROVE Inv
  OBVIOUS
<1>1. WalkTypes
  <2>1. log \in Seq(Paths \X (Fields \cup {Created})) /\ mode \in Backends
    BY ModesAssumption DEF Init
  <2>2. faults \in 0 .. MaxFaults
    BY BoundsAssumption DEF Init
  <2>3. NoWalk \in Walks /\ NoError \in [data : Nat, find : Nat]
    BY DEF NoWalk, NoError, Walks
  <2> QED
    BY <2>1, <2>2, <2>3 DEF Init, WalkTypes
<1>2. Now = 0
  BY DEF Init, Now
<1>3. ASSUME NEW r \in Readers PROVE ReaderInv(r)
  BY <1>2, <1>3 DEF Init, ReaderInv, WalkInv, VoteInv, CompleteInv, CauseInv, Busy
<1> QED
  BY <1>1, <1>3 DEF Inv

(* Every step keeps the invariant of every reader.                         *)
LEMMA InvStep == Inv /\ [Next]_vars => Inv'
<1> SUFFICES ASSUME Inv, [Next]_vars PROVE Inv'
  OBVIOUS
<1>1. WalkTypes /\ WalkTypes'
  BY TypesStep DEF Inv
<1>2. ASSUME NEW r \in Readers PROVE ReaderInv(r)'
  <2>1. CASE Reader(r)
    BY <1>1, <2>1, OwnStep DEF Inv
  <2>2. CASE Keeps(r)
    BY <1>1, <2>2, KeepStep DEF Inv
  <2> QED
    BY <1>1, <2>1, <2>2, Steps, ReaderStep, OtherStep
<1> QED
  BY <1>1, <1>2 DEF Inv

(* The invariant holds of every behaviour.                                 *)
LEMMA InvHolds == Spec => []Inv
  BY InvInit, InvStep, PTL DEF Spec

(* A list that is served to its end leaves no poll out that was stored     *)
(* when it was asked for, whatever SCAN returns and however often it       *)
(* starts again (redis.go:248-276, rss.go:20, vote.go:372).                *)
THEOREM PageIsCompleteHolds == Spec => []PageIsComplete
<1>1. Inv => PageIsComplete
  BY DEF Inv, ReaderInv, CompleteInv, PageIsComplete, OnPage
<1> QED
  BY <1>1, InvHolds, PTL

(* 404 is said only of a poll that was not there when the request came, and *)
(* a panic follows a failing call, over redis in every try of a loop       *)
(* (vote.go:188, redis.go:154, 257).                                       *)
THEOREM RefusedWithCauseHolds == Spec => []RefusedWithCause
<1>1. Inv => RefusedWithCause
  BY DEF Inv, ReaderInv, CauseInv, RefusedWithCause
<1> QED
  BY <1>1, InvHolds, PTL

-----------------------------------------------------------------------------
(* What a page shows.                                                      *)

(* The first m options of poll p, each as it was at its moment, and the    *)
(* moments that a reader can read them at.                                 *)
ReadOff(p, at, m) == [o \in 1 .. m |-> Row(p, at[o]).option[o]]

Moments(r, m) ==
    {at \in [1 .. m -> began[r] .. Now] : \A o \in 2 .. m : at[o - 1] <= at[o]}

(* The bound on writes has room for those that are under way.              *)
Written == {p \in Paths : writing[p] # NoField}
RoomInv == Now + Cardinality(Written) <= MaxWrites

(* Types of the lock and of the polls being read, which decide nothing     *)
(* about which polls are on a page.                                        *)
LockTypes ==
    /\ lock \in [Paths -> SUBSET Readers]
    /\ cur = [r \in Readers |-> cur[r]]

(* How far a reader may count. A walk that is not over has a SCAN left,    *)
(* and a reader that goes on has a try left in every loop.                 *)
BoundsInv(r) ==
    /\ base[r].at <= Now
    /\ walk[r].seen \subseteq Paths
    /\ walk[r].calls <= MaxCalls /\ (~walk[r].over => walk[r].calls < MaxCalls)
    /\ errs[r].data <= Tries /\ errs[r].find <= Tries
    /\ pc[r] \in Busy => errs[r].data < Tries /\ errs[r].find < Tries

(* Where a reader is: only under os a poll is read field by field, and     *)
(* GET /vote reads its poll under the lock.                                *)
PlaceInv(r) ==
    /\ pc[r] \notin {"read", "exited"} => cur[r] = NoRow
    /\ pc[r] \in {"lock", "read"} => mode = "os"
    /\ pc[r] = "lock" => page[r] = "vote"
    /\ page[r] = "vote" /\ pc[r] \in Busy => \E p \in Paths : walk[r].todo = {p}

(* What has been read of p: under the lock as it still is, without the     *)
(* lock each option as it was at a moment of the request, in order.        *)
ReadSoFar(r, p, m) ==
    /\ walk[r].todo = {p}
    /\ cur[r] = [option |-> cur[r].option, comment |-> 0]
    /\ IF page[r] = "vote"
       THEN /\ cur[r].option = ReadOff(p, [o \in 1 .. m |-> Now], m)
            /\ r \in lock[p] /\ writing[p] = NoField
       ELSE \E at \in Moments(r, m) : cur[r].option = ReadOff(p, at, m)

CurInv(r) == pc[r] = "read" => \E p \in Paths, m \in 0 .. NumOptions : ReadSoFar(r, p, m)

(* A poll on a page was so, or is one that was read without the lock.      *)
ItemInv(r, item) ==
    /\ item.path \in Paths
    /\ \/ \E k \in began[r] .. Now : item.row = Row(item.path, k)
       \/ /\ mode = "os" /\ page[r] = "list"
          /\ \E at \in Moments(r, NumOptions) :
                 item.row.option = ReadOff(item.path, at, NumOptions)

ShownInv(r) == \A item \in shown[r] : ItemInv(r, item)

RowInv ==
    /\ mode \in Modes /\ RoomInv /\ LockTypes
    /\ \A r \in Readers : BoundsInv(r) /\ PlaceInv(r) /\ CurInv(r) /\ ShownInv(r)

(* A count of writes is a number, and no more than there are writes.       *)
LEMMA ValueBounds ==
    ASSUME NEW p, NEW f, NEW k \in Nat PROVE Value(p, f, k) \in 0 .. k
<1> DEFINE S == {i \in 1 .. k : log[i] = <<p, f>>}
<1>1. IsFiniteSet(1 .. k) /\ Cardinality(1 .. k) = k
  BY FS_Interval
<1>2. S \in SUBSET (1 .. k)
  OBVIOUS
<1>3. IsFiniteSet(S) /\ Cardinality(S) <= k
  BY <1>1, <1>2, FS_Subset
<1>4. Cardinality(S) \in Nat
  BY <1>3, FS_CardinalityType
<1> QED
  BY <1>3, <1>4 DEF Value

(* The options of a row are options as they are stored.                    *)
LEMMA RowTypes ==
    ASSUME NEW p, NEW k \in Nat
    PROVE  /\ Row(p, k).option \in [Options -> [name : 0 .. NumOptions, num : 0 .. k]]
           /\ Row(p, k) = [option |-> Row(p, k).option, comment |-> Value(p, Comment, k)]
<1>1. \A o \in Options : Value(p, o, k) \in 0 .. k
  BY ValueBounds
<1>2. Row(p, k).option = [o \in Options |-> [name |-> o, num |-> Value(p, o, k)]]
  BY DEF Row
<1>3. \A o \in Options : o \in 0 .. NumOptions
  BY NumOptionsAssumption DEF Options
<1> QED
  BY <1>1, <1>2, <1>3 DEF Row

(* What a database gives of a stored poll is the poll as it was stored.    *)
LEMMA DecodedRow ==
    ASSUME mode \in Backends, MaxWrites \in Nat,
           NEW p, NEW k \in 0 .. MaxWrites, NEW row \in Decoded(Row(p, k))
    PROVE  row = Row(p, k)
<1> DEFINE opts == Row(p, k).option
<1>0. k \in Nat
  OBVIOUS
<1>1. /\ opts \in [Options -> [name : 0 .. NumOptions, num : 0 .. k]]
      /\ Row(p, k) = [option |-> opts, comment |-> Value(p, Comment, k)]
  BY <1>0, RowTypes
<1>2. CASE mode = "redis"
  <2>1. opts \in {[o \in Options |-> [name |-> o, num |-> nums[o]]] :
                      nums \in [Options -> 0 .. MaxWrites]}
    <3> DEFINE nums == [o \in Options |-> Value(p, o, k)]
    <3>1. opts = [o \in Options |-> [name |-> o, num |-> nums[o]]]
      BY DEF Row
    <3>2. nums \in [Options -> 0 .. MaxWrites]
      BY <1>0, ValueBounds
    <3> HIDE DEF nums, opts
    <3> QED
      BY <3>1, <3>2
  <2>2. DecodedOptions[opts] = {DecodeOptions(order, opts) : order \in FieldOrders}
    BY <2>1 DEF DecodedOptions
  <2>3. opts \in StoredOptions
    <3>1. 0 .. k \subseteq Nat /\ 0 .. NumOptions \subseteq Nat
      BY NumOptionsAssumption
    <3>2. \A o \in Options : opts[o] \in [name : Nat, num : Nat]
      BY <1>1, <3>1
    <3> QED
      BY <1>1, <3>2 DEF StoredOptions
  <2>4. Decoded(Row(p, k)) = {[Row(p, k) EXCEPT !.option = x] : x \in DecodedOptions[opts]}
    BY <1>2 DEF Decoded
  <2>5. PICK order \in FieldOrders :
            row = [Row(p, k) EXCEPT !.option = DecodeOptions(order, opts)]
    BY <2>2, <2>4
  <2>6. row = [Row(p, k) EXCEPT !.option = opts]
    BY <2>3, <2>5, DecodedAsStored
  <2> QED
    BY <1>1, <2>6
<1>3. CASE mode = "mongodb-os-redis"
  <2>1. row = toV(toD(Row(p, k)))
    BY <1>3 DEF Decoded
  <2>2. toV(toD(Row(p, k))) = Row(p, k)
    <3>1. ASSUME NEW n, n = Value(p, Comment, k), Row(p, k) = [option |-> opts, comment |-> n]
          PROVE  toV(toD(Row(p, k))) = Row(p, k)
      <4> HIDE DEF opts
      <4>1. CASE n = 0
        <5>1. toD(Row(p, k)) = [option |-> opts]
          BY <3>1, <4>1 DEF toD
        <5>2. "comment" \notin DOMAIN [option |-> opts]
          OBVIOUS
        <5> QED
          BY <3>1, <4>1, <5>1, <5>2 DEF toV
      <4>2. CASE n # 0
        <5>1. toD(Row(p, k)) = [option |-> opts, comment |-> n]
          BY <3>1, <4>2 DEF toD
        <5>2. "comment" \in DOMAIN [option |-> opts, comment |-> n]
          OBVIOUS
        <5> QED
          BY <3>1, <5>1, <5>2 DEF toV
      <4> QED
        BY <4>1, <4>2
    <3> QED
      BY <1>1, <3>1
  <2> QED
    BY <2>1, <2>2
<1>4. CASE mode \notin {"redis", "mongodb-os-redis"}
  BY <1>4 DEF Decoded
<1> QED
  BY <1>2, <1>3, <1>4

(* The database only adds to what it has taken: what a poll was at a       *)
(* moment is not changed later.                                            *)
LEMMA RowStays ==
    ASSUME WalkTypes, [Next]_vars, NEW p, NEW k \in 0 .. Now
    PROVE  Row(p, k)' = Row(p, k)
<1>1. Now \in Nat /\ \A i \in 1 .. Now : log'[i] = log[i]
  BY LogStep, LogGrows
<1>2. \A i \in 1 .. k : log'[i] = log[i]
  BY <1>1
<1>3. \A f : {i \in 1 .. k : log[i] = <<p, f>>}' = {i \in 1 .. k : log[i] = <<p, f>>}
  BY <1>2
<1>4. \A f : Value(p, f, k)' = Value(p, f, k)
  BY <1>3 DEF Value
<1> QED
  BY <1>4 DEF Row

(* The moments of a request stay moments of it.                            *)
LEMMA MomentsStay ==
    ASSUME WalkTypes, [Next]_vars, NEW r \in Readers, began'[r] = began[r],
           NEW p, NEW m \in Nat, NEW at \in Moments(r, m)
    PROVE  at \in Moments(r, m)' /\ ReadOff(p, at, m)' = ReadOff(p, at, m)
<1>1. Now \in Nat /\ Now' \in Nat /\ Now <= Now' /\ began[r] \in Nat
  BY LogStep, LogGrows DEF WalkTypes
<1>2. at \in [1 .. m -> began[r] .. Now]
  BY DEF Moments
<1>3. \A o \in 1 .. m : at[o] \in 0 .. Now /\ at[o] \in began[r] .. Now'
  BY <1>1, <1>2
<1>4. at \in Moments(r, m)'
  <2>1. at \in [1 .. m -> began'[r] .. Now']
    BY <1>2, <1>3
  <2> QED
    BY <2>1 DEF Moments
<1>5. \A o \in 1 .. m : Row(p, at[o])' = Row(p, at[o])
  BY <1>3, RowStays
<1> QED
  BY <1>4, <1>5 DEF ReadOff

(* What is on a page is not taken back by what is written later.           *)
LEMMA ItemStays ==
    ASSUME WalkTypes, [Next]_vars, NEW r \in Readers, began'[r] = began[r],
           page'[r] = page[r], NEW item, ItemInv(r, item)
    PROVE  ItemInv(r, item)'
<1>1. Now \in Nat /\ Now' \in Nat /\ Now <= Now' /\ began[r] \in Nat /\ mode' = mode
  BY LogStep, LogGrows DEF WalkTypes
<1>2. ASSUME NEW k \in began[r] .. Now, item.row = Row(item.path, k)
      PROVE  k \in began'[r] .. Now' /\ item.row = Row(item.path, k)'
  <2>1. k \in 0 .. Now /\ k \in began'[r] .. Now'
    BY <1>1
  <2> QED
    BY <1>2, <2>1, RowStays
<1>3. ASSUME NEW at \in Moments(r, NumOptions),
             item.row.option = ReadOff(item.path, at, NumOptions)
      PROVE  /\ at \in Moments(r, NumOptions)'
             /\ item.row.option = ReadOff(item.path, at, NumOptions)'
  BY <1>3, NumOptionsAssumption, MomentsStay
<1> QED
  BY <1>1, <1>2, <1>3 DEF ItemInv

(* The polls that are being written are finitely many: no more than that   *)
(* many polls, and the next to be written is one more.                     *)
LEMMA WrittenFew ==
    ASSUME WalkTypes
    PROVE  IsFiniteSet(Written) /\ Cardinality(Written) \in Nat
<1>1. IsFiniteSet(Paths)
  BY NumOptionsAssumption, FS_Interval DEF Paths
<1>2. Written \in SUBSET Paths
  BY DEF Written
<1>3. IsFiniteSet(Written)
  BY <1>1, <1>2, FS_Subset
<1> QED
  BY <1>3, FS_CardinalityType

(* No write is begun that the bound leaves no room for.                    *)
LEMMA RoomStep ==
    ASSUME WalkTypes, RoomInv, [Next]_vars PROVE RoomInv'
<1>0. /\ Now \in Nat /\ Cardinality(Written) \in Nat /\ IsFiniteSet(Written)
      /\ MaxWrites \in Nat
  BY WrittenFew, BoundsAssumption DEF WalkTypes, Now
<1>w. \A n : RoomFor(n) <=> Now + Cardinality(Written) + n <= MaxWrites
  BY DEF RoomFor, Written
<1>1. ASSUME NEW x \in Paths \X (Fields \cup {Created}), log' = Append(log, x)
      PROVE  Now' = Now + 1
  BY <1>1 DEF WalkTypes, Now
<1>2. ASSUME writing' = writing PROVE Written' = Written
  BY <1>2 DEF Written
<1>3. ASSUME NEW p \in Paths, CreateVote(p) \/ \E f \in Fields : Write(p, f) PROVE RoomInv'
  <2>1. /\ RoomFor(1) /\ writing' = writing
        /\ \E f \in Fields \cup {Created} : log' = Append(log, <<p, f>>)
    BY <1>3 DEF CreateVote, Write
  <2>2. Now' = Now + 1
    BY <1>1, <2>1
  <2>3. Cardinality(Written') = Cardinality(Written)
    BY <1>2, <2>1
  <2>4. Now + Cardinality(Written) + 1 <= MaxWrites
    BY <1>w, <2>1
  <2> QED
    BY <1>0, <2>2, <2>3, <2>4 DEF RoomInv
<1>4. ASSUME NEW p \in Paths, WrittenAndUnlock(p) PROVE RoomInv'
  <2>1. p \in Written /\ Written' = Written \ {p}
    BY <1>4 DEF WrittenAndUnlock, Written, WalkTypes
  <2>2. Cardinality(Written') = Cardinality(Written) - 1
    BY <1>0, <2>1, FS_RemoveElement
  <2>3. writing[p] \in Fields /\ log' = Append(log, <<p, writing[p]>>)
    BY <1>4 DEF WrittenAndUnlock, WalkTypes
  <2>4. Now' = Now + 1
    BY <1>1, <2>3
  <2> QED
    BY <1>0, <2>2, <2>4 DEF RoomInv
<1>5. ASSUME NEW p \in Paths, NEW f \in Fields, LockAndWrite(p, f) PROVE RoomInv'
  <2>1. p \notin Written /\ Written' = Written \cup {p}
    BY <1>5, NoFieldAssumption DEF LockAndWrite, Written, WalkTypes
  <2>2. Cardinality(Written') = Cardinality(Written) + 1
    BY <1>0, <2>1, FS_AddElement
  <2>3. Now' = Now /\ Now + Cardinality(Written) + 1 <= MaxWrites
    BY <1>5, <1>w DEF LockAndWrite, Now
  <2> QED
    BY <1>0, <2>2, <2>3 DEF RoomInv
<1>6. ASSUME UNCHANGED database PROVE RoomInv'
  BY <1>2, <1>6 DEF RoomInv, database, Now
<1>7. ASSUME NEW r \in Readers, CursorFails(r) PROVE UNCHANGED database
  BY <1>7 DEF CursorFails
<1>8. UNCHANGED vars => UNCHANGED database
  BY DEF vars, database
<1> QED
  BY <1>3, <1>4, <1>5, <1>6, <1>7, <1>8, Steps, ReaderReads DEF Writer

(* Whoever else takes a step, a reader keeps its locks and what it has     *)
(* read.                                                                   *)
KeepsLock(r) ==
    /\ cur'[r] = cur[r]
    /\ \A p \in Paths : r \in lock[p] => r \in lock'[p]

(* A reader's step does not touch the locks of the others, nor what they   *)
(* have read.                                                              *)
LEMMA ReaderLock ==
    ASSUME LockTypes, NEW r \in Readers, Reader(r)
    PROVE  LockTypes' /\ \A q \in Readers \ {r} : KeepsLock(q)
<1> DEFINE P == LockTypes' /\ \A q \in Readers \ {r} : KeepsLock(q)
<1> USE DEF LockTypes, KeepsLock
<1>1. ASSUME UNCHANGED <<lock, cur>> PROVE P
  BY <1>1
<1>2. ASSUME NEW p \in Paths, LockPoll(r, p) PROVE P
  BY <1>2 DEF LockPoll
<1>3. ASSUME NEW p \in Paths, ReadOption(r, p) PROVE P
  <2>1. /\ lock' = lock
        /\ cur' = [cur EXCEPT ![r].option = Append(@, Row(p, Now).option[Len(cur[r].option) + 1])]
    BY <1>3 DEF ReadOption
  <2> QED
    BY <2>1
<1>4. ASSUME NEW p \in Paths, ReadComments(r, p) PROVE P
  <2>1. lock' = [lock EXCEPT ![p] = lock[p] \ {r}] /\ cur' = [cur EXCEPT ![r] = NoRow]
    BY <1>4 DEF ReadComments, Show, Unlocked
  <2> QED
    BY <2>1
<1>5. ASSUME NEW p \in Paths \cup {CounterKey}, Find(r, p) PROVE P
  <2>1. lock' = lock /\ (cur' = cur \/ cur' = [cur EXCEPT ![r] = NoRow])
    BY <1>5 DEF Find, Show
  <2> QED
    BY <2>1
<1>6. CASE \/ \E p \in Paths : GetVote(r, p)
           \/ GetAll(r) \/ Begin(r) \/ Scan(r) \/ NextPoll(r) \/ WalkEnds(r)
  BY <1>1, <1>6 DEF GetVote, GetAll, NewRequest, Begin, Scan, NextPoll, WalkEnds
<1>7. CASE RedisFails(r) \/ ServerFails(r) \/ RowsStop(r)
  BY <1>1, <1>7 DEF RedisFails, ServerFails, RowsStop
<1> QED
  BY <1>2, <1>3, <1>4, <1>5, <1>6, <1>7 DEF Reader, Serve

(* Writers, a cursor that stops the process and a stutter touch none.      *)
LEMMA OtherLock ==
    ASSUME LockTypes, \/ Writer
                      \/ \E r \in Readers : CursorFails(r)
                      \/ UNCHANGED vars
    PROVE  LockTypes' /\ \A q \in Readers : KeepsLock(q)
<1>1. UNCHANGED <<lock, cur>>
  BY DEF Writer, CreateVote, WrittenAndUnlock, Write, LockAndWrite, CursorFails, vars
<1> QED
  BY <1>1 DEF LockTypes, KeepsLock

(* A poll that a reader has locked is not written: its options stay.       *)
LEMMA LockedStays ==
    ASSUME WalkTypes, [Next]_vars, mode = "os",
           NEW r \in Readers, NEW p \in Paths, r \in lock[p], writing[p] = NoField
    PROVE  /\ writing'[p] = NoField
           /\ \A o \in Options : Row(p, Now).option[o]' = Row(p, Now).option[o]
<1> DEFINE P == /\ writing'[p] = NoField
                /\ \A o \in Options : Row(p, Now).option[o]' = Row(p, Now).option[o]
<1>0. Now \in Nat
  BY DEF WalkTypes, Now
<1>o. \A o \in Options : Row(p, Now).option[o] = [name |-> o, num |-> Value(p, o, Now)]
  BY DEF Row
<1>p. \A o \in Options : Row(p, Now).option[o]' = [name |-> o, num |-> Value(p, o, Now)']
  BY DEF Row
<1>1. ASSUME NEW q \in Paths, NEW f \in Fields \cup {Created}, q # p \/ f = Created,
             log' = Append(log, <<q, f>>)
      PROVE  \A o \in Options : Row(p, Now).option[o]' = Row(p, Now).option[o]
  <2>1. /\ Now' = Now + 1 /\ log'[Now + 1] = <<q, f>>
        /\ \A i \in 1 .. Now : log'[i] = log[i]
    BY <1>1 DEF WalkTypes, Now
  <2>2. ASSUME NEW o \in Options PROVE Value(p, o, Now)' = Value(p, o, Now)
    <3>1. <<q, f>> # <<p, o>>
      <4>1. o # Created
        BY DEF Options, Created
      <4> QED
        BY <1>1, <4>1
    <3>2. \A i \in 1 .. Now + 1 : i \in 1 .. Now \/ i = Now + 1
      BY <1>0
    <3>3. {i \in 1 .. Now + 1 : log'[i] = <<p, o>>} = {i \in 1 .. Now : log[i] = <<p, o>>}
      BY <1>0, <2>1, <3>1, <3>2
    <3> QED
      BY <2>1, <3>3 DEF Value
  <2> QED
    BY <1>o, <1>p, <2>2
<1>2. ASSUME log' = log PROVE \A o \in Options : Row(p, Now).option[o]' = Row(p, Now).option[o]
  BY <1>2, <1>o, <1>p DEF Value, Now
<1>3. ASSUME NEW q \in Paths, CreateVote(q) PROVE P
  BY <1>1, <1>3 DEF CreateVote
<1>4. ASSUME NEW q \in Paths, WrittenAndUnlock(q) PROVE P
  <2>1. q # p /\ writing[q] \in Fields
    BY <1>4 DEF WrittenAndUnlock, WalkTypes
  <2> QED
    BY <1>1, <1>4, <2>1 DEF WrittenAndUnlock, WalkTypes
<1>5. ASSUME NEW q \in Paths, NEW f \in Fields, Write(q, f) PROVE P
  BY <1>5 DEF Write
<1>6. ASSUME NEW q \in Paths, NEW f \in Fields, LockAndWrite(q, f) PROVE P
  <2>1. q # p
    BY <1>6 DEF LockAndWrite
  <2> QED
    BY <1>2, <1>6, <2>1 DEF LockAndWrite, WalkTypes
<1>7. ASSUME UNCHANGED database PROVE P
  BY <1>2, <1>7 DEF database
<1>8. ASSUME NEW q \in Readers, CursorFails(q) PROVE UNCHANGED database
  BY <1>8 DEF CursorFails
<1>9. UNCHANGED vars => UNCHANGED database
  BY DEF vars, database
<1> QED
  BY <1>3, <1>4, <1>5, <1>6, <1>7, <1>8, <1>9, Steps, ReaderReads DEF Writer

(* What is read under the lock is still so, and what was read without it   *)
(* was so at moments of the request.                                       *)
LEMMA ReadStays ==
    ASSUME WalkTypes, [Next]_vars, NEW r \in Readers, PlaceInv(r), CurInv(r),
           pc[r] = "read" => pc'[r] = "read" /\ Keeps(r) /\ KeepsLock(r),
           pc'[r] = "read" => pc[r] = "read"
    PROVE  CurInv(r)'
<1> SUFFICES ASSUME pc[r] = "read"
             PROVE  \E p \in Paths, m \in 0 .. NumOptions : ReadSoFar(r, p, m)'
  BY DEF CurInv
<1>1. PICK p \in Paths, m \in 0 .. NumOptions : ReadSoFar(r, p, m)
  BY DEF CurInv
<1>2. mode = "os" /\ m \in Nat
  BY NumOptionsAssumption DEF PlaceInv
<1>3. /\ walk'[r].todo = {p} /\ page'[r] = page[r] /\ began'[r] = began[r] /\ cur'[r] = cur[r]
      /\ cur[r] = [option |-> cur[r].option, comment |-> 0]
      /\ r \in lock[p] => r \in lock'[p]
  BY <1>1 DEF ReadSoFar, Keeps, KeepsLock
<1>4. CASE page[r] = "vote"
  <2>1. /\ cur[r].option = ReadOff(p, [o \in 1 .. m |-> Now], m)
        /\ r \in lock[p] /\ writing[p] = NoField
    BY <1>1, <1>4 DEF ReadSoFar
  <2>2. /\ writing'[p] = NoField
        /\ \A o \in Options : Row(p, Now).option[o]' = Row(p, Now).option[o]
    BY <1>2, <2>1, LockedStays
  <2>3. 1 .. m \subseteq Options
    BY NumOptionsAssumption DEF Options
  <2>4. ReadOff(p, [o \in 1 .. m |-> Now], m) = [o \in 1 .. m |-> Row(p, Now).option[o]]
    BY DEF ReadOff
  <2>5. ReadOff(p, [o \in 1 .. m |-> Now], m)' = [o \in 1 .. m |-> Row(p, Now).option[o]']
    BY DEF ReadOff
  <2>6. ReadOff(p, [o \in 1 .. m |-> Now], m)' = ReadOff(p, [o \in 1 .. m |-> Now], m)
    BY <2>2, <2>3, <2>4, <2>5
  <2> QED
    BY <1>3, <1>4, <2>1, <2>2, <2>6 DEF ReadSoFar
<1>5. CASE page[r] # "vote"
  <2>1. PICK at \in Moments(r, m) : cur[r].option = ReadOff(p, at, m)
    BY <1>1, <1>5 DEF ReadSoFar
  <2>2. at \in Moments(r, m)' /\ ReadOff(p, at, m)' = ReadOff(p, at, m)
    BY <1>2, <1>3, MomentsStay
  <2> QED
    BY <1>3, <1>5, <2>1, <2>2 DEF ReadSoFar
<1> QED
  BY <1>4, <1>5

(* What holds of a reader still does when somebody else takes a step.      *)
LEMMA KeepRow ==
    ASSUME WalkTypes, [Next]_vars, NEW r \in Readers, Keeps(r), KeepsLock(r),
           BoundsInv(r), PlaceInv(r), CurInv(r), ShownInv(r)
    PROVE  BoundsInv(r)' /\ PlaceInv(r)' /\ CurInv(r)' /\ ShownInv(r)'
<1>1. Now \in Nat /\ Now' \in Nat /\ Now <= Now' /\ mode' = mode
  BY LogStep, LogGrows
<1>2. /\ page'[r] = page[r] /\ began'[r] = began[r] /\ base'[r] = base[r]
      /\ walk'[r] = walk[r] /\ errs'[r] = errs[r] /\ shown'[r] = shown[r]
      /\ cur'[r] = cur[r] /\ pc'[r] \in {pc[r], "exited"}
  BY DEF Keeps, KeepsLock
<1>3. BoundsInv(r)'
  <2>1. base[r].at \in Nat
    BY DEF WalkTypes
  <2>2. base'[r].at <= Now'
    BY <1>1, <1>2, <2>1 DEF BoundsInv
  <2> QED
    BY <1>2, <2>2 DEF BoundsInv, Busy
<1>4. PlaceInv(r)'
  BY <1>1, <1>2 DEF PlaceInv, Busy
<1>5. CurInv(r)'
  <2>1. CASE pc'[r] = "exited"
    BY <2>1 DEF CurInv
  <2>2. CASE pc'[r] = pc[r]
    BY <2>2, ReadStays
  <2> QED
    BY <1>2, <2>1, <2>2
<1>6. ShownInv(r)'
  BY <1>2, ItemStays DEF ShownInv
<1> QED
  BY <1>3, <1>4, <1>5, <1>6

(* What showing a poll does to the reader's variables.                     *)
LEMMA ShowValues ==
    ASSUME WalkTypes, LockTypes, NEW r \in Readers, NEW p, NEW row, Show(r, p, row)
    PROVE  /\ pc'[r] = IF page[r] = "vote" THEN "done" ELSE "walk"
           /\ walk'[r] = [walk[r] EXCEPT !.todo = @ \ {p}]
           /\ cur'[r] = NoRow
           /\ shown'[r] = shown[r] \cup {[path |-> p, row |-> row]}
<1>1. pc \in [Readers -> Places]
  BY DEF WalkTypes, Places
<1> QED
  BY <1>1 DEF WalkTypes, LockTypes, Show, Goto

(* A reader's own step keeps its bounds.                                   *)
LEMMA OwnBounds ==
    ASSUME WalkTypes, LockTypes, NEW r \in Readers, ReaderInv(r), Reader(r), BoundsInv(r)
    PROVE  BoundsInv(r)'
<1>0. /\ UNCHANGED database /\ Now' = Now /\ Now \in Nat
      /\ base[r].at \in Nat /\ walk[r] \in Walks /\ errs[r] \in [data : Nat, find : Nat]
      /\ page[r] \in {"vote", "list"}
  BY ReaderReads, SameLog DEF WalkTypes
<1>1. MaxCalls \in Nat /\ MaxCalls > 0 /\ Tries \in Nat /\ Tries > 0
  BY BoundsAssumption, TriesAssumption
<1>2. ASSUME base'[r] = base[r],
             walk'[r].seen = walk[r].seen, walk'[r].calls = walk[r].calls,
             walk'[r].over = walk[r].over \/ walk'[r].over = TRUE,
             \/ errs'[r] = errs[r]
             \/ errs'[r].data = errs[r].data /\ errs'[r].find = 0,
             pc'[r] \in Busy => pc[r] \in Busy
      PROVE  BoundsInv(r)'
  BY <1>0, <1>1, <1>2 DEF BoundsInv
<1>3. ASSUME NEW kind, NewRequest(r, kind), walk'[r].seen = {}, walk'[r].calls = 0
      PROVE  BoundsInv(r)'
  <2>1. base'[r] = base[r] /\ errs'[r] = NoError
    BY <1>3 DEF NewRequest, WalkTypes
  <2> QED
    BY <1>0, <1>1, <1>3, <2>1 DEF BoundsInv, NoError
<1>4. ASSUME NEW p \in Paths, GetVote(r, p) PROVE BoundsInv(r)'
  <2>1. walk'[r].seen = {} /\ walk'[r].calls = 0
    BY <1>4 DEF GetVote, WalkTypes, NoWalk
  <2> QED
    BY <1>3, <1>4, <2>1 DEF GetVote
<1>5. CASE GetAll(r)
  <2>1. walk'[r].seen = {} /\ walk'[r].calls = 0
    BY <1>5 DEF GetAll, WalkTypes, NoWalk
  <2> QED
    BY <1>3, <1>5, <2>1 DEF GetAll
<1>6. CASE Begin(r)
  <2>1. /\ base'[r].at = Now /\ walk'[r].seen = {} /\ walk'[r].calls = 0
        /\ errs' = errs /\ pc[r] \in Busy
    BY <1>6 DEF Begin, WalkTypes, NoWalk, Busy
  <2> QED
    BY <1>0, <1>1, <2>1 DEF BoundsInv
<1>7. CASE Scan(r)
  <2>1. PICK keys \in SUBSET (StoredAt(Now) \cup {CounterKey}), last \in BOOLEAN :
            /\ ~last => walk[r].calls + 1 < MaxCalls
            /\ walk' = [walk EXCEPT ![r] =
                           [seen |-> @.seen \cup Listed(keys), todo |-> Listed(keys),
                            calls |-> @.calls + 1, over |-> ScanOver(keys, last)]]
    BY <1>7 DEF Scan
  <2>2. /\ ~walk[r].over /\ base' = base /\ errs' = errs /\ pc' = pc
    BY <1>7 DEF Scan
  <2>3. /\ walk'[r].seen = walk[r].seen \cup Listed(keys)
        /\ walk'[r].calls = walk[r].calls + 1 /\ walk'[r].over = last
    BY <2>1 DEF WalkTypes, ScanOver
  <2>4. Listed(keys) \subseteq Paths
    BY <2>1, SameLog, <1>0 DEF Listed
  <2>5. walk[r].calls \in Nat
    BY <1>0 DEF Walks
  <2> QED
    BY <1>0, <1>1, <2>1, <2>2, <2>3, <2>4, <2>5 DEF BoundsInv
<1>8. CASE NextPoll(r)
  <2>1. PICK p \in IF mode = "redis" THEN walk[r].todo
                  ELSE StoredAt(IF mode = "mysql-os-redis" THEN base[r].at ELSE Now)
                           \ walk[r].seen :
          walk' = [walk EXCEPT ![r].todo = IF mode = "redis" THEN @ ELSE {p},
                               ![r].seen = @ \cup {p}]
    BY <1>8 DEF NextPoll
  <2>2. pc[r] = "walk" /\ base' = base /\ errs' = errs
    BY <1>8 DEF NextPoll
  <2>3. page[r] = "list"
    BY <1>0, <2>2 DEF ReaderInv, VoteInv
  <2>4. p \in Paths
    BY <1>0, <2>1, <2>2, <2>3, SameLog, StoredLater DEF ReaderInv, WalkInv, Busy
  <2>5. /\ walk'[r].seen = walk[r].seen \cup {p} /\ walk'[r].calls = walk[r].calls
        /\ walk'[r].over = walk[r].over
    BY <1>0, <2>1 DEF WalkTypes, Walks
  <2> QED
    BY <1>0, <2>2, <2>4, <2>5 DEF BoundsInv, Busy
<1>9. CASE WalkEnds(r)
  BY <1>2, <1>9 DEF WalkEnds, Busy
<1>10. ASSUME NEW p, NEW row, Show(r, p, row)
       PROVE  /\ walk'[r].seen = walk[r].seen /\ walk'[r].calls = walk[r].calls
              /\ walk'[r].over = walk[r].over
  <2>1. walk'[r] = [walk[r] EXCEPT !.todo = @ \ {p}] /\ walk[r] \in Walks
    BY <1>0, <1>10, ShowValues
  <2> QED
    BY <2>1 DEF Walks
<1>11. ASSUME NEW p \in Paths \cup {CounterKey}, Find(r, p) PROVE BoundsInv(r)'
  <2>1. /\ base' = base /\ pc[r] \in Busy
        /\ walk' = walk \/ \E row : Show(r, p, row)
    BY <1>11 DEF Find, Busy
  <2>2. errs'[r].data = errs[r].data /\ errs'[r].find = 0
    BY <1>11 DEF Find, WalkTypes
  <2> QED
    BY <1>2, <1>10, <2>1, <2>2
<1>12. ASSUME NEW p \in Paths, LockPoll(r, p) \/ ReadOption(r, p) PROVE BoundsInv(r)'
  <2>1. base' = base /\ walk' = walk /\ errs' = errs /\ pc[r] \in Busy
    BY <1>12 DEF LockPoll, ReadOption, Busy
  <2> QED
    BY <1>2, <2>1
<1>13. ASSUME NEW p \in Paths, ReadComments(r, p) PROVE BoundsInv(r)'
  <2>1. base' = base /\ errs' = errs /\ pc[r] \in Busy /\ \E row : Show(r, p, row)
    BY <1>13 DEF ReadComments, Busy
  <2> QED
    BY <1>2, <1>10, <2>1
<1>14. CASE RedisFails(r)
  <2>1. base' = base /\ walk' = walk /\ pc[r] \in Busy
    BY <1>14 DEF RedisFails, Busy
  <2>2. CASE /\ errs' = [errs EXCEPT ![r].data = @ + 1]
             /\ Goto(r, IF errs[r].data + 1 = Tries THEN "panic" ELSE "begin")
    <3>1. /\ errs'[r].data = errs[r].data + 1 /\ errs'[r].find = errs[r].find
          /\ pc'[r] = IF errs[r].data + 1 = Tries THEN "panic" ELSE "begin"
      BY <1>0, <2>2 DEF Goto, WalkTypes
    <3> QED
      BY <1>0, <1>1, <2>1, <3>1 DEF BoundsInv, Busy
  <2>3. CASE /\ errs' = [errs EXCEPT ![r].find = @ + 1]
             /\ Goto(r, IF errs[r].find + 1 = Tries THEN GivesUp(r) ELSE "find")
    <3>1. /\ errs'[r].find = errs[r].find + 1 /\ errs'[r].data = errs[r].data
          /\ pc'[r] = IF errs[r].find + 1 = Tries THEN "panic" ELSE "find"
      BY <1>0, <2>3 DEF Goto, GivesUp, WalkTypes
    <3> QED
      BY <1>0, <1>1, <2>1, <3>1 DEF BoundsInv, Busy
  <2> QED
    BY <1>14, <2>2, <2>3 DEF RedisFails
<1>15. CASE ServerFails(r)
  <2>1. base' = base /\ walk' = walk /\ errs' = errs /\ pc[r] \in Busy
    BY <1>15 DEF ServerFails, Busy
  <2> QED
    BY <1>2, <2>1
<1>16. CASE RowsStop(r)
  <2>1. base' = base /\ errs' = errs /\ pc[r] \in Busy
    BY <1>16 DEF RowsStop, Busy
  <2>2. /\ walk'[r].seen = walk[r].seen /\ walk'[r].calls = walk[r].calls
        /\ walk'[r].over = TRUE
    BY <1>0, <1>16 DEF RowsStop, WalkTypes, Walks
  <2> QED
    BY <1>2, <2>1, <2>2
<1> QED
  BY <1>4, <1>5, <1>6, <1>7, <1>8, <1>9, <1>11, <1>12, <1>13, <1>14, <1>15, <1>16
     DEF Reader, Serve

(* A reader's own step takes it where it should be.                        *)
LEMMA OwnPlace ==
    ASSUME WalkTypes, LockTypes, NEW r \in Readers, ReaderInv(r), Reader(r), PlaceInv(r)
    PROVE  PlaceInv(r)'
<1>0. /\ mode' = mode /\ page[r] \in {"vote", "list"} /\ walk[r] \in Walks
      /\ pc \in [Readers -> Places]
  BY ReaderReads, SameLog DEF WalkTypes, Places
<1> USE DEF Goto, request
<1>1. ASSUME page'[r] = page[r], cur'[r] = NoRow, pc'[r] \notin {"lock", "read"},
             page[r] = "vote" /\ pc'[r] \in Busy => pc[r] \in Busy /\ walk'[r] = walk[r]
      PROVE  PlaceInv(r)'
  BY <1>1 DEF PlaceInv
<1>2. ASSUME NEW p \in Paths, GetVote(r, p) PROVE PlaceInv(r)'
  <2>1. /\ pc[r] \notin Busy \cup {"exited"} /\ pc'[r] = "find" /\ cur' = cur
        /\ walk'[r].todo = {p}
    BY <1>0, <1>2 DEF GetVote, NewRequest, NoWalk, WalkTypes
  <2> QED
    BY <2>1 DEF PlaceInv, Busy
<1>3. CASE GetAll(r)
  <2>1. /\ pc[r] \notin Busy \cup {"exited"} /\ pc'[r] = "begin" /\ cur' = cur
        /\ page'[r] = "list"
    BY <1>0, <1>3 DEF GetAll, NewRequest, WalkTypes
  <2> QED
    BY <2>1 DEF PlaceInv, Busy
<1>4. CASE Begin(r) \/ Scan(r) \/ NextPoll(r) \/ WalkEnds(r) \/ RowsStop(r)
  <2>1. /\ pc[r] \in {"begin", "walk"} /\ pc'[r] \in {"walk", "find", "done"}
        /\ page' = page /\ cur' = cur
    BY <1>0, <1>4 DEF Begin, Scan, NextPoll, WalkEnds, RowsStop
  <2>2. page[r] = "list" /\ cur[r] = NoRow
    BY <1>0, <2>1 DEF ReaderInv, VoteInv, PlaceInv
  <2> QED
    BY <1>1, <2>1, <2>2
<1>5. ASSUME NEW p, NEW row, Show(r, p, row), page' = page PROVE PlaceInv(r)'
  <2>1. pc'[r] = (IF page[r] = "vote" THEN "done" ELSE "walk") /\ cur'[r] = NoRow
    BY <1>5, ShowValues
  <2> QED
    BY <1>1, <1>5, <2>1 DEF Busy
<1>6. ASSUME NEW p \in Paths \cup {CounterKey}, Find(r, p) PROVE PlaceInv(r)'
  <2>1. pc[r] = "find" /\ page' = page
    BY <1>6 DEF Find
  <2>2. CASE p \notin StoredAt(Now)
    <3>1. pc'[r] \in {"notfound", "panic"} /\ cur' = cur
      BY <1>0, <1>6, <2>2 DEF Find
    <3> QED
      BY <2>1, <3>1 DEF PlaceInv, Busy
  <2>3. CASE p \in StoredAt(Now) /\ mode = "os"
    <3>1. /\ pc'[r] = (IF page[r] = "vote" THEN "lock" ELSE "read")
          /\ cur' = cur /\ walk' = walk
      BY <1>0, <1>6, <2>3 DEF Find, TakesLock
    <3> QED
      BY <1>0, <2>1, <2>3, <3>1 DEF PlaceInv, Busy
  <2>4. CASE p \in StoredAt(Now) /\ mode # "os"
    <3>1. \E row : Show(r, p, row)
      BY <1>6, <2>4 DEF Find
    <3> QED
      BY <1>5, <2>1, <3>1
  <2> QED
    BY <2>2, <2>3, <2>4
<1>7. ASSUME NEW p \in Paths, LockPoll(r, p) \/ ReadOption(r, p) PROVE PlaceInv(r)'
  <2>1. pc[r] \in {"lock", "read"} /\ pc'[r] = "read" /\ page' = page /\ walk' = walk
    BY <1>0, <1>7 DEF LockPoll, ReadOption
  <2> QED
    BY <1>0, <2>1 DEF PlaceInv, Busy
<1>8. ASSUME NEW p \in Paths, ReadComments(r, p) PROVE PlaceInv(r)'
  <2>1. page' = page /\ \E row : Show(r, p, row)
    BY <1>8 DEF ReadComments
  <2> QED
    BY <1>5, <2>1
<1>9. CASE RedisFails(r) \/ ServerFails(r)
  <2>1. /\ pc[r] \in {"begin", "walk", "find"} /\ pc'[r] \in {"begin", "find", "panic"}
        /\ page' = page /\ cur' = cur /\ walk' = walk
    BY <1>0, <1>9 DEF RedisFails, ServerFails, GivesUp
  <2> QED
    BY <1>1, <2>1 DEF PlaceInv, Busy
<1> QED
  BY <1>2, <1>3, <1>4, <1>6, <1>7, <1>8, <1>9 DEF Reader, Serve

(* One option more is read at one moment more.                             *)
LEMMA ReadOne ==
    ASSUME NEW p, NEW m \in Nat, m + 1 \in Options, NEW at \in [1 .. m -> Nat], NEW k \in Nat
    PROVE  Append(ReadOff(p, at, m), Row(p, k).option[m + 1]) =
               ReadOff(p, [o \in 1 .. m + 1 |-> IF o = m + 1 THEN k ELSE at[o]], m + 1)
<1> DEFINE more == [o \in 1 .. m + 1 |-> IF o = m + 1 THEN k ELSE at[o]]
           S == [name : 0 .. NumOptions, num : Nat]
           s == ReadOff(p, at, m)
           x == Row(p, k).option[m + 1]
<1>1. 1 .. m \subseteq Options /\ m + 1 \in Options
  BY NumOptionsAssumption DEF Options
<1>2. ASSUME NEW n \in Nat, NEW o \in Options PROVE Row(p, n).option[o] \in S
  <2>1. Row(p, n).option \in [Options -> [name : 0 .. NumOptions, num : 0 .. n]]
    BY RowTypes
  <2>2. Row(p, n).option[o] \in [name : 0 .. NumOptions, num : 0 .. n] /\ 0 .. n \subseteq Nat
    BY <2>1
  <2> QED
    BY <2>2
<1>3. s = [o \in 1 .. m |-> Row(p, at[o]).option[o]]
  BY DEF ReadOff
<1>4. \A o \in 1 .. m : s[o] = Row(p, at[o]).option[o] /\ s[o] \in S
  BY <1>1, <1>2, <1>3
<1>5. x \in S
  BY <1>1, <1>2
<1>6. s \in Seq(S) /\ Len(s) = m
  BY <1>3, <1>4
<1>7. Append(s, x) = [o \in 1 .. m + 1 |-> IF o = m + 1 THEN x ELSE s[o]]
  <2> HIDE DEF s, x, S
  <2>1. Append(s, x) \in Seq(S) /\ Len(Append(s, x)) = m + 1
    BY <1>5, <1>6
  <2>2. \A o \in 1 .. m + 1 : Append(s, x)[o] = IF o = m + 1 THEN x ELSE s[o]
    BY <1>5, <1>6
  <2>3. \A t \in Seq(S) : t = [o \in 1 .. Len(t) |-> t[o]]
    OBVIOUS
  <2>4. Append(s, x) = [o \in 1 .. m + 1 |-> Append(s, x)[o]]
    BY <2>1, <2>3
  <2> QED
    BY <2>2, <2>4
<1>8. ASSUME NEW o \in 1 .. m + 1
      PROVE  (IF o = m + 1 THEN x ELSE s[o]) = Row(p, more[o]).option[o]
  <2>1. CASE o = m + 1
    BY <2>1
  <2>2. CASE o # m + 1
    <3>1. o \in 1 .. m /\ more[o] = at[o]
      BY <2>2
    <3> QED
      BY <1>4, <2>2, <3>1
  <2> QED
    BY <2>1, <2>2
<1>9. ReadOff(p, more, m + 1) = [o \in 1 .. m + 1 |-> Row(p, more[o]).option[o]]
  BY DEF ReadOff
<1> QED
  BY <1>7, <1>8, <1>9

(* A reader that reads a poll field by field keeps track of it.            *)
LEMMA OwnCur ==
    ASSUME WalkTypes, LockTypes, NEW r \in Readers, ReaderInv(r), Reader(r),
           PlaceInv(r), CurInv(r)
    PROVE  CurInv(r)'
<1>0. /\ UNCHANGED database /\ Now' = Now /\ Now \in Nat /\ page[r] \in {"vote", "list"}
      /\ began[r] \in Nat /\ began[r] <= Now /\ pc \in [Readers -> Places]
      /\ log' = log /\ writing' = writing
  <2>1. UNCHANGED database
    BY ReaderReads
  <2>2. log' = log /\ writing' = writing
    BY <2>1 DEF database
  <2> QED
    BY <2>1, <2>2, SameLog DEF WalkTypes, Places, ReaderInv
<1>n. 0 \in 0 .. NumOptions /\ NumOptions \in Nat
  BY NumOptionsAssumption
<1>1. ASSUME pc'[r] # "read" PROVE CurInv(r)'
  BY <1>1 DEF CurInv
<1>2. ASSUME NEW p, NEW at PROVE ReadOff(p, at, 0) = <<>>
  BY DEF ReadOff
<1>3. ASSUME NEW p \in Paths \cup {CounterKey}, Find(r, p) PROVE CurInv(r)'
  <2>1. CASE p \notin StoredAt(Now)
    <3>1. pc'[r] \in {"notfound", "panic"}
      BY <1>0, <1>3, <2>1 DEF Find, Goto
    <3> QED
      BY <1>1, <3>1
  <2>2. CASE p \in StoredAt(Now) /\ mode # "os"
    <3>1. \E row : Show(r, p, row)
      BY <1>3, <2>2 DEF Find
    <3>2. pc'[r] \in {"done", "walk"}
      BY <3>1, ShowValues
    <3> QED
      BY <1>1, <3>2
  <2>3. CASE p \in StoredAt(Now) /\ mode = "os" /\ page[r] = "list"
    <3>1. /\ pc[r] = "find" /\ p \in walk[r].todo /\ p \in Paths
          /\ walk' = walk /\ cur' = cur /\ page' = page /\ began' = began
      BY <1>3, <2>3 DEF Find, request, StoredAt
    <3>2. walk[r].todo = {p}
      <4>1. \E q \in Paths : walk[r].todo = {q}
        BY <2>3, <3>1 DEF ReaderInv, WalkInv, Busy
      <4> QED
        BY <3>1, <4>1
    <3>3. cur[r] = [option |-> <<>>, comment |-> 0]
      BY <3>1 DEF PlaceInv, NoRow
    <3>4. <<>> \in Moments(r, 0)'
      <4>1. <<>> \in [1 .. 0 -> began'[r] .. Now']
        OBVIOUS
      <4> QED
        BY <4>1 DEF Moments
    <3>5. cur'[r].option = ReadOff(p, <<>>, 0)'
      <4>1. ReadOff(p, <<>>, 0)' = <<>>
        BY DEF ReadOff
      <4> QED
        BY <3>1, <3>3, <4>1
    <3>6. ReadSoFar(r, p, 0)'
      BY <2>3, <3>1, <3>2, <3>3, <3>4, <3>5 DEF ReadSoFar
    <3> QED
      BY <1>n, <3>1, <3>6 DEF CurInv
  <2>4. CASE p \in StoredAt(Now) /\ mode = "os" /\ page[r] # "list"
    <3>1. pc'[r] = "lock"
      BY <1>0, <1>3, <2>4 DEF Find, Goto, TakesLock
    <3> QED
      BY <1>1, <3>1
  <2> QED
    BY <2>1, <2>2, <2>3, <2>4
<1>4. ASSUME NEW p \in Paths, LockPoll(r, p) PROVE CurInv(r)'
  <2>1. /\ pc[r] = "lock" /\ p \in walk[r].todo /\ writing[p] = NoField
        /\ r \in lock'[p] /\ walk' = walk /\ cur' = cur /\ page' = page
    BY <1>4 DEF LockPoll, request, LockTypes
  <2>2. page[r] = "vote" /\ walk[r].todo = {p} /\ cur[r] = [option |-> <<>>, comment |-> 0]
    BY <2>1 DEF PlaceInv, Busy, NoRow
  <2>3. ReadOff(p, [o \in 1 .. 0 |-> Now], 0)' = <<>>
    BY DEF ReadOff
  <2>4. ReadSoFar(r, p, 0)'
    BY <1>0, <2>1, <2>2, <2>3 DEF ReadSoFar
  <2> QED
    BY <1>n, <2>1, <2>4 DEF CurInv
<1>5. ASSUME NEW p \in Paths, ReadOption(r, p) PROVE CurInv(r)'
  <2>1. /\ pc[r] = "read" /\ p \in walk[r].todo
        /\ walk' = walk /\ page' = page /\ began' = began /\ lock' = lock
    BY <1>5 DEF ReadOption, request
  <2>2. PICK q \in Paths, m \in 0 .. NumOptions : ReadSoFar(r, q, m)
    BY <2>1 DEF CurInv
  <2>3. p = q /\ walk[r].todo = {p} /\ m \in Nat
    BY <1>n, <2>1, <2>2 DEF ReadSoFar
  <2> DEFINE s == cur[r].option
  <2>4. cur[r] = [option |-> s, comment |-> 0]
    BY <2>2 DEF ReadSoFar
  <2>5. PICK at \in [1 .. m -> began[r] .. Now] :
            /\ s = ReadOff(p, at, m)
            /\ page[r] = "vote" => at = [o \in 1 .. m |-> Now]
            /\ page[r] # "vote" => at \in Moments(r, m)
    <3>1. CASE page[r] = "vote"
      <4>1. [o \in 1 .. m |-> Now] \in [1 .. m -> began[r] .. Now]
        BY <1>0
      <4> QED
        BY <2>2, <2>3, <3>1, <4>1 DEF ReadSoFar
    <3>2. CASE page[r] # "vote"
      BY <2>2, <2>3, <3>2 DEF ReadSoFar, Moments
    <3> QED
      BY <3>1, <3>2
  <2>6. at \in [1 .. m -> Nat] /\ \A o \in 1 .. m : at[o] \in Nat /\ at[o] <= Now
    <3>1. began[r] .. Now \subseteq Nat /\ \A n \in began[r] .. Now : n <= Now
      BY <1>0
    <3> QED
      BY <3>1
  <2>7. Len(s) = m
    BY <2>3, <2>5 DEF ReadOff
  <2>8. /\ m + 1 \in Options
        /\ cur'[r] = [cur[r] EXCEPT !.option = Append(s, Row(p, Now).option[m + 1])]
    BY <1>5, <2>7 DEF ReadOption, LockTypes
  <2> DEFINE more == [o \in 1 .. m + 1 |-> IF o = m + 1 THEN Now ELSE at[o]]
  <2>9. Append(s, Row(p, Now).option[m + 1]) = ReadOff(p, more, m + 1)
    <3>1. Append(ReadOff(p, at, m), Row(p, Now).option[m + 1]) = ReadOff(p, more, m + 1)
      <4>1. m + 1 \in Options /\ m \in Nat /\ at \in [1 .. m -> Nat] /\ Now \in Nat
        BY <1>0, <2>3, <2>6, <2>8
      <4> HIDE DEF s
      <4> QED
        BY <4>1, ReadOne
    <3> HIDE DEF more, s
    <3> QED
      BY <2>5, <3>1
  <2>10. cur'[r] = [option |-> ReadOff(p, more, m + 1), comment |-> 0]
    <3> HIDE DEF s, more
    <3> QED
      BY <2>4, <2>8, <2>9
  <2>11. ReadOff(p, more, m + 1)' = ReadOff(p, more, m + 1)
    <3>1. more' = more
      BY <1>0
    <3>2. \A n : Row(p, n)' = Row(p, n)
      BY <1>0 DEF Row, Value
    <3> HIDE DEF more
    <3> QED
      BY <3>1, <3>2 DEF ReadOff
  <2>12. m + 1 \in 0 .. NumOptions
    BY <2>8, <1>n DEF Options
  <2>13. CASE page[r] = "vote"
    <3>1. more = [o \in 1 .. m + 1 |-> Now]
      BY <2>5, <2>13
    <3>2. r \in lock'[p] /\ writing'[p] = NoField
      BY <1>0, <2>1, <2>2, <2>3, <2>13 DEF ReadSoFar
    <3>3. [o \in 1 .. m + 1 |-> Now]' = [o \in 1 .. m + 1 |-> Now]
      BY <1>0
    <3>4. ReadSoFar(r, p, m + 1)'
      <4>1. cur'[r].option = ReadOff(p, [o \in 1 .. m + 1 |-> Now], m + 1)'
        <5>1. ReadOff(p, [o \in 1 .. m + 1 |-> Now], m + 1)'
                  = [o \in 1 .. m + 1 |-> Row(p, Now).option[o]']
          BY DEF ReadOff
        <5>2. ReadOff(p, more, m + 1) = [o \in 1 .. m + 1 |-> Row(p, Now).option[o]]
          BY <3>1 DEF ReadOff
        <5>3. \A o : Row(p, Now).option[o]' = Row(p, Now).option[o]
          BY <1>0 DEF Row, Value
        <5>4. ReadOff(p, [o \in 1 .. m + 1 |-> Now], m + 1)' = ReadOff(p, more, m + 1)
          BY <5>1, <5>2, <5>3
        <5>5. cur'[r].option = ReadOff(p, more, m + 1)
          <6> HIDE DEF more
          <6> QED
            BY <2>10
        <5> QED
          BY <5>4, <5>5
      <4>2. cur'[r] = [option |-> cur'[r].option, comment |-> 0]
        BY <2>10
      <4> QED
        BY <2>1, <2>3, <2>13, <3>2, <4>1, <4>2 DEF ReadSoFar
    <3> QED
      BY <2>3, <2>12, <3>4 DEF CurInv
  <2>14. CASE page[r] # "vote"
    <3>1. more \in [1 .. m + 1 -> began[r] .. Now]
      <4>1. Now \in began[r] .. Now
        BY <1>0
      <4>2. \A o \in 1 .. m + 1 : o # m + 1 => o \in 1 .. m
        BY <2>3
      <4> QED
        BY <2>5, <4>1, <4>2
    <3>2. \A o \in 2 .. m + 1 : more[o - 1] <= more[o]
      <4>1. \A o \in 2 .. m : at[o - 1] <= at[o]
        BY <2>5, <2>14 DEF Moments
      <4>2. ASSUME NEW o \in 2 .. m + 1 PROVE more[o - 1] <= more[o]
        <5>1. o - 1 \in 1 .. m /\ o - 1 \in 1 .. m + 1 /\ o \in 1 .. m + 1 /\ o - 1 # m + 1
          BY <2>3
        <5>2. more[o - 1] = at[o - 1]
          BY <5>1
        <5>3. CASE o = m + 1
          BY <2>6, <5>1, <5>2, <5>3
        <5>4. CASE o # m + 1
          <6>1. o \in 2 .. m /\ more[o] = at[o]
            BY <2>3, <5>1, <5>4
          <6> QED
            BY <4>1, <5>2, <6>1
        <5> QED
          BY <5>3, <5>4
      <4> QED
        BY <4>2
    <3>3. more \in Moments(r, m + 1)'
      <4>1. Moments(r, m + 1)' = Moments(r, m + 1)
        BY <1>0, <2>1 DEF Moments
      <4>2. more \in Moments(r, m + 1)
        <5> HIDE DEF more
        <5> QED
          BY <3>1, <3>2 DEF Moments
      <4> QED
        BY <4>1, <4>2
    <3>4. cur'[r].option = ReadOff(p, more, m + 1)'
          /\ cur'[r] = [option |-> cur'[r].option, comment |-> 0]
      <4> HIDE DEF more
      <4> QED
        BY <2>10, <2>11
    <3>5. ReadSoFar(r, p, m + 1)'
      <4>1. \E x \in Moments(r, m + 1)' : cur'[r].option = ReadOff(p, x, m + 1)'
        <5>1. more' = more
          BY <1>0
        <5> HIDE DEF more
        <5> QED
          BY <2>10, <2>11, <3>3, <5>1 DEF ReadOff
      <4> QED
        BY <2>1, <2>3, <2>14, <3>4, <4>1 DEF ReadSoFar
    <3> QED
      BY <2>3, <2>12, <3>5 DEF CurInv
  <2> QED
    BY <2>13, <2>14
<1>6. ASSUME NEW p \in Paths, ReadComments(r, p) PROVE CurInv(r)'
  <2>1. \E row : Show(r, p, row)
    BY <1>6 DEF ReadComments
  <2>2. pc'[r] \in {"done", "walk"}
    BY <2>1, ShowValues
  <2> QED
    BY <1>1, <2>2
<1>7. CASE (\E p \in Paths : GetVote(r, p)) \/ GetAll(r)
  <2>1. pc'[r] # "read"
    BY <1>0, <1>7 DEF GetVote, GetAll, Goto
  <2> QED
    BY <1>1, <2>1
<1>8. CASE Begin(r) \/ Scan(r) \/ NextPoll(r) \/ WalkEnds(r)
  <2>1. pc'[r] # "read"
    BY <1>0, <1>8 DEF Begin, Scan, NextPoll, WalkEnds, Goto
  <2> QED
    BY <1>1, <2>1
<1>9. CASE RedisFails(r) \/ ServerFails(r) \/ RowsStop(r)
  <2>1. pc'[r] # "read"
    BY <1>0, <1>9 DEF RedisFails, ServerFails, RowsStop, Goto, GivesUp
  <2> QED
    BY <1>1, <2>1
<1> QED
  BY <1>3, <1>4, <1>5, <1>6, <1>7, <1>8, <1>9 DEF Reader, Serve

(* A poll that a reader's own step puts on the page was so.                *)
LEMMA OwnShown ==
    ASSUME WalkTypes, LockTypes, RoomInv, NEW r \in Readers, ReaderInv(r), Reader(r),
           PlaceInv(r), CurInv(r), ShownInv(r)
    PROVE  ShownInv(r)'
<1>0. /\ Now \in Nat /\ page[r] \in {"vote", "list"} /\ mode \in Backends
      /\ began[r] \in Nat /\ began[r] <= Now /\ MaxWrites \in Nat /\ Now <= MaxWrites
  <2>1. Cardinality(Written) \in Nat
    BY WrittenFew
  <2>2. Now \in Nat /\ MaxWrites \in Nat
    BY BoundsAssumption DEF WalkTypes, Now
  <2>3. Now <= MaxWrites
    BY <2>1, <2>2 DEF RoomInv
  <2> QED
    BY <2>2, <2>3 DEF WalkTypes, ReaderInv
<1>n. [Next]_vars
  BY DEF Next, Reader
<1>1. ASSUME began'[r] = began[r], page'[r] = page[r],
             \A item \in shown'[r] : ItemInv(r, item)
      PROVE  ShownInv(r)'
  BY <1>1, <1>n, ItemStays DEF ShownInv
<1>2. ASSUME UNCHANGED <<request, shown>> PROVE ShownInv(r)'
  BY <1>1, <1>2 DEF request, ShownInv
<1>3. ASSUME NEW p, NEW row, Show(r, p, row), UNCHANGED request,
             ItemInv(r, [path |-> p, row |-> row])
      PROVE  ShownInv(r)'
  <2>1. shown' = [shown EXCEPT ![r] = @ \cup {[path |-> p, row |-> row]}]
    BY <1>3 DEF Show
  <2>2. shown'[r] = shown[r] \cup {[path |-> p, row |-> row]}
    BY <2>1 DEF WalkTypes
  <2> QED
    BY <1>1, <1>3, <2>2 DEF request, ShownInv
<1>4. ASSUME NEW kind, NewRequest(r, kind) PROVE ShownInv(r)'
  <2>1. shown'[r] = {}
    BY <1>4 DEF NewRequest, WalkTypes
  <2> QED
    BY <2>1 DEF ShownInv
<1>5. ASSUME NEW p \in Paths \cup {CounterKey}, Find(r, p) PROVE ShownInv(r)'
  <2>1. pc[r] = "find" /\ UNCHANGED request
    BY <1>5 DEF Find
  <2>2. CASE p \in StoredAt(Now) /\ mode # "os"
    <3>1. PICK k \in ReadAt(r) : /\ Stored(p, k)
                                 /\ \E row \in Decoded(Row(p, k)) : Show(r, p, row)
      BY <1>5, <2>2 DEF Find
    <3>2. PICK row \in Decoded(Row(p, k)) : Show(r, p, row)
      BY <3>1
    <3>3. k \in began[r] .. Now
      <4>1. CASE page[r] = "vote" \/ mode = "redis"
        BY <1>0, <3>1, <4>1 DEF ReadAt
      <4>2. CASE ~ (page[r] = "vote" \/ mode = "redis")
        <5>1. base[r].at \in began[r] .. Now
          BY <1>0, <2>1, <4>2 DEF ReaderInv, WalkInv, Busy
        <5>2. k = base[r].at \/ k \in base[r].at .. Now
          BY <3>1, <4>2 DEF ReadAt
        <5> QED
          BY <1>0, <5>1, <5>2
      <4> QED
        BY <4>1, <4>2
    <3>4. row = Row(p, k)
      <4>1. k \in 0 .. MaxWrites
        BY <1>0, <3>3
      <4> QED
        BY <1>0, <3>2, <4>1, DecodedRow
    <3>5. p \in Paths
      BY <2>2 DEF StoredAt
    <3>6. ItemInv(r, [path |-> p, row |-> row])
      BY <3>3, <3>4, <3>5 DEF ItemInv
    <3> QED
      BY <1>3, <2>1, <3>2, <3>6
  <2>3. CASE p \notin StoredAt(Now) \/ mode = "os"
    <3>1. shown' = shown
      BY <1>5, <2>3 DEF Find
    <3> QED
      BY <1>2, <2>1, <3>1
  <2> QED
    BY <2>2, <2>3
<1>6. ASSUME NEW p \in Paths, ReadComments(r, p) PROVE ShownInv(r)'
  <2>1. pc[r] = "read" /\ p \in walk[r].todo /\ Len(cur[r].option) = NumOptions
        /\ UNCHANGED request
    BY <1>6 DEF ReadComments
  <2>2. PICK n \in {Value(p, Comment, Now)} \cup
                 (IF writing[p] = Comment THEN {Value(p, Comment, Now) + 1, Torn} ELSE {}) :
            Show(r, p, [cur[r] EXCEPT !.comment = n])
    BY <1>6 DEF ReadComments
  <2>3. PICK q \in Paths, m \in 0 .. NumOptions : ReadSoFar(r, q, m)
    BY <2>1 DEF CurInv
  <2>4. q = p
    BY <2>1, <2>3 DEF ReadSoFar
  <2>5. m = NumOptions
    <3>1. \E at : cur[r].option = ReadOff(p, at, m)
      BY <2>3, <2>4 DEF ReadSoFar
    <3>2. PICK at : cur[r].option = ReadOff(p, at, m)
      BY <3>1
    <3>3. m \in Nat
      BY NumOptionsAssumption
    <3>4. Len(ReadOff(p, at, m)) = m
      BY <3>3 DEF ReadOff
    <3> QED
      BY <2>1, <3>2, <3>4
  <2> DEFINE row == [cur[r] EXCEPT !.comment = n]
  <2>6. row = [option |-> cur[r].option, comment |-> n]
    <3>1. cur[r] = [option |-> cur[r].option, comment |-> 0]
      BY <2>3 DEF ReadSoFar
    <3> QED
      BY <3>1
  <2>7. CASE page[r] = "vote"
    <3>1. cur[r].option = ReadOff(p, [o \in 1 .. NumOptions |-> Now], NumOptions)
          /\ writing[p] = NoField
      BY <2>3, <2>4, <2>5, <2>7 DEF ReadSoFar
    <3>2. ReadOff(p, [o \in 1 .. NumOptions |-> Now], NumOptions)
              = [o \in Options |-> Row(p, Now).option[o]]
      BY DEF ReadOff, Options
    <3>3. /\ Row(p, Now).option \in [Options -> [name : 0 .. NumOptions, num : 0 .. Now]]
          /\ Row(p, Now) = [option |-> Row(p, Now).option, comment |-> Value(p, Comment, Now)]
      BY <1>0, RowTypes
    <3>4. cur[r].option = Row(p, Now).option
      BY <3>1, <3>2, <3>3
    <3>5. n = Value(p, Comment, Now)
      BY <2>2, <3>1, NoFieldAssumption DEF Fields
    <3>6. row = Row(p, Now)
      <4> HIDE DEF row
      <4> QED
        BY <2>6, <3>3, <3>4, <3>5
    <3>7. Now \in began[r] .. Now
      BY <1>0
    <3>8. ItemInv(r, [path |-> p, row |-> row])
      <4> HIDE DEF row
      <4> QED
        BY <3>6, <3>7 DEF ItemInv
    <3> QED
      BY <1>3, <2>1, <2>2, <3>8
  <2>8. CASE page[r] # "vote"
    <3>1. mode = "os" /\ page[r] = "list"
      BY <1>0, <2>1, <2>8 DEF PlaceInv
    <3>2. PICK at \in Moments(r, NumOptions) : cur[r].option = ReadOff(p, at, NumOptions)
      BY <2>3, <2>4, <2>5, <2>8 DEF ReadSoFar
    <3>3. row.option = cur[r].option
      BY <2>6
    <3>4. ItemInv(r, [path |-> p, row |-> row])
      <4> HIDE DEF row
      <4> QED
        BY <3>1, <3>2, <3>3 DEF ItemInv
    <3> QED
      BY <1>3, <2>1, <2>2, <3>4
  <2> QED
    BY <2>7, <2>8
<1>7. CASE (\E p \in Paths : GetVote(r, p)) \/ GetAll(r)
  BY <1>4, <1>7 DEF GetVote, GetAll
<1>8. ASSUME NEW p \in Paths, LockPoll(r, p) \/ ReadOption(r, p) PROVE ShownInv(r)'
  BY <1>2, <1>8 DEF LockPoll, ReadOption
<1>9. CASE Begin(r) \/ Scan(r) \/ NextPoll(r) \/ WalkEnds(r)
  BY <1>2, <1>9 DEF Begin, Scan, NextPoll, WalkEnds
<1>10. CASE RedisFails(r) \/ ServerFails(r) \/ RowsStop(r)
  BY <1>2, <1>10 DEF RedisFails, ServerFails, RowsStop
<1> QED
  BY <1>5, <1>6, <1>7, <1>8, <1>9, <1>10 DEF Reader, Serve

(* Nothing is shown yet.                                                   *)
LEMMA RowInit == Init => RowInv
<1> SUFFICES ASSUME Init PROVE RowInv
  OBVIOUS
<1>1. Now = 0 /\ Written = {}
  BY DEF Init, Now, Written
<1>2. RoomInv
  BY <1>1, BoundsAssumption, FS_EmptySet DEF RoomInv
<1>3. LockTypes
  BY DEF Init, LockTypes
<1>4. ASSUME NEW r \in Readers
      PROVE  BoundsInv(r) /\ PlaceInv(r) /\ CurInv(r) /\ ShownInv(r)
  BY <1>1, BoundsAssumption, TriesAssumption
     DEF Init, BoundsInv, PlaceInv, CurInv, ShownInv, NoWalk, NoError, Busy
<1> QED
  BY <1>2, <1>3, <1>4 DEF RowInv, Init

(* Every step keeps what is known of the rows.                             *)
LEMMA RowStep == Inv /\ RowInv /\ [Next]_vars => RowInv'
<1> SUFFICES ASSUME Inv, RowInv, [Next]_vars PROVE RowInv'
  OBVIOUS
<1>1. WalkTypes /\ RoomInv /\ LockTypes
  BY DEF Inv, RowInv
<1>2. RoomInv'
  BY <1>1, RoomStep
<1>3. LockTypes'
  BY <1>1, Steps, ReaderLock, OtherLock
<1>4. ASSUME NEW r \in Readers
      PROVE  BoundsInv(r)' /\ PlaceInv(r)' /\ CurInv(r)' /\ ShownInv(r)'
  <2>1. ReaderInv(r) /\ BoundsInv(r) /\ PlaceInv(r) /\ CurInv(r) /\ ShownInv(r)
    BY DEF Inv, RowInv
  <2>2. CASE Reader(r)
    BY <1>1, <2>1, <2>2, OwnBounds, OwnPlace, OwnCur, OwnShown
  <2>3. CASE ~Reader(r)
    <3>1. Keeps(r) /\ KeepsLock(r)
      BY <1>1, <2>3, Steps, ReaderStep, OtherStep, ReaderLock, OtherLock
    <3> QED
      BY <1>1, <2>1, <3>1, KeepRow
  <2> QED
    BY <2>2, <2>3
<1>5. mode' \in Modes
  BY <1>1, LogStep DEF RowInv
<1> QED
  BY <1>2, <1>3, <1>4, <1>5 DEF RowInv

(* Both hold of every behaviour.                                           *)
LEMMA RowHolds == Spec => [](Inv /\ RowInv)
<1>1. Init => Inv /\ RowInv
  BY InvInit, RowInit
<1>2. Inv /\ RowInv /\ [Next]_vars => (Inv /\ RowInv)'
  BY InvStep, RowStep
<1> QED
  BY <1>1, <1>2, PTL DEF Spec

(* Every variable of the model has its type: no reader counts more calls   *)
(* or failures than the loops of redis.go:154 and 257 allow, and what is   *)
(* on a page is a poll with all of its options.                            *)
THEOREM TypeCorrect == Spec => []TypeOK
<1>1. Inv /\ RowInv => TypeOK
  <2> SUFFICES ASSUME Inv, RowInv PROVE TypeOK
    OBVIOUS
  <2>1. WalkTypes /\ RoomInv /\ LockTypes
    BY DEF Inv, RowInv
  <2>2. Now \in Nat /\ MaxWrites \in Nat /\ Now <= MaxWrites /\ MaxCalls \in Nat /\ Tries \in Nat
    <3>1. Cardinality(Written) \in Nat
      BY <2>1, WrittenFew
    <3>2. Now \in Nat /\ MaxWrites \in Nat /\ MaxCalls \in Nat /\ Tries \in Nat
      BY <2>1, BoundsAssumption, TriesAssumption DEF WalkTypes, Now
    <3> QED
      BY <2>1, <3>1, <3>2 DEF RoomInv
  <2>3. ASSUME NEW r \in Readers
        PROVE  /\ began[r] \in 0 .. MaxWrites
               /\ base[r] \in [polls : SUBSET Paths, at : 0 .. MaxWrites]
               /\ walk[r] \in [seen : SUBSET Paths,
                               todo : SUBSET (Paths \cup {CounterKey}),
                               calls : 0 .. MaxCalls, over : BOOLEAN]
               /\ errs[r] \in [data : 0 .. Tries, find : 0 .. Tries]
    <3>1. ReaderInv(r) /\ BoundsInv(r)
      BY DEF Inv, RowInv
    <3>2. /\ began[r] \in Nat /\ base[r] \in [polls : SUBSET Paths, at : Nat]
          /\ walk[r] \in Walks /\ errs[r] \in [data : Nat, find : Nat]
      BY <2>1 DEF WalkTypes
    <3>3. began[r] \in 0 .. MaxWrites /\ base[r].at \in 0 .. MaxWrites
      BY <2>2, <3>1, <3>2 DEF ReaderInv, BoundsInv
    <3>4. walk[r].calls \in 0 .. MaxCalls /\ walk[r].seen \subseteq Paths
      <4>1. walk[r].calls \in Nat
        BY <3>2 DEF Walks
      <4> QED
        BY <2>2, <3>1, <4>1 DEF BoundsInv
    <3>5. errs[r].data \in 0 .. Tries /\ errs[r].find \in 0 .. Tries
      BY <2>2, <3>1, <3>2 DEF BoundsInv
    <3> QED
      BY <3>2, <3>3, <3>4, <3>5 DEF Walks, Keys
  <2>4. ASSUME NEW r \in Readers, NEW item \in shown[r]
        PROVE  /\ item.path \in Paths
               /\ item.row.option \in [Options -> [name : 0 .. NumOptions, num : Nat]]
    <3>1. ItemInv(r, item) /\ began[r] \in Nat
      BY <2>1 DEF RowInv, ShownInv, WalkTypes
    <3>2. ASSUME NEW k \in Nat
          PROVE  Row(item.path, k).option \in [Options -> [name : 0 .. NumOptions, num : Nat]]
      <4>1. Row(item.path, k).option \in [Options -> [name : 0 .. NumOptions, num : 0 .. k]]
        BY RowTypes
      <4>2. [name : 0 .. NumOptions, num : 0 .. k] \subseteq [name : 0 .. NumOptions, num : Nat]
        OBVIOUS
      <4> QED
        BY <4>1, <4>2
    <3>3. ASSUME NEW k \in began[r] .. Now, item.row = Row(item.path, k)
          PROVE  item.row.option \in [Options -> [name : 0 .. NumOptions, num : Nat]]
      <4>1. k \in Nat
        BY <3>1
      <4> QED
        BY <3>2, <3>3, <4>1
    <3>4. ASSUME NEW at \in Moments(r, NumOptions),
                 item.row.option = ReadOff(item.path, at, NumOptions)
          PROVE  item.row.option \in [Options -> [name : 0 .. NumOptions, num : Nat]]
      <4>1. \A o \in Options : at[o] \in Nat
        BY <3>1 DEF Moments, Options
      <4>2. \A o \in Options :
                Row(item.path, at[o]).option[o] \in [name : 0 .. NumOptions, num : Nat]
        BY <3>2, <4>1
      <4> QED
        BY <3>4, <4>2 DEF ReadOff, Options
    <3> QED
      BY <3>1, <3>3, <3>4 DEF ItemInv
  <2>5. /\ began \in [Readers -> 0 .. MaxWrites]
        /\ base \in [Readers -> [polls : SUBSET Paths, at : 0 .. MaxWrites]]
        /\ walk \in [Readers -> [seen : SUBSET Paths,
                                 todo : SUBSET (Paths \cup {CounterKey}),
                                 calls : 0 .. MaxCalls, over : BOOLEAN]]
        /\ errs \in [Readers -> [data : 0 .. Tries, find : 0 .. Tries]]
    BY <2>1, <2>3 DEF WalkTypes
  <2>6. mode \in Modes /\ lock \in [Paths -> SUBSET Readers]
    BY <2>1 DEF RowInv, LockTypes
  <2> QED
    BY <2>1, <2>2, <2>4, <2>5, <2>6 DEF TypeOK, WalkTypes
<1> QED
  BY <1>1, RowHolds, PTL

(* A page shows a poll as it was during the request: every option with its *)
(* name and its votes, whatever order a hash is decoded in (vote.go:193,   *)
(* rss.go:25, redis.go:171). Only a list under os shows options of         *)
(* different moments, and those do not go back from one option to the next. *)
THEOREM RowsWereStoredHolds == Spec => []RowsWereStored
<1>1. Inv /\ RowInv => RowsWereStored
  <2> SUFFICES ASSUME Inv, RowInv, NEW r \in Readers, NEW item \in shown[r]
               PROVE  \/ \E k \in began[r] .. Now : item.row = Row(item.path, k)
                      \/ /\ mode = "os" /\ page[r] = "list"
                         /\ \E at \in [Options -> began[r] .. Now] :
                              /\ \A o \in Options \ {1} : at[o - 1] <= at[o]
                              /\ \A o \in Options :
                                  item.row.option[o] = Row(item.path, at[o]).option[o]
    BY DEF RowsWereStored
  <2>1. ItemInv(r, item)
    BY DEF RowInv, ShownInv
  <2>2. ASSUME NEW at \in Moments(r, NumOptions),
               item.row.option = ReadOff(item.path, at, NumOptions)
        PROVE  /\ at \in [Options -> began[r] .. Now]
               /\ \A o \in Options \ {1} : at[o - 1] <= at[o]
               /\ \A o \in Options : item.row.option[o] = Row(item.path, at[o]).option[o]
    <3>1. \A o \in Options \ {1} : o \in 2 .. NumOptions
      BY NumOptionsAssumption DEF Options
    <3> QED
      BY <2>2, <3>1 DEF Moments, ReadOff, Options
  <2> QED
    BY <2>1, <2>2 DEF ItemInv
<1> QED
  BY <1>1, RowHolds, PTL

-----------------------------------------------------------------------------
(* The lock of a poll.                                                     *)

(* It is held under os only, by one GET /vote that is reading this poll,   *)
(* and never while a request writes to the poll.                           *)
LockHeld ==
    /\ \A p \in Paths : \A r \in lock[p] :
        mode = "os" /\ pc[r] = "read" /\ page[r] = "vote" /\ walk[r].todo = {p}
    /\ \A p \in Paths : \A r, s \in lock[p] : r = s
    /\ \A p \in Paths : writing[p] # NoField => mode = "os" /\ lock[p] = {}

(* A step of one reader takes no other reader elsewhere.                   *)
LEMMA OthersStay ==
    ASSUME WalkTypes, NEW r \in Readers, Reader(r)
    PROVE  \A q \in Readers \ {r} : pc'[q] = pc[q]
<1>1. pc \in [Readers -> Places]
  BY DEF WalkTypes, Places
<1>2. pc' = pc \/ \E x : Goto(r, x)
  BY DEF Reader, Serve, GetVote, GetAll, Begin, Scan, NextPoll, WalkEnds, Find, Show,
     LockPoll, ReadOption, ReadComments, RedisFails, ServerFails, RowsStop
<1> QED
  BY <1>1, <1>2 DEF Goto

(* LockHeld says of the locks only who holds them: it survives when those  *)
(* that hold one afterwards held it before, and are where they were.       *)
LEMMA HoldersStay ==
    ASSUME LockTypes, LockHeld, mode' = mode, writing' = writing,
           \A p \in Paths : lock'[p] \subseteq lock[p],
           \A p \in Paths : \A q \in lock'[p] :
               pc'[q] = pc[q] /\ page'[q] = page[q] /\ walk'[q] = walk[q]
    PROVE  LockHeld'
BY DEF LockTypes, LockHeld

(* A reader takes the lock of the poll it looks for when nobody has it,    *)
(* keeps it while it reads, and gives it back with the last field.         *)
LEMMA ReaderHolds ==
    ASSUME WalkTypes, LockTypes, LockHeld, NEW r \in Readers, PlaceInv(r), Reader(r)
    PROVE  LockHeld'
<1>1. mode' = mode /\ writing' = writing
  BY ReaderReads DEF database
<1>2. /\ \A p \in Paths : lock[p] \subseteq Readers
      /\ lock \in [Paths -> SUBSET Readers]
      /\ pc \in [Readers -> Places] /\ page \in [Readers -> {"vote", "list"}]
      /\ walk \in [Readers -> Walks]
  BY DEF LockTypes, WalkTypes, Places
<1>3. \A q \in Readers \ {r} : pc'[q] = pc[q] /\ page'[q] = page[q] /\ walk'[q] = walk[q]
  BY OthersStay, ReaderStep DEF Keeps
<1>4. pc[r] # "read" => \A p \in Paths : r \notin lock[p]
  BY DEF LockHeld
<1>5. CASE lock' = lock /\ pc[r] # "read"
  BY <1>1, <1>2, <1>3, <1>4, <1>5, HoldersStay
<1>6. ASSUME NEW p \in Paths, ReadOption(r, p) PROVE LockHeld'
  BY <1>1, <1>6, HoldersStay DEF ReadOption, request
<1>7. ASSUME NEW p \in Paths, ReadComments(r, p) PROVE LockHeld'
  <2>1. lock' = [lock EXCEPT ![p] = lock[p] \ {r}] /\ p \in walk[r].todo
    BY <1>7 DEF ReadComments, Unlocked
  <2>2. \A q \in Paths : lock'[q] \subseteq lock[q] /\ r \notin lock'[q]
    BY <1>2, <2>1 DEF LockHeld
  <2> QED
    BY <1>1, <1>2, <1>3, <2>2, HoldersStay
<1>8. ASSUME NEW p \in Paths, LockPoll(r, p) PROVE LockHeld'
  <2>1. /\ pc[r] = "lock" /\ p \in walk[r].todo
        /\ writing[p] = NoField /\ lock[p] = {}
        /\ lock' = [lock EXCEPT ![p] = {r}]
        /\ pc'[r] = "read" /\ page' = page /\ walk' = walk
    BY <1>2, <1>8 DEF LockPoll, Goto, request
  <2>2. mode = "os" /\ page[r] = "vote" /\ walk[r].todo = {p}
    BY <2>1 DEF PlaceInv, Busy
  <2>3. lock'[p] = {r} /\ \A q \in Paths \ {p} : lock'[q] = lock[q] /\ r \notin lock[q]
    BY <1>2, <1>4, <2>1
  <2>4. ASSUME NEW q \in Paths, NEW s \in lock'[q]
        PROVE  mode' = "os" /\ pc'[s] = "read" /\ page'[s] = "vote" /\ walk'[s].todo = {q}
    <3>1. CASE q = p
      BY <1>1, <2>1, <2>2, <2>3, <2>4, <3>1
    <3>2. CASE q # p
      <4>1. s \in lock[q] /\ s \in Readers \ {r}
        BY <1>2, <2>3, <2>4, <3>2
      <4> QED
        BY <1>1, <1>3, <2>1, <4>1 DEF LockHeld
    <3> QED
      BY <3>1, <3>2
  <2>5. \A q \in Paths : \A s, t \in lock'[q] : s = t
    BY <2>3 DEF LockHeld
  <2>6. \A q \in Paths : writing'[q] # NoField => mode' = "os" /\ lock'[q] = {}
    BY <1>1, <2>1, <2>3 DEF LockHeld
  <2> QED
    BY <2>4, <2>5, <2>6 DEF LockHeld
<1>9. ASSUME NEW p \in Paths \cup {CounterKey}, Find(r, p) PROVE LockHeld'
  BY <1>5, <1>9 DEF Find
<1>10. CASE \/ \E p \in Paths : GetVote(r, p)
            \/ GetAll(r) \/ Begin(r) \/ Scan(r) \/ NextPoll(r) \/ WalkEnds(r)
            \/ RedisFails(r) \/ ServerFails(r) \/ RowsStop(r)
  BY <1>5, <1>10 DEF GetVote, GetAll, NewRequest, Busy, Begin, Scan, NextPoll, WalkEnds,
     RedisFails, ServerFails, RowsStop
<1> QED
  BY <1>6, <1>7, <1>8, <1>9, <1>10 DEF Reader, Serve

(* A request that writes waits for the readers of its poll, and a cursor   *)
(* stops the process only over mongodb, where nobody holds a lock.         *)
LEMMA LockHeldStep == Inv /\ RowInv /\ LockHeld /\ [Next]_vars => LockHeld'
<1> SUFFICES ASSUME Inv, RowInv, LockHeld, [Next]_vars PROVE LockHeld'
  OBVIOUS
<1>1. WalkTypes /\ LockTypes /\ \A r \in Readers : PlaceInv(r)
  BY DEF Inv, RowInv
<1>2. writing \in [Paths -> Fields \cup {NoField}]
  BY <1>1 DEF WalkTypes
<1>3. CASE Writer
  <2>1. UNCHANGED <<mode, lock, pc, page, walk>>
    BY <1>3 DEF Writer, CreateVote, WrittenAndUnlock, Write, LockAndWrite, request
  <2>2. \A p \in Paths : writing'[p] # NoField =>
            writing[p] # NoField \/ (mode = "os" /\ lock[p] = {})
    BY <1>2, <1>3 DEF Writer, CreateVote, WrittenAndUnlock, Write, LockAndWrite
  <2> QED
    BY <2>1, <2>2 DEF LockHeld
<1>4. ASSUME NEW r \in Readers, CursorFails(r) PROVE LockHeld'
  <2>1. mode # "os" /\ UNCHANGED <<mode, lock, writing>>
    BY <1>4 DEF CursorFails, database
  <2> QED
    BY <2>1 DEF LockHeld
<1>5. CASE UNCHANGED vars
  BY <1>5 DEF vars, LockHeld
<1> QED
  BY <1>1, <1>3, <1>4, <1>5, Steps, ReaderHolds

(* A GET /vote that finds its poll locked waits for one other, which is    *)
(* reading the fields of this poll and waits for nobody, or for a request  *)
(* that has the lock to write one field; never for both.                   *)
WaitsForHolder ==
    \A r \in Readers, p \in Paths :
        /\ pc[r] = "lock" /\ lock[p] # {} =>
            /\ writing[p] = NoField
            /\ \E s \in Readers \ {r} :
                lock[p] = {s} /\ pc[s] = "read" /\ walk[s].todo = {p}
        /\ r \in lock[p] => \A q \in Paths : r \in lock[q] => q = p

(* Pages and votes do not hold each other up (vote.go:193-195): whoever    *)
(* has a poll's lock is at its fields, has no other lock and asks for no   *)
(* other.                                                                  *)
THEOREM WaitsForHolderHolds == Spec => []WaitsForHolder
<1>1. Init => LockHeld
  BY DEF Init, LockHeld
<1>2. LockTypes /\ LockHeld => WaitsForHolder
  <2> SUFFICES ASSUME LockTypes, LockHeld, NEW r \in Readers, NEW p \in Paths
               PROVE  /\ pc[r] = "lock" /\ lock[p] # {} =>
                          /\ writing[p] = NoField
                          /\ \E s \in Readers \ {r} :
                              lock[p] = {s} /\ pc[s] = "read" /\ walk[s].todo = {p}
                      /\ r \in lock[p] => \A q \in Paths : r \in lock[q] => q = p
    BY DEF WaitsForHolder
  <2>1. ASSUME pc[r] = "lock", NEW s \in lock[p]
        PROVE  /\ writing[p] = NoField
               /\ s \in Readers \ {r} /\ lock[p] = {s} /\ pc[s] = "read" /\ walk[s].todo = {p}
    BY <2>1 DEF LockHeld, LockTypes
  <2>2. r \in lock[p] => \A q \in Paths : r \in lock[q] => q = p
    BY DEF LockHeld
  <2> QED
    BY <2>1, <2>2
<1>3. Inv /\ RowInv => LockTypes
  BY DEF RowInv
<1> QED
  BY <1>1, <1>2, <1>3, LockHeldStep, RowHolds, PTL DEF Spec
==============================================================================
