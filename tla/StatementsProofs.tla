--------------------------- MODULE StatementsProofs ---------------------------
(***************************************************************************)
(* What the pages tell is true for every finite set of parties and         *)
(* currencies, and for all amounts, dates and rates.  Two invariants are   *)
(* added to that of LedgerProofs: RowsFormed, what the lines of each kind  *)
(* of document look like, and BooksClose, what the stock has cost.         *)
(***************************************************************************)
EXTENDS Statements, LedgerProofs

-----------------------------------------------------------------------------
(* The lines in the table *)

LEMMA PlacesFinite ==
  ASSUME IInv
  PROVE  /\ IsFiniteSet(Rows) /\ IsFiniteSet(Places)
         /\ MaxLines = 4 /\ 1..MaxLines = {1, 2, 3, 4}
<1>1. IsFiniteSet(Rows) /\ IsFiniteSet(1..MaxLines)
  <2>1. IsFiniteSet(Rows)
    BY RowsFinite DEF IInv
  <2>2. MaxLines \in Int
    BY DEF MaxLines
  <2>3. IsFiniteSet(1..MaxLines)
    BY <2>2, FS_Interval
  <2> QED
    BY <2>1, <2>3
<1>2. IsFiniteSet(Rows \X (1..MaxLines))
  BY <1>1, FS_Product
<1>3. Places \subseteq Rows \X (1..MaxLines)
  BY DEF Places
<1>4. MaxLines = 4 /\ 1..MaxLines = {1, 2, 3, 4}
  BY DEF MaxLines
<1> QED
  BY <1>1, <1>2, <1>3, <1>4, FS_Subset

\* A place by its document and row.
LEMMA PlaceAt ==
  ASSUME IInv
  PROVE  /\ \A k \in Places : /\ k = <<k[1], k[2]>> /\ k[1] \in Rows /\ k[2] \in {1, 2, 3, 4}
                              /\ k[2] \in DOMAIN voucher[k[1]].lines
                              /\ LineAt(k) = voucher[k[1]].lines[k[2]]
                              /\ LineAt(k).party \in Parties
                              /\ LineAt(k).currency \in Currencies
                              /\ LineAt(k).amount \in Int
         /\ \A id \in Rows, i \in {1, 2, 3, 4} :
              <<id, i>> \in Places <=> i \in DOMAIN voucher[id].lines
<1>1. 1..MaxLines = {1, 2, 3, 4}
  BY PlacesFinite
<1>2. \A id \in Rows : voucher[id].lines \in Seq(Line)
  BY DEF IInv, TypeOK, Row
<1>3. ASSUME NEW k \in Places
      PROVE  /\ k = <<k[1], k[2]>> /\ k[1] \in Rows /\ k[2] \in {1, 2, 3, 4}
             /\ k[2] \in DOMAIN voucher[k[1]].lines
             /\ LineAt(k) \in Line
  BY <1>1, <1>2 DEF Places, LineAt
<1> QED
  BY <1>1, <1>3 DEF Places, LineAt, Line

\* Lines summed document by document: w holds what each row of a document counts.
LEMMA LinesByDocument ==
  ASSUME IInv, NEW T \in SUBSET Rows, NEW K \in SUBSET Places, \A k \in K : k[1] \in T,
         NEW w, \A id \in T, i \in {1, 2, 3, 4} : w[id][i] \in Int,
         \A id \in T, i \in {1, 2, 3, 4} : <<id, i>> \notin K => w[id][i] = 0,
         NEW f, \A k \in K : f[k] = w[k[1]][k[2]],
         NEW g, \A id \in T : g[id] = w[id][1] + w[id][2] + w[id][3] + w[id][4]
  PROVE  SumFunctionOnSet(f, K) = SumFunctionOnSet(g, T)
<1>1. IsFiniteSet(T) /\ IsFiniteSet(K)
  BY PlacesFinite, FS_Subset
<1>2. \A k \in K : k = <<k[1], k[2]>> /\ k[1] \in T /\ k[2] \in {1, 2, 3, 4} /\ f[k] \in Int
  BY PlaceAt
<1> DEFINE m == [k \in K |-> k[1]]
<1>3. ASSUME NEW id \in T
      PROVE  g[id] = SumFunctionOnSet(f, {k \in K : m[k] = id})
  <2> DEFINE G == {k \in K : m[k] = id}
             all == {<<id, 1>>, <<id, 2>>, <<id, 3>>, <<id, 4>>}
             h == [k \in all |-> w[id][k[2]]]
  <2>1. w[id][1] \in Int /\ w[id][2] \in Int /\ w[id][3] \in Int /\ w[id][4] \in Int
    OBVIOUS
  <2>2. /\ h[<<id, 1>>] = w[id][1] /\ h[<<id, 2>>] = w[id][2]
        /\ h[<<id, 3>>] = w[id][3] /\ h[<<id, 4>>] = w[id][4]
    OBVIOUS
  <2>3. G \subseteq all
    BY <1>2
  <2>4. \A k \in all \ G : h[k] = 0
    <3>1. ASSUME NEW i \in {1, 2, 3, 4}, <<id, i>> \notin G PROVE w[id][i] = 0
      <4>1. <<id, i>> \notin K
        BY <3>1
      <4> QED
        BY <4>1
    <3> HIDE DEF G
    <3> QED
      BY <3>1
  <2>5. \A k \in G : h[k] = f[k]
    BY <1>2
  <2> HIDE DEF G, h
  <2>6. /\ IsFiniteSet(all)
        /\ SumFunctionOnSet(h, all) = h[<<id, 1>>] + h[<<id, 2>>] + h[<<id, 3>>] + h[<<id, 4>>]
    <3>1. \A i \in {1, 2, 3, 4} : h[<<id, i>>] \in Int
      BY <2>1, <2>2
    <3> QED
      BY <3>1, SumOfFour, Zenon
  <2>7. \A k \in all : h[k] \in Int
    BY <2>1, <2>2
  <2> HIDE DEF all
  <2>8. SumFunctionOnSet(h, all) = SumFunctionOnSet(h, G)
    BY <2>3, <2>4, <2>6, <2>7, SumIgnore
  <2>9. SumFunctionOnSet(h, G) = SumFunctionOnSet(f, G)
    BY <2>3, <2>5, <2>6, FS_Subset, SumEqual
  <2> QED
    BY <2>2, <2>6, <2>8, <2>9 DEF G
<1>4. \A k \in K : m[k] \in T
  OBVIOUS
<1> QED
  <2> HIDE DEF m
  <2>1. GroupSums(g, f, K, m, T)
    BY <1>3, Zenon DEF GroupSums
  <2> QED
    BY <1>1, <1>2, <1>4, <2>1, SumInGroups

\* Only the lines in c count.
LEMMA OthersCountNothing ==
  ASSUME IInv, NEW K \in SUBSET Places, NEW c \in Currencies,
         NEW T \in SUBSET K, \A k \in K \ T : LineAt(k).currency # c
  PROVE  /\ LinesTotal(K, c) \in Int
         /\ LinesTotal(K, c) = LinesTotal(T, c)
<1> DEFINE f == [k \in K |-> IF LineAt(k).currency = c THEN LineAt(k).amount ELSE 0]
           g == [k \in T |-> IF LineAt(k).currency = c THEN LineAt(k).amount ELSE 0]
<1>1. IsFiniteSet(K) /\ IsFiniteSet(T)
  BY PlacesFinite, FS_Subset
<1>2. \A k \in K : f[k] \in Int
  BY PlaceAt
<1>3. /\ \A k \in K \ T : f[k] = 0
      /\ \A k \in T : g[k] = f[k]
  OBVIOUS
<1>4. LinesTotal(K, c) = SumFunctionOnSet(f, K) /\ LinesTotal(T, c) = SumFunctionOnSet(g, T)
  BY Zenon DEF LinesTotal
<1> HIDE DEF f, g
<1>5. SumFunctionOnSet(f, K) = SumFunctionOnSet(f, T)
  BY <1>1, <1>2, <1>3, SumIgnore
<1>6. SumFunctionOnSet(g, T) = SumFunctionOnSet(f, T)
  BY <1>1, <1>3, SumEqual
<1>7. SumFunctionOnSet(f, K) \in Int
  BY <1>1, <1>2, SumInt
<1> QED
  BY <1>4, <1>5, <1>6, <1>7

\* What an account has from some documents is what their lines on it come to.
LEMMA LinesMakeBalance ==
  ASSUME IInv, NEW T \in SUBSET Rows, NEW p \in Parties, NEW c \in Currencies,
         NEW K, K = {k \in Places : k[1] \in T /\ LineAt(k).party = p}
  PROVE  LinesTotal(K, c) = BalanceOf(T, p, c)
<1> DEFINE w == [id \in Rows |->
                   [i \in {1, 2, 3, 4} |-> AccountAmountAt(voucher[id].lines, i, p, c)]]
           f == [k \in K |-> IF LineAt(k).currency = c THEN LineAt(k).amount ELSE 0]
           g == [id \in T |-> AccountTotal(voucher[id].lines, p, c)]
<1>1. \A id \in Rows, i \in {1, 2, 3, 4} :
        /\ w[id][i] = AccountAmountAt(voucher[id].lines, i, p, c)
        /\ w[id][i] \in Int
  <2>1. \A id \in Rows, i \in {1, 2, 3, 4} : w[id][i] = AccountAmountAt(voucher[id].lines, i, p, c)
    OBVIOUS
  <2>2. ASSUME NEW id \in Rows, NEW i \in {1, 2, 3, 4}
        PROVE  AccountAmountAt(voucher[id].lines, i, p, c) \in Int
    <3>1. voucher[id].lines \in Seq(Line) /\ i \in Nat
      BY DEF IInv, TypeOK, Row
    <3> QED
      BY <3>1, NegatedAccountAmount
  <2> HIDE DEF w
  <2> QED
    BY <2>1, <2>2
<1>2. \A id \in T, i \in {1, 2, 3, 4} : <<id, i>> \notin K => w[id][i] = 0
  <2> SUFFICES ASSUME NEW id \in T, NEW i \in {1, 2, 3, 4}, <<id, i>> \notin K
               PROVE  w[id][i] = 0
    OBVIOUS
  <2>1. i \in DOMAIN voucher[id].lines => voucher[id].lines[i].party # p
    <3>1. i \in DOMAIN voucher[id].lines => <<id, i>> \in Places
      BY PlaceAt
    <3> QED
      BY <3>1 DEF LineAt
  <2> HIDE DEF w
  <2> QED
    BY <1>1, <2>1 DEF AccountAmountAt
<1>3. \A k \in K : f[k] = w[k[1]][k[2]]
  <2> SUFFICES ASSUME NEW k \in K PROVE f[k] = w[k[1]][k[2]]
    OBVIOUS
  <2>1. /\ k[1] \in Rows /\ k[2] \in {1, 2, 3, 4} /\ k[2] \in DOMAIN voucher[k[1]].lines
        /\ LineAt(k) = voucher[k[1]].lines[k[2]] /\ LineAt(k).party = p
    BY PlaceAt
  <2>2. w[k[1]][k[2]] = AccountAmountAt(voucher[k[1]].lines, k[2], p, c)
    BY <1>1, <2>1
  <2> HIDE DEF w
  <2> QED
    BY <2>1, <2>2 DEF AccountAmountAt, AmountAt
<1>4. \A id \in T : g[id] = w[id][1] + w[id][2] + w[id][3] + w[id][4]
  <2> HIDE DEF w
  <2> QED
    BY <1>1 DEF AccountTotal
<1>5. K \in SUBSET Places /\ \A k \in K : k[1] \in T
  OBVIOUS
<1>6. LinesTotal(K, c) = SumFunctionOnSet(f, K) /\ BalanceOf(T, p, c) = SumFunctionOnSet(g, T)
  BY Zenon DEF LinesTotal, BalanceOf
<1> HIDE DEF f, g, w
<1> QED
  BY <1>1, <1>2, <1>3, <1>4, <1>5, <1>6, LinesByDocument

LEMMA BalanceInt ==
  ASSUME IInv, NEW S \in SUBSET Rows, NEW p \in Parties, NEW c \in Currencies
  PROVE  BalanceOf(S, p, c) \in Int
<1> DEFINE f == [id \in S |-> AccountTotal(voucher[id].lines, p, c)]
<1>1. IsFiniteSet(S)
  BY PlacesFinite, FS_Subset
<1>2. \A id \in S : f[id] \in Int
  BY AccountTotalType DEF IInv, TypeOK, Row
<1>3. BalanceOf(S, p, c) = SumFunctionOnSet(f, S)
  BY Zenon DEF BalanceOf
<1> HIDE DEF f
<1> QED
  BY <1>1, <1>2, <1>3, SumInt

LEMMA BalanceJoins ==
  ASSUME IInv, NEW S \in SUBSET Rows, NEW T \in SUBSET Rows, S \cap T = {},
         NEW p \in Parties, NEW c \in Currencies
  PROVE  /\ BalanceOf(S, p, c) \in Int /\ BalanceOf(T, p, c) \in Int
         /\ BalanceOf(S \cup T, p, c) = BalanceOf(S, p, c) + BalanceOf(T, p, c)
<1> DEFINE total(U) == [id \in U |-> AccountTotal(voucher[id].lines, p, c)]
           f == total(S \cup T)
<1>1. IsFiniteSet(S) /\ IsFiniteSet(T)
  BY PlacesFinite, FS_Subset
<1>2. \A id \in Rows : AccountTotal(voucher[id].lines, p, c) \in Int
  BY AccountTotalType DEF IInv, TypeOK, Row
<1>3. \A id \in S \cup T : f[id] \in Int
  BY <1>2
<1>4. \A U : BalanceOf(U, p, c) = SumFunctionOnSet(total(U), U)
  BY Zenon DEF BalanceOf
<1>5. SumFunctionOnSet(total(S), S) = SumFunctionOnSet(f, S)
  <2> DEFINE g == total(S)
  <2>1. \A id \in S : g[id] = f[id]
    OBVIOUS
  <2> HIDE DEF f, g
  <2>2. SumFunctionOnSet(g, S) = SumFunctionOnSet(f, S)
    BY <1>1, <2>1, SumEqual
  <2> QED
    BY <2>2 DEF g
<1>6. SumFunctionOnSet(total(T), T) = SumFunctionOnSet(f, T)
  <2> DEFINE g == total(T)
  <2>1. \A id \in T : g[id] = f[id]
    OBVIOUS
  <2> HIDE DEF f, g
  <2>2. SumFunctionOnSet(g, T) = SumFunctionOnSet(f, T)
    BY <1>1, <2>1, SumEqual
  <2> QED
    BY <2>2 DEF g
<1>7. BalanceOf(S \cup T, p, c) = SumFunctionOnSet(f, S \cup T)
  BY <1>4, Zenon
<1> HIDE DEF f, total
<1>8. SumFunctionOnSet(f, S \cup T) = SumFunctionOnSet(f, S) + SumFunctionOnSet(f, T)
  BY <1>1, <1>3, SumUnion
<1>9. SumFunctionOnSet(f, S) \in Int /\ SumFunctionOnSet(f, T) \in Int
  BY <1>1, <1>3, SumInt
<1> QED
  BY <1>4, <1>5, <1>6, <1>7, <1>8, <1>9

-----------------------------------------------------------------------------
(* Statements *)

\* The documents dated so that a reversal is where its original is, in a set that
\* only the dates decide.
LEMMA DatesKeepPairs ==
  ASSUME IInv, NEW date \in Datings
  PROVE  /\ date \in [Rows -> Days]
         /\ \A id \in Rows : date[id] \in Nat
         /\ \A first : KeepsPairs({id \in Rows : date[id] < first})
         /\ \A last : KeepsPairs({id \in Rows : date[id] <= last})
         /\ \A from, to : KeepsPairs({id \in Rows : Within(date[id], from, to)})
<1>1. date \in [Rows -> Days] /\ \A r \in Rows \ Entered : date[r] = date[voucher[r].reverses]
  BY DEF Datings
<1>2. \A r \in Rows \ Entered : voucher[r].reverses \in Rows
  BY DEF IInv, VoidIffReversed, Cancels, Entered
<1>3. \A first : KeepsPairs({id \in Rows : date[id] < first})
  BY <1>1, <1>2 DEF KeepsPairs
<1>4. \A last : KeepsPairs({id \in Rows : date[id] <= last})
  BY <1>1, <1>2 DEF KeepsPairs
<1>5. \A from, to : KeepsPairs({id \in Rows : Within(date[id], from, to)})
  BY <1>1, <1>2 DEF KeepsPairs
<1>6. \A id \in Rows : date[id] \in Nat
  BY <1>1, StatementsAssumption
<1> QED
  BY <1>1, <1>3, <1>4, <1>5, <1>6

\* The order of the lines is a strict total order: numbers are unique.
LEMMA LinesAreOrdered ==
  ASSUME IInv, NEW date \in Datings
  PROVE  /\ \A j, k \in Places : j = k \/ Precedes(date, j, k) \/ Precedes(date, k, j)
         /\ \A i, j, k \in Places :
              Precedes(date, i, j) /\ Precedes(date, j, k) => Precedes(date, i, k)
         /\ \A j, k \in Places : Precedes(date, j, k) => date[j[1]] <= date[k[1]]
<1>1. \A k \in Places : /\ k = <<k[1], k[2]>> /\ k[1] \in Rows /\ k[2] \in Int
                        /\ date[k[1]] \in Int /\ voucher[k[1]].number \in Int
  <2>1. \A id \in Rows : date[id] \in Int /\ voucher[id].number \in Int
    BY DatesKeepPairs DEF IInv, TypeOK, Row
  <2>2. \A k \in Places : k = <<k[1], k[2]>> /\ k[1] \in Rows /\ k[2] \in Int
    BY PlaceAt
  <2> QED
    BY <2>1, <2>2
<1>2. \A j, k \in Places : voucher[j[1]].number = voucher[k[1]].number => j[1] = k[1]
  BY <1>1 DEF IInv, NumbersUnique
<1>3. ASSUME NEW j \in Places, NEW k \in Places
      PROVE  j = k \/ Precedes(date, j, k) \/ Precedes(date, k, j)
  <2>1. j[1] = k[1] /\ j[2] = k[2] => j = k
    BY <1>1
  <2>2. /\ date[j[1]] \in Int /\ date[k[1]] \in Int /\ j[2] \in Int /\ k[2] \in Int
        /\ voucher[j[1]].number \in Int /\ voucher[k[1]].number \in Int
    BY <1>1
  <2> QED
    BY <1>2, <2>1, <2>2 DEF Precedes
<1>4. ASSUME NEW i \in Places, NEW j \in Places, NEW k \in Places,
             Precedes(date, i, j), Precedes(date, j, k)
      PROVE  Precedes(date, i, k)
  <2>1. /\ date[i[1]] \in Int /\ date[j[1]] \in Int /\ date[k[1]] \in Int
        /\ i[2] \in Int /\ j[2] \in Int /\ k[2] \in Int
        /\ voucher[i[1]].number \in Int /\ voucher[j[1]].number \in Int
        /\ voucher[k[1]].number \in Int
    BY <1>1
  <2> QED
    BY <1>4, <2>1 DEF Precedes
<1>5. ASSUME NEW j \in Places, NEW k \in Places, Precedes(date, j, k)
      PROVE  date[j[1]] <= date[k[1]]
  <2>1. date[j[1]] \in Int /\ date[k[1]] \in Int
    BY <1>1
  <2> QED
    BY <1>5, <2>1 DEF Precedes
<1> QED
  BY <1>3, <1>4, <1>5

\* What a statement says, with its LETs opened.
LEMMA StatementSays ==
  ASSUME NEW p, NEW date, NEW from, NEW to, NEW c \in Currencies,
         NEW s, s = Statement(p, Currencies, date, from, to),
         NEW lines, lines = LinesOf(p, Currencies, date, from, to),
         NEW open, open = Opening(p, c, date, from)
  PROVE  /\ s.opening[c] = open
         /\ s.closing[c] = open + LinesTotal(lines, c)
         /\ DOMAIN s.rows = lines
         /\ \A k \in lines : LineAt(k).currency = c =>
              s.rows[k].running
                = open + LinesTotal({j \in lines : j = k \/ Precedes(date, j, k)}, c)
BY DEF Statement

\* The documents before a period and those in it.
Before(date, from) == {id \in Rows : from # None /\ date[id] < from}

During(date, from, to) == {id \in Rows : Within(date[id], from, to)}

LEMMA PeriodsKeepPairs ==
  ASSUME IInv, NEW date \in Datings, NEW from, NEW to
  PROVE  KeepsPairs(Before(date, from)) /\ KeepsPairs(During(date, from, to))
<1>1. KeepsPairs(During(date, from, to))
  BY DatesKeepPairs DEF During
<1>2. CASE from = None
  BY <1>1, <1>2 DEF KeepsPairs, Before, IInv, VoidIffReversed, Cancels, Entered
<1>3. CASE from # None
  <2>1. Before(date, from) = {id \in Rows : date[id] < from}
    BY <1>3 DEF Before
  <2> QED
    BY <1>1, <2>1, DatesKeepPairs
<1> QED
  BY <1>2, <1>3

LEMMA OpensWithBalance ==
  ASSUME IInv, NEW date \in Datings, NEW p \in Parties, NEW c \in Currencies,
         NEW from \in Days \cup {None}
  PROVE  Opening(p, c, date, from) = BalanceOf(Before(date, from), p, c)
<1>1. CASE from = None
  <2>1. Before(date, from) = {}
    BY <1>1 DEF Before
  <2>2. BalanceOf({}, p, c) = 0
    BY SumEmpty DEF BalanceOf
  <2> QED
    BY <1>1, <2>1, <2>2 DEF Opening
<1>2. CASE from # None
  <2>1. Before(date, from) = {id \in Rows : date[id] < from}
    BY <1>2 DEF Before
  <2> QED
    BY <1>2, <2>1 DEF Opening
<1> QED
  BY <1>1, <1>2

LEMMA PeriodLines ==
  ASSUME IInv, NEW date \in Datings, NEW p \in Parties, NEW c \in Currencies, NEW from, NEW to
  PROVE  /\ LinesOf(p, Currencies, date, from, to)
              = {k \in Places : k[1] \in During(date, from, to) /\ LineAt(k).party = p}
         /\ LinesTotal(LinesOf(p, Currencies, date, from, to), c)
              = BalanceOf(During(date, from, to), p, c)
<1>1. LinesOf(p, Currencies, date, from, to)
        = {k \in Places : k[1] \in During(date, from, to) /\ LineAt(k).party = p}
  <2>1. \A k \in Places : LineAt(k).currency \in Currencies /\ k[1] \in Rows
    BY PlaceAt
  <2> QED
    BY <2>1 DEF LinesOf, During
<1>2. During(date, from, to) \in SUBSET Rows
  BY DEF During
<1> QED
  BY <1>1, <1>2, LinesMakeBalance

\* With the last line of a day the running balance has come to the balance of that day.
LEMMA RunsToBalance ==
  ASSUME IInv, NEW date \in Datings, NEW p \in Parties, NEW c \in Currencies,
         NEW from \in Days \cup {None}, NEW to \in Days \cup {None},
         NEW lines, lines = LinesOf(p, Currencies, date, from, to),
         NEW k \in lines, LineAt(k).currency = c,
         \A j \in lines : LineAt(j).currency = c /\ date[j[1]] = date[k[1]] =>
                            j = k \/ Precedes(date, j, k)
  PROVE  Opening(p, c, date, from)
           + LinesTotal({j \in lines : j = k \/ Precedes(date, j, k)}, c)
           = BalanceOf({id \in Rows : date[id] <= date[k[1]]}, p, c)
<1> DEFINE day == date[k[1]]
           B == {j \in lines : j = k \/ Precedes(date, j, k)}
           T == {j \in lines : LineAt(j).currency = c /\ date[j[1]] <= day}
           within == {id \in During(date, from, to) : date[id] <= day}
           K == {j \in Places : j[1] \in within /\ LineAt(j).party = p}
<1>1. lines = {j \in Places : j[1] \in During(date, from, to) /\ LineAt(j).party = p}
  BY PeriodLines
<1>2. /\ k \in Places /\ k[1] \in Rows /\ Within(day, from, to)
      /\ \A id \in Rows : date[id] \in Int
      /\ \A j \in Places : j[1] \in Rows
  BY <1>1, PlaceAt, DatesKeepPairs DEF During
<1>3. /\ B \in SUBSET Places /\ K \in SUBSET Places
      /\ T \in SUBSET B /\ \A j \in B \ T : LineAt(j).currency # c
  <2>1. B \in SUBSET Places /\ K \in SUBSET Places
    BY <1>1
  <2>2. \A j \in B : date[j[1]] <= day
    BY <1>1, <1>2, LinesAreOrdered
  <2>3. \A j \in B \ T : LineAt(j).currency # c
    BY <2>2
  <2>4. ASSUME NEW j \in T PROVE j = k \/ Precedes(date, j, k)
    <3>1. j[1] \in Rows
      BY <1>1, <1>2
    <3>2. CASE date[j[1]] = day
      BY <3>2
    <3>3. CASE date[j[1]] # day
      <4>1. date[j[1]] < day
        BY <1>2, <3>1, <3>3
      <4> QED
        BY <4>1 DEF Precedes
    <3> QED
      BY <3>2, <3>3
  <2> QED
    BY <2>1, <2>3, <2>4
<1>4. T \in SUBSET K /\ \A j \in K \ T : LineAt(j).currency # c
  BY <1>1
<1>5. LinesTotal(B, c) = LinesTotal(T, c) /\ LinesTotal(K, c) = LinesTotal(T, c)
  <2> HIDE DEF B, T, K
  <2> QED
    BY <1>3, <1>4, OthersCountNothing
<1>6. within \in SUBSET Rows
  BY DEF During
<1>7. LinesTotal(K, c) = BalanceOf(within, p, c)
  <2> HIDE DEF within
  <2> QED
    BY <1>6, LinesMakeBalance
<1>8. /\ Before(date, from) \in SUBSET Rows /\ Before(date, from) \cap within = {}
      /\ Before(date, from) \cup within = {id \in Rows : date[id] <= day}
  <2>1. from # None => from \in Int
    BY StatementsAssumption
  <2>2. to # None => to \in Int
    BY StatementsAssumption
  <2>3. \A id \in Rows : date[id] \in Int /\ day \in Int
    BY <1>2
  <2>4. ASSUME NEW id \in Rows
        PROVE  /\ ~(id \in Before(date, from) /\ id \in within)
               /\ id \in Before(date, from) \/ id \in within <=> date[id] <= day
    <3> HIDE DEF day
    <3> QED
      BY <1>2, <2>1, <2>2, <2>3 DEF Before, During, Within
  <2>5. Before(date, from) \in SUBSET Rows
    BY DEF Before
  <2> HIDE DEF within, day
  <2> QED
    BY <1>6, <2>4, <2>5
<1>9. BalanceOf({id \in Rows : date[id] <= day}, p, c)
        = BalanceOf(Before(date, from), p, c) + BalanceOf(within, p, c)
  <2> HIDE DEF within, day
  <2>1. BalanceOf(Before(date, from) \cup within, p, c)
          = BalanceOf(Before(date, from), p, c) + BalanceOf(within, p, c)
    BY <1>6, <1>8, BalanceJoins
  <2> QED
    BY <1>8, <2>1
<1>10. Opening(p, c, date, from) + LinesTotal(B, c)
         = BalanceOf({id \in Rows : date[id] <= day}, p, c)
  <2> HIDE DEF within, day, B, K, T
  <2> QED
    BY <1>5, <1>7, <1>9, OpensWithBalance
<1> QED
  BY <1>10

LEMMA StatementsAreTrue ==
  ASSUME IInv
  PROVE  StatementsFollowEffect
<1> DEFINE standing == {id \in Entered : InEffect[id]}
<1> SUFFICES ASSUME NEW date \in Datings,
                    NEW from \in Days \cup {None}, NEW to \in Days \cup {None},
                    NEW p \in Parties, NEW c \in Currencies
             PROVE  LET before == {id \in standing : from # None /\ date[id] < from}
                        during == {id \in standing : Within(date[id], from, to)}
                        until(day) == {id \in standing : date[id] <= day}
                        lastOf(S, k) == \A j \in S : j = k \/ Precedes(date, j, k)
                        s == Statement(p, Currencies, date, from, to)
                        opening == s.opening[c]
                        closing == s.closing[c]
                        lines   == {k \in DOMAIN s.rows : LineAt(k).currency = c}
                    IN  /\ opening = BalanceOf(before, p, c)
                        /\ closing = opening + BalanceOf(during, p, c)
                        /\ \A k \in lines :
                             lastOf({j \in lines : date[j[1]] = date[k[1]]}, k) =>
                               s.rows[k].running = BalanceOf(until(date[k[1]]), p, c)
                        /\ IF lines = {} THEN closing = opening
                           ELSE \E k \in lines : lastOf(lines, k) /\ s.rows[k].running = closing
  BY Zenon DEF StatementsFollowEffect
<1> DEFINE s == Statement(p, Currencies, date, from, to)
           all == LinesOf(p, Currencies, date, from, to)
           lines == {k \in all : LineAt(k).currency = c}
           open == Opening(p, c, date, from)
           until(k) == {j \in all : j = k \/ Precedes(date, j, k)}
<1>1. /\ s.opening[c] = open
      /\ s.closing[c] = open + LinesTotal(all, c)
      /\ DOMAIN s.rows = all
      /\ \A k \in lines : s.rows[k].running = open + LinesTotal(until(k), c)
  <2>1. /\ s.opening[c] = open
        /\ s.closing[c] = open + LinesTotal(all, c)
        /\ DOMAIN s.rows = all
        /\ \A k \in all : LineAt(k).currency = c =>
             s.rows[k].running
               = open + LinesTotal({j \in all : j = k \/ Precedes(date, j, k)}, c)
    <3>1. /\ s = Statement(p, Currencies, date, from, to)
          /\ all = LinesOf(p, Currencies, date, from, to)
          /\ open = Opening(p, c, date, from)
      OBVIOUS
    <3> HIDE DEF s, all, open
    <3> QED
      BY <3>1, StatementSays
  <2> HIDE DEF s, all, open
  <2> QED
    BY <2>1, Zenon
<1>2. /\ all \in SUBSET Places /\ lines \in SUBSET all
      /\ \A k \in all \ lines : LineAt(k).currency # c
  BY DEF LinesOf
<1>3. s.opening[c] = BalanceOf({id \in standing : from # None /\ date[id] < from}, p, c)
  <2>1. BalanceOf(Before(date, from), p, c)
          = BalanceOf({id \in Before(date, from) \cap Entered : InEffect[id]}, p, c)
    BY PeriodsKeepPairs, EffectMakesBalance
  <2>2. {id \in Before(date, from) \cap Entered : InEffect[id]}
          = {id \in standing : from # None /\ date[id] < from}
    BY DEF Before, Entered
  <2> HIDE DEF s, open, standing
  <2> QED
    BY <1>1, <2>1, <2>2, OpensWithBalance DEF open
<1>4. s.closing[c] = s.opening[c] + BalanceOf({id \in standing : Within(date[id], from, to)}, p, c)
  <2>1. BalanceOf(During(date, from, to), p, c)
          = BalanceOf({id \in During(date, from, to) \cap Entered : InEffect[id]}, p, c)
    BY PeriodsKeepPairs, EffectMakesBalance
  <2>2. {id \in During(date, from, to) \cap Entered : InEffect[id]}
          = {id \in standing : Within(date[id], from, to)}
    BY DEF During, Entered
  <2>3. LinesTotal(all, c) = BalanceOf(During(date, from, to), p, c)
    BY PeriodLines
  <2> HIDE DEF s, open, standing, all
  <2> QED
    BY <1>1, <2>1, <2>2, <2>3
<1>5. ASSUME NEW k \in lines,
             \A j \in lines : date[j[1]] = date[k[1]] => j = k \/ Precedes(date, j, k)
      PROVE  s.rows[k].running = BalanceOf({id \in standing : date[id] <= date[k[1]]}, p, c)
  <2> DEFINE day == date[k[1]]
  <2>1. open + LinesTotal(until(k), c) = BalanceOf({id \in Rows : date[id] <= date[k[1]]}, p, c)
    <3>1. \A j \in all : LineAt(j).currency = c /\ date[j[1]] = date[k[1]] =>
                           j = k \/ Precedes(date, j, k)
      BY <1>5
    <3>2. k \in all /\ LineAt(k).currency = c
      OBVIOUS
    <3> HIDE DEF all
    <3> QED
      BY <3>1, <3>2, RunsToBalance DEF all
  <2>2. BalanceOf({id \in Rows : date[id] <= day}, p, c)
          = BalanceOf({id \in {x \in Rows : date[x] <= day} \cap Entered : InEffect[id]}, p, c)
    <3> HIDE DEF day
    <3>1. KeepsPairs({id \in Rows : date[id] <= day})
      BY DatesKeepPairs
    <3> QED
      BY <3>1, EffectMakesBalance
  <2>3. {id \in {x \in Rows : date[x] <= day} \cap Entered : InEffect[id]}
          = {id \in standing : date[id] <= day}
    BY DEF Entered
  <2>4. s.rows[k].running = open + LinesTotal(until(k), c)
    BY <1>1
  <2> HIDE DEF s, open, standing, all, until, lines
  <2> QED
    BY <2>1, <2>2, <2>3, <2>4
<1>6. ASSUME lines = {}
      PROVE  s.closing[c] = s.opening[c]
  <2>1. LinesTotal(all, c) = LinesTotal({}, c)
    <3> HIDE DEF all
    <3> QED
      BY <1>2, <1>6, OthersCountNothing
  <2>2. LinesTotal({}, c) = 0
    BY SumEmpty DEF LinesTotal
  <2>3. open \in Int
    <3>1. Before(date, from) \in SUBSET Rows
      BY DEF Before
    <3> QED
      BY <3>1, OpensWithBalance, BalanceInt
  <2>4. s.closing[c] = s.opening[c]
    <3> HIDE DEF s, open, all
    <3> QED
      BY <1>1, <2>1, <2>2, <2>3
  <2> QED
    BY <2>4
<1>7. ASSUME lines # {}
      PROVE  \E k \in lines : /\ \A j \in lines : j = k \/ Precedes(date, j, k)
                              /\ s.rows[k].running = s.closing[c]
  <2> DEFINE R == {x \in lines \X lines : Precedes(date, x[1], x[2])}
  <2>1. IsFiniteSet(lines) /\ \A k \in lines : k \in Places
    BY <1>2, PlacesFinite, FS_Subset
  <2>2. \A x, y \in lines : <<x, y>> \in R <=> Precedes(date, x, y)
    OBVIOUS
  <2> HIDE DEF R, lines
  <2>3. \A x, y \in lines : x = y \/ <<x, y>> \in R \/ <<y, x>> \in R
    BY <2>1, <2>2, LinesAreOrdered
  <2>4. \A x, y, z \in lines : <<x, y>> \in R /\ <<y, z>> \in R => <<x, z>> \in R
    BY <2>1, <2>2, LinesAreOrdered
  <2>5. PICK k \in lines : \A j \in lines : j = k \/ <<j, k>> \in R
    BY <1>7, <2>1, <2>3, <2>4, LastExists
  <2>6. \A j \in lines : j = k \/ Precedes(date, j, k)
    BY <2>2, <2>5
  <2>7. LinesTotal(until(k), c) = LinesTotal(all, c)
    <3>1. lines \in SUBSET until(k) /\ until(k) \in SUBSET all
      BY <1>2, <2>6
    <3>2. \A j \in until(k) \ lines : LineAt(j).currency # c
      BY <1>2, <3>1
    <3> HIDE DEF until, all
    <3>3. until(k) \in SUBSET Places /\ lines \in SUBSET all
      BY <1>2, <3>1
    <3> QED
      BY <1>2, <3>1, <3>2, <3>3, OthersCountNothing
  <2>8. s.rows[k].running = s.closing[c]
    <3> HIDE DEF s, open, until, all
    <3> QED
      BY <1>1, <2>5, <2>7
  <2> QED
    BY <2>6, <2>8
<1>8. lines = {k \in DOMAIN s.rows : LineAt(k).currency = c}
  BY <1>1
<1> HIDE DEF s, lines, standing, all, open
<1> QED
  BY <1>3, <1>4, <1>5, <1>6, <1>7, <1>8 DEF s

\* A statement of any period is made of the documents in effect (balances.py:132-175).
THEOREM StatementsFollow == Spec => []StatementsFollowEffect
BY Invariance, StatementsAreTrue, PTL

-----------------------------------------------------------------------------
(* What every document in the table looks like *)

IsCustomer(p) == p \in Parties /\ KindOf[p] = "customer"

IsHouse(p) == p \in Parties /\ KindOf[p] \in HouseKinds

\* The lines of a deal are on its customer, or where it was settled and delivered at
\* once on an account of the house; money comes in or goes out between a customer and
\* such an account.
Shaped(row) ==
  /\ row.deal # None => row.kind = "deal"
  /\ row.kind = "deal" =>
       /\ row.deal \in Deal /\ IsCustomer(row.deal.counterparty) /\ row.deal.currency \in Foreign
       /\ \E delivery, settle \in Parties :
            /\ delivery = row.deal.counterparty \/ IsHouse(delivery)
            /\ settle = row.deal.counterparty \/ IsHouse(settle)
            /\ row.lines = DealLines(row.deal.side, row.deal.currency, delivery, settle,
                                     row.deal.quantity, row.deal.quantity * row.deal.price)
  /\ row.kind \in {"receive", "pay"} =>
       \E account, party \in Parties, c \in Currencies, amount \in Nat \ {0} :
         /\ IsHouse(account) /\ IsCustomer(party)
         /\ row.lines = IF row.kind = "receive" THEN MoveLines(account, party, c, amount)
                        ELSE MoveLines(party, account, c, amount)

Formed(row) == Balanced(row.lines) /\ Shaped(row)

\* An invariant of its own: no operation looks at what the rows before it hold.
RowsFormed == \A id \in Rows : Formed(voucher[id])

\* After the step a row is as it was, but for its status, or well formed.
FormsRows ==
  \A id \in Rows' :
    \/ /\ id \in Rows
       /\ voucher'[id].kind = voucher[id].kind
       /\ voucher'[id].lines = voucher[id].lines
       /\ voucher'[id].deal = voucher[id].deal
    \/ Formed(voucher'[id])

LEMMA PostedRowFormed ==
  ASSUME TypeOK, NEW row, PostVoucher(row), Shaped(row)
  PROVE  FormsRows
<1>1. voucher' = Stored(voucher, nextId, row) /\ Balanced(row.lines)
  BY DEF PostVoucher, Postable
<1>2. /\ Rows' = Rows \cup {nextId} /\ voucher'[nextId] = row
      /\ \A id \in Rows : id # nextId => voucher'[id] = voucher[id]
  BY <1>1 DEF Stored, Rows
<1> QED
  BY <1>1, <1>2 DEF FormsRows, Formed

LEMMA DealForms ==
  ASSUME IInv, NEW side \in Sides, NEW counterparty \in Parties, NEW c \in Foreign,
         NEW quantity \in Quantities, NEW price \in Prices,
         NEW settle \in Parties \cup {None}, NEW delivery \in Parties \cup {None},
         PostDeal(side, counterparty, c, quantity, price, settle, delivery)
  PROVE  FormsRows
<1> DEFINE applied == ApplyInventory(side, position[c], quantity, price)
           lines == DealLines(side, c, Leg(delivery, counterparty),
                              Leg(settle, counterparty), quantity, quantity * price)
           deal == [side |-> side, counterparty |-> counterparty, currency |-> c,
                    quantity |-> quantity, price |-> price, cost |-> applied.cost,
                    realized |-> applied.realized]
           row == NewRow("deal", None, lines, deal, 0)
<1>1. /\ PostVoucher(row)
      /\ IsCustomer(counterparty)
      /\ settle # None => IsHouse(settle)
      /\ delivery # None => IsHouse(delivery)
  BY DEF PostDeal, IsCustomer, IsHouse, IsActive, IsHouseAccount
<1>2. /\ Leg(delivery, counterparty) \in Parties /\ Leg(settle, counterparty) \in Parties
      /\ Leg(delivery, counterparty) = counterparty \/ IsHouse(Leg(delivery, counterparty))
      /\ Leg(settle, counterparty) = counterparty \/ IsHouse(Leg(settle, counterparty))
  BY <1>1 DEF Leg
<1>3. deal \in Deal
  <2>1. quantity \in Positive /\ price \in Positive /\ c \in Currencies /\ position[c] \in Position
    BY NumbersAssumption DEF IInv, TypeOK, Foreign, Positive
  <2>2. applied.cost \in Int /\ applied.realized \in Int
    BY <2>1, ApplyInventoryType
  <2> HIDE DEF applied
  <2> QED
    BY <2>1, <2>2 DEF Deal, Positive
<1>4. /\ deal.side = side /\ deal.counterparty = counterparty /\ deal.currency = c
      /\ deal.quantity = quantity /\ deal.price = price
  OBVIOUS
<1>5. row.kind = "deal" /\ row.lines = lines /\ row.deal = deal
  BY DEF NewRow
<1> HIDE DEF row, deal
<1>6. Shaped(row)
  BY <1>1, <1>2, <1>3, <1>4, <1>5 DEF Shaped
<1> QED
  BY <1>1, <1>6, PostedRowFormed DEF IInv

LEMMA MoveForms ==
  ASSUME IInv, NEW kind, NEW key, NEW to, NEW from, NEW c, NEW amount,
         PostMove(kind, key, to, from, c, amount), kind # "deal",
         kind \in {"receive", "pay"} =>
           /\ c \in Currencies /\ amount \in Nat \ {0}
           /\ kind = "receive" => IsHouse(to) /\ IsCustomer(from)
           /\ kind = "pay" => IsHouse(from) /\ IsCustomer(to)
  PROVE  FormsRows
<1> DEFINE lines == MoveLines(to, from, c, amount)
           row == NewRow(kind, key, lines, None, 0)
<1>1. PostVoucher(row)
  BY DEF PostMove
<1>2. row.kind = kind /\ row.lines = lines /\ row.deal = None
  BY DEF NewRow
<1> HIDE DEF row
<1>3. Shaped(row)
  <2>1. CASE kind = "receive"
    BY <1>2, <2>1 DEF Shaped, IsHouse, IsCustomer
  <2>2. CASE kind = "pay"
    BY <1>2, <2>2 DEF Shaped, IsHouse, IsCustomer
  <2>3. CASE kind \notin {"receive", "pay"}
    BY <1>2, <2>3 DEF Shaped
  <2> QED
    BY <2>1, <2>2, <2>3
<1> QED
  BY <1>1, <1>3, PostedRowFormed DEF IInv

LEMMA NextForms ==
  ASSUME IInv, Next
  PROVE  FormsRows
<1>1. CASE PostSomeDeal
  BY <1>1, DealForms DEF PostSomeDeal, Customers, HouseAccounts
<1>2. CASE \E p, q \in Parties, c \in Currencies, a \in Amounts : PostBetween(p, q, c, a)
  <2>1. PICK p \in Parties, q \in Parties, c \in Currencies, a \in Amounts :
          PostBetween(p, q, c, a)
    BY <1>2
  <2>2. a \in Nat \ {0}
    BY NumbersAssumption
  <2>3. CASE PostCashMovement("receive", p, q, c, a)
    <3>1. PostMove("receive", None, q, p, c, a) /\ IsHouse(q) /\ IsCustomer(p)
      BY <2>3 DEF PostCashMovement, IsActive, IsHouse, IsCustomer
    <3> QED
      BY <2>2, <3>1, MoveForms
  <2>4. CASE PostCashMovement("pay", p, q, c, a)
    <3>1. PostMove("pay", None, p, q, c, a) /\ IsHouse(q) /\ IsCustomer(p)
      BY <2>4 DEF PostCashMovement, IsActive, IsHouse, IsCustomer
    <3> QED
      BY <2>2, <3>1, MoveForms
  <2>5. CASE \/ PostTransfer(p, q, c, a)
             \/ PostPartyTransfer(p, q, c, a)
             \/ PostExpense(p, q, c, a)
             \/ PostIncome(p, q, c, a)
    <3>1. \E kind \in {"transfer", "expense", "income"}, to, from \in Parties :
            PostMove(kind, None, to, from, c, a)
      BY <2>5 DEF PostTransfer, PostPartyTransfer, PostExpense, PostIncome
    <3> QED
      BY <3>1, MoveForms
  <2> QED
    BY <2>1, <2>3, <2>4, <2>5 DEF PostBetween
<1>3. CASE \E p \in Parties, c \in Currencies, a \in OpeningAmounts : PostOpening(p, c, a)
  <2>1. \E key, p, c, a : PostMove("opening", key, p, Equity, c, a)
    BY <1>3 DEF PostOpening, EnterOpeningBalance, ImportOpeningBalance, PostOpeningBalance
  <2> QED
    BY <2>1, MoveForms
<1>4. CASE \E id \in Rows : VoidVoucher(id)
  <2>1. PICK id \in Rows : VoidVoucher(id)
    BY <1>4
  <2>2. /\ Rows' = Rows \cup {nextId}
        /\ \A i \in Rows : /\ voucher'[i].kind = voucher[i].kind
                           /\ voucher'[i].lines = voucher[i].lines
                           /\ voucher'[i].deal = voucher[i].deal
        /\ voucher'[nextId].kind = "adjust" /\ voucher'[nextId].deal = None
        /\ voucher'[nextId].lines = Negated(voucher[id].lines)
    BY <2>1, VoidVoucherEffect
  <2>3. Balanced(Negated(voucher[id].lines))
    BY <2>1 DEF VoidVoucher, Postable, NewRow
  <2>4. Formed(voucher'[nextId])
    BY <2>2, <2>3 DEF Formed, Shaped
  <2> QED
    BY <2>2, <2>4 DEF FormsRows
<1>5. CASE \E id \in Rows : DeleteVoucher(id)
  BY <1>5 DEF DeleteVoucher, FormsRows, Rows
<1>6. CASE DataReset
  BY <1>6 DEF DataReset, FormsRows, Rows
<1>7. CASE \E p \in Parties : ToggleActive(p)
  BY <1>7 DEF ToggleActive, FormsRows, Rows
<1> QED
  BY <1>1, <1>2, <1>3, <1>4, <1>5, <1>6, <1>7 DEF Next

LEMMA RowsStayFormed == IInv /\ RowsFormed /\ [Next]_vars => RowsFormed'
<1> SUFFICES ASSUME IInv, RowsFormed, [Next]_vars PROVE RowsFormed'
  OBVIOUS
<1>1. CASE Next
  <2>1. FormsRows
    BY <1>1, NextForms
  <2>2. \A id \in Rows : Formed(voucher[id])
    BY DEF RowsFormed
  <2> QED
    BY <2>1, <2>2 DEF FormsRows, RowsFormed, Formed, Shaped
<1>2. CASE UNCHANGED vars
  BY <1>2 DEF vars, RowsFormed, Rows
<1> QED
  BY <1>1, <1>2

\* Every document in the table balances and has the lines of its kind.
THEOREM RowsAreFormed == Spec => []RowsFormed
<1>1. Init => RowsFormed
  BY DEF Init, RowsFormed, Rows
<1> QED
  BY <1>1, RowsStayFormed, Invariance, PTL DEF Spec

-----------------------------------------------------------------------------
(* The edit page *)

LEMMA FirstOfOne ==
  ASSUME NEW lines, NEW kinds, NEW n \in Nat,
         \A i \in DOMAIN lines : KindOf[lines[i].party] \in kinds <=> i = n,
         n \in DOMAIN lines
  PROVE  FirstOf(lines, kinds) = lines[n].party
<1>1. {i \in DOMAIN lines : KindOf[lines[i].party] \in kinds} = {n}
  OBVIOUS
<1>2. Min({n}) = n
  BY DEF Min
<1> QED
  BY <1>1, <1>2 DEF FirstOf

LEMMA FirstOfNone ==
  ASSUME NEW lines \in Seq(Line), NEW kinds
  PROVE  FirstOf(lines, kinds) = None
           <=> \A i \in DOMAIN lines : KindOf[lines[i].party] \notin kinds
<1> DEFINE at == {i \in DOMAIN lines : KindOf[lines[i].party] \in kinds}
<1>1. CASE at = {}
  BY <1>1 DEF FirstOf
<1>2. CASE at # {}
  <2>1. at \subseteq Nat
    OBVIOUS
  <2>2. PICK n \in at : \A m \in at : n <= m
    <3> DEFINE own == [i \in at |-> i]
    <3>1. Len(lines) \in Int /\ DOMAIN lines = 1..Len(lines)
      OBVIOUS
    <3>2. IsFiniteSet(1..Len(lines))
      BY <3>1, FS_Interval
    <3>3. IsFiniteSet(at)
      BY <3>1, <3>2, FS_Subset
    <3>4. \A i \in at : own[i] = i /\ own[i] \in Int
      BY <2>1
    <3> HIDE DEF at, own
    <3>5. \E least \in at : \A i \in at : own[least] <= own[i]
      BY <1>2, <3>3, <3>4, LeastExists
    <3> QED
      BY <3>4, <3>5
  <2>3. Min(at) \in at
    <3> HIDE DEF at
    <3> QED
      BY <2>2 DEF Min
  <2>4. lines[Min(at)].party \in Parties
    <3>1. Min(at) \in DOMAIN lines
      BY <2>3
    <3>2. \A i \in DOMAIN lines : lines[i] \in Line
      OBVIOUS
    <3> QED
      BY <3>1, <3>2 DEF Line
  <2> QED
    BY <1>2, <2>4, TablesAssumption DEF FirstOf
<1> QED
  BY <1>1, <1>2

LEMMA MoveFormAmount ==
  ASSUME NEW to \in Parties, NEW from \in Parties, NEW c \in Currencies,
         NEW amount \in Nat \ {0}
  PROVE  FormAmount(MoveLines(to, from, c, amount)) = amount
<1> DEFINE lines == MoveLines(to, from, c, amount)
<1>1. /\ DOMAIN lines = {1, 2}
      /\ lines[1].amount = amount /\ lines[2].amount = -amount
  BY DEF MoveLines, Entry
<1>2. Max({amount, -amount}) = amount
  BY DEF Max
<1>3. Max({-amount, -(-amount)}) = amount
  BY DEF Max
<1>4. Max({amount}) = amount
  BY DEF Max
<1> HIDE DEF lines
<1>5. {Max({lines[i].amount, -lines[i].amount}) : i \in DOMAIN lines} = {amount}
  BY <1>1, <1>2, <1>3
<1> QED
  BY <1>4, <1>5 DEF FormAmount, lines

LEMMA MoveRestored ==
  ASSUME NEW row, Shaped(row), row.kind \in {"receive", "pay"}
  PROVE  Resubmitted(row.kind, EditForm(row)) = row.lines
<1>1. PICK account \in Parties, party \in Parties, c \in Currencies, amount \in Nat \ {0} :
        /\ IsHouse(account) /\ IsCustomer(party)
        /\ row.lines = IF row.kind = "receive" THEN MoveLines(account, party, c, amount)
                       ELSE MoveLines(party, account, c, amount)
  BY DEF Shaped
<1>2. EditForm(row) = [party |-> FirstOf(row.lines, {"customer"}),
                       account |-> FirstOf(row.lines, HouseKinds),
                       currency |-> Head(row.lines).currency,
                       amount |-> FormAmount(row.lines)]
  BY DEF EditForm
<1>3. KindOf[account] \in HouseKinds /\ KindOf[party] = "customer" /\ "customer" \notin HouseKinds
  BY <1>1 DEF IsHouse, IsCustomer, HouseKinds
<1>4. KindOf[account] # "customer" /\ KindOf[party] \notin HouseKinds
  BY <1>3
<1>5. CASE row.kind = "receive"
  <2>1. row.lines = MoveLines(account, party, c, amount)
    BY <1>1, <1>5
  <2>2. /\ DOMAIN row.lines = {1, 2} /\ Head(row.lines).currency = c
        /\ row.lines[1].party = account /\ row.lines[2].party = party
    BY <2>1 DEF MoveLines, Entry
  <2>3. FirstOf(row.lines, {"customer"}) = party
    BY <1>3, <1>4, <2>2, FirstOfOne
  <2>4. FirstOf(row.lines, HouseKinds) = account
    BY <1>3, <1>4, <2>2, FirstOfOne
  <2>5. FormAmount(row.lines) = amount
    BY <2>1, MoveFormAmount
  <2> QED
    BY <1>2, <1>5, <2>1, <2>2, <2>3, <2>4, <2>5 DEF Resubmitted
<1>6. CASE row.kind = "pay"
  <2>1. row.lines = MoveLines(party, account, c, amount)
    BY <1>1, <1>6
  <2>2. /\ DOMAIN row.lines = {1, 2} /\ Head(row.lines).currency = c
        /\ row.lines[1].party = party /\ row.lines[2].party = account
    BY <2>1 DEF MoveLines, Entry
  <2>3. FirstOf(row.lines, {"customer"}) = party
    BY <1>3, <1>4, <2>2, FirstOfOne
  <2>4. FirstOf(row.lines, HouseKinds) = account
    BY <1>3, <1>4, <2>2, FirstOfOne
  <2>5. FormAmount(row.lines) = amount
    BY <2>1, MoveFormAmount
  <2> QED
    BY <1>2, <1>6, <2>1, <2>2, <2>3, <2>4, <2>5 DEF Resubmitted
<1> QED
  BY <1>5, <1>6

\* The four rows of a deal differ where their accounts do.
LEMMA DealLinesDiffer ==
  ASSUME NEW side \in Sides, NEW c, NEW p, NEW q, NEW x, NEW y, NEW a, NEW t
  PROVE  /\ DealLines(side, c, p, q, a, t) = DealLines(side, c, x, y, a, t)
              <=> p = x /\ q = y
         /\ DOMAIN DealLines(side, c, p, q, a, t) = {1, 2, 3, 4}
         /\ {DealLines(side, c, p, q, a, t)[i].party : i \in {1, 2, 3, 4}}
              = {PositionFor(c), PositionFor(Base), p, q}
<1>1. CASE side = SELL
  BY <1>1 DEF DealLines, Entry
<1>2. CASE side # SELL
  BY <1>2 DEF DealLines, Entry
<1> QED
  BY <1>1, <1>2

LEMMA DealRestored ==
  ASSUME NEW row, Shaped(row), row.kind = "deal"
  PROVE  (Resubmitted(row.kind, EditForm(row)) = row.lines)
           <=> FirstOf(row.lines, HouseKinds) = None
<1> DEFINE d == row.deal
           cp == row.deal.counterparty
<1>1. /\ d \in Deal /\ IsCustomer(cp) /\ d.currency \in Foreign
  BY DEF Shaped
<1>2. PICK delivery \in Parties, settle \in Parties :
        /\ delivery = cp \/ IsHouse(delivery)
        /\ settle = cp \/ IsHouse(settle)
        /\ row.lines = DealLines(d.side, d.currency, delivery, settle,
                                 d.quantity, d.quantity * d.price)
  BY DEF Shaped
<1>3. d.side \in Sides /\ d.quantity \in Int /\ d.quantity * d.price \in Int
  BY <1>1 DEF Deal
<1>4. Resubmitted(row.kind, EditForm(row))
        = DealLines(d.side, d.currency, cp, cp, d.quantity, d.quantity * d.price)
  BY DEF Resubmitted, EditForm, Leg
<1>5. Resubmitted(row.kind, EditForm(row)) = row.lines <=> delivery = cp /\ settle = cp
  BY <1>2, <1>3, <1>4, DealLinesDiffer
<1>6. /\ KindOf[PositionFor(d.currency)] = "position" /\ KindOf[PositionFor(Base)] = "position"
      /\ KindOf[cp] = "customer"
      /\ "position" \notin HouseKinds /\ "customer" \notin HouseKinds
  BY <1>1, PartiesAssumption DEF PositionFor, IsCustomer, HouseKinds, Foreign
<1>7. delivery = cp /\ settle = cp
        <=> KindOf[delivery] \notin HouseKinds /\ KindOf[settle] \notin HouseKinds
  BY <1>2, <1>6 DEF IsHouse
<1>8. row.lines \in Seq(Line)
  BY <1>1, <1>2, <1>3, DealLinesType DEF Foreign
<1>9. /\ DOMAIN row.lines = {1, 2, 3, 4}
      /\ {row.lines[i].party : i \in {1, 2, 3, 4}}
           = {PositionFor(d.currency), PositionFor(Base), delivery, settle}
  BY <1>2, <1>3, DealLinesDiffer
<1>10. (\A i \in DOMAIN row.lines : KindOf[row.lines[i].party] \notin HouseKinds)
         <=> \A p \in {row.lines[i].party : i \in {1, 2, 3, 4}} : KindOf[p] \notin HouseKinds
  BY <1>9
<1>11. FirstOf(row.lines, HouseKinds) = None
         <=> KindOf[delivery] \notin HouseKinds /\ KindOf[settle] \notin HouseKinds
  <2>1. (FirstOf(row.lines, HouseKinds) = None)
          <=> \A i \in DOMAIN row.lines : KindOf[row.lines[i].party] \notin HouseKinds
    BY <1>8, FirstOfNone
  <2> QED
    BY <1>6, <1>9, <1>10, <2>1
<1> QED
  BY <1>5, <1>7, <1>11

LEMMA FormsRestore == RowsFormed => EditRestores
<1> SUFFICES ASSUME RowsFormed, NEW id \in Rows, EditForm(voucher[id]) # None
             PROVE  (Resubmitted(voucher[id].kind, EditForm(voucher[id])) = voucher[id].lines)
                      <=> (voucher[id].kind = "deal" => FirstOf(voucher[id].lines, HouseKinds) = None)
  BY DEF EditRestores
<1>1. Shaped(voucher[id])
  BY DEF RowsFormed, Formed
<1>2. CASE voucher[id].kind = "deal"
  BY <1>1, <1>2, DealRestored
<1>3. CASE voucher[id].kind \in {"receive", "pay"}
  BY <1>1, <1>3, MoveRestored
<1>4. CASE voucher[id].kind \notin {"deal", "receive", "pay"}
  BY <1>4 DEF EditForm
<1> QED
  BY <1>2, <1>3, <1>4

\* In every reachable state the edit form of each document writes it again, unless it
\* is a deal that was settled or delivered at once.
THEOREM EditFormsRestore == Spec => []EditRestores
BY RowsAreFormed, FormsRestore, PTL

-----------------------------------------------------------------------------
(* Whose totals cancel *)

\* What row i of a document counts for the parties of S.
ShareAt(lines, i, c, S) ==
  IF i \in DOMAIN lines /\ lines[i].party \in S THEN AmountAt(lines, i, c) ELSE 0

LEMMA RowShares ==
  ASSUME NEW lines \in Seq(Line), NEW c \in Currencies, NEW i \in Nat, NEW S \in SUBSET Parties,
         NEW f, \A p \in S : f[p] = AccountAmountAt(lines, i, p, c)
  PROVE  /\ \A p \in S : f[p] \in Int
         /\ SumFunctionOnSet(f, S) = ShareAt(lines, i, c, S)
<1>1. (\A p \in S : f[p] \in Int) /\ IsFiniteSet(S)
  BY NegatedAccountAmount, TablesAssumption, FS_Subset
<1>2. CASE i \in DOMAIN lines /\ lines[i].party \in S
  <2> DEFINE x == lines[i].party
  <2>1. x \in S
    BY <1>2
  <2>2. f[x] = AmountAt(lines, i, c) /\ \A p \in S \ {x} : f[p] = 0
    BY <1>2, <2>1 DEF AccountAmountAt
  <2> HIDE DEF x
  <2>3. SumFunctionOnSet(f, S) = SumFunctionOnSet(f, {x})
    BY <1>1, <2>1, <2>2, SumIgnore
  <2>4. SumFunctionOnSet(f, {x}) = f[x]
    BY <1>1, <2>1, SumSingle
  <2> QED
    BY <1>1, <1>2, <2>2, <2>3, <2>4 DEF ShareAt
<1>3. CASE ~(i \in DOMAIN lines /\ lines[i].party \in S)
  <2>1. \A p \in S : f[p] = 0
    BY <1>3 DEF AccountAmountAt
  <2>2. SumFunctionOnSet(f, S) = 0
    BY <1>1, <2>1, SumZero
  <2> QED
    BY <1>1, <1>3, <2>2 DEF ShareAt
<1> QED
  BY <1>2, <1>3

\* The accounts of S share out what the lines of a document on them come to.
LEMMA AccountsShare ==
  ASSUME NEW lines \in Seq(Line), NEW c \in Currencies, NEW S \in SUBSET Parties,
         NEW f, \A p \in S : f[p] = AccountTotal(lines, p, c)
  PROVE  SumFunctionOnSet(f, S) = ShareAt(lines, 1, c, S) + ShareAt(lines, 2, c, S)
                                    + ShareAt(lines, 3, c, S) + ShareAt(lines, 4, c, S)
<1> DEFINE row(i) == [p \in S |-> AccountAmountAt(lines, i, p, c)]
           r1 == row(1)  r2 == row(2)  r3 == row(3)  r4 == row(4)
           r12 == [p \in S |-> r1[p] + r2[p]]
           r123 == [p \in S |-> r12[p] + r3[p]]
<1>1. /\ \A p \in S : r1[p] \in Int /\ r2[p] \in Int /\ r3[p] \in Int /\ r4[p] \in Int
      /\ SumFunctionOnSet(r1, S) = ShareAt(lines, 1, c, S)
      /\ SumFunctionOnSet(r2, S) = ShareAt(lines, 2, c, S)
      /\ SumFunctionOnSet(r3, S) = ShareAt(lines, 3, c, S)
      /\ SumFunctionOnSet(r4, S) = ShareAt(lines, 4, c, S)
  <2>1. ASSUME NEW i \in Nat, NEW r, r = row(i)
        PROVE  /\ \A p \in S : r[p] \in Int
               /\ SumFunctionOnSet(r, S) = ShareAt(lines, i, c, S)
    <3>1. \A p \in S : r[p] = AccountAmountAt(lines, i, p, c)
      BY <2>1
    <3> HIDE DEF row
    <3> QED
      BY <3>1, RowShares
  <2>2. r1 = row(1) /\ r2 = row(2) /\ r3 = row(3) /\ r4 = row(4)
    OBVIOUS
  <2> HIDE DEF row, r1, r2, r3, r4
  <2> QED
    BY <2>1, <2>2
<1>2. /\ \A p \in S : r12[p] = r1[p] + r2[p]
      /\ \A p \in S : r123[p] = r12[p] + r3[p]
  OBVIOUS
<1>3. \A p \in S : f[p] = r123[p] + r4[p]
  <2>1. \A p \in S : /\ r1[p] = AccountAmountAt(lines, 1, p, c)
                          /\ r2[p] = AccountAmountAt(lines, 2, p, c)
                          /\ r3[p] = AccountAmountAt(lines, 3, p, c)
                          /\ r4[p] = AccountAmountAt(lines, 4, p, c)
    OBVIOUS
  <2> HIDE DEF r1, r2, r3, r4, r12, r123
  <2> QED
    BY <1>2, <2>1 DEF AccountTotal
<1> HIDE DEF row, r1, r2, r3, r4, r12, r123
<1>4. IsFiniteSet(S)
  BY TablesAssumption, FS_Subset
<1>5. \A p \in S : r12[p] \in Int /\ r123[p] \in Int
  BY <1>1, <1>2
<1>6. SumFunctionOnSet(r12, S)
        = SumFunctionOnSet(r1, S) + SumFunctionOnSet(r2, S)
  BY <1>1, <1>2, <1>4, SumPlus
<1>7. SumFunctionOnSet(r123, S)
        = SumFunctionOnSet(r12, S) + SumFunctionOnSet(r3, S)
  BY <1>1, <1>2, <1>4, <1>5, SumPlus
<1>8. SumFunctionOnSet(f, S)
        = SumFunctionOnSet(r123, S) + SumFunctionOnSet(r4, S)
  BY <1>1, <1>3, <1>4, <1>5, SumPlus
<1> QED
  BY <1>1, <1>6, <1>7, <1>8

\* TotalOver in one currency.
LEMMA TotalIs ==
  ASSUME IInv, NEW S \in SUBSET Parties, NEW c \in Currencies,
         NEW f, \A p \in S : f[p] = Balance(p, c)
  PROVE  /\ IsFiniteSet(S)
         /\ \A p \in S : f[p] \in Int
         /\ SumFunctionOnSet(f, S) = TotalOver(S)[c]
         /\ TotalOver(S)[c] \in Int
<1> DEFINE g == [p \in S |-> Balance(p, c)]
<1>1. IsFiniteSet(S)
  BY TablesAssumption, FS_Subset
<1>2. \A p \in S : Balance(p, c) \in Int
  BY BalanceInt DEF Balance
<1>3. \A p \in S : g[p] = f[p]
  OBVIOUS
<1>4. TotalOver(S)[c] = SumFunctionOnSet(g, S)
  BY Zenon DEF TotalOver
<1> HIDE DEF g
<1>5. SumFunctionOnSet(g, S) = SumFunctionOnSet(f, S)
  BY <1>1, <1>3, SumEqual
<1>6. \A p \in S : f[p] \in Int
  BY <1>2
<1>7. SumFunctionOnSet(f, S) \in Int
  BY <1>1, <1>6, SumInt
<1> QED
  BY <1>1, <1>4, <1>5, <1>6, <1>7

LEMMA TotalsJoin ==
  ASSUME IInv, NEW S \in SUBSET Parties, NEW T \in SUBSET Parties, S \cap T = {},
         NEW c \in Currencies
  PROVE  /\ TotalOver(S)[c] \in Int /\ TotalOver(T)[c] \in Int
         /\ TotalOver(S \cup T)[c] = TotalOver(S)[c] + TotalOver(T)[c]
<1> DEFINE f == [p \in S \cup T |-> Balance(p, c)]
<1>1. \A p \in S \cup T : f[p] = Balance(p, c)
  OBVIOUS
<1> HIDE DEF f
<1>2. /\ IsFiniteSet(S) /\ SumFunctionOnSet(f, S) = TotalOver(S)[c] /\ TotalOver(S)[c] \in Int
  BY <1>1, TotalIs
<1>3. /\ IsFiniteSet(T) /\ SumFunctionOnSet(f, T) = TotalOver(T)[c] /\ TotalOver(T)[c] \in Int
  BY <1>1, TotalIs
<1>4. /\ \A p \in S \cup T : f[p] \in Int
      /\ SumFunctionOnSet(f, S \cup T) = TotalOver(S \cup T)[c]
  BY <1>1, TotalIs
<1>5. SumFunctionOnSet(f, S \cup T) = SumFunctionOnSet(f, S) + SumFunctionOnSet(f, T)
  BY <1>2, <1>3, <1>4, SumUnion
<1> QED
  BY <1>2, <1>3, <1>4, <1>5

\* All accounts together have nothing: every document balances.
LEMMA AllBalancesCancel ==
  ASSUME IInv, RowsFormed, NEW c \in Currencies
  PROVE  TotalOver(Parties)[c] = 0
<1> DEFINE v == [p \in Parties |-> [id \in Rows |-> AccountTotal(voucher[id].lines, p, c)]]
           byRow == [p \in Parties |-> Balance(p, c)]
           byColumn == [id \in Rows |-> SumFunctionOnSet([p \in Parties |-> v[p][id]], Parties)]
<1>1. IsFiniteSet(Parties) /\ IsFiniteSet(Rows)
  BY PlacesFinite, TablesAssumption
<1>2. \A id \in Rows : voucher[id].lines \in Seq(Line)
  BY DEF IInv, TypeOK, Row
<1>3. IntTable(v, Parties, Rows)
  <2>1. \A p \in Parties, id \in Rows : AccountTotal(voucher[id].lines, p, c) \in Int
    BY <1>2, AccountTotalType
  <2> QED
    BY <2>1 DEF IntTable
<1>4. RowSums(byRow, v, Parties, Rows)
  BY Zenon DEF RowSums, Balance, BalanceOf
<1>5. ColumnSums(byColumn, v, Parties, Rows)
  BY Zenon DEF ColumnSums
<1>6. \A id \in Rows : byColumn[id] = 0
  <2> SUFFICES ASSUME NEW id \in Rows PROVE byColumn[id] = 0
    OBVIOUS
  <2> DEFINE f == [p \in Parties |-> v[p][id]]
  <2>1. \A p \in Parties : f[p] = AccountTotal(voucher[id].lines, p, c)
    OBVIOUS
  <2>2. byColumn[id] = SumFunctionOnSet(f, Parties)
    BY Zenon
  <2> HIDE DEF f, v, byColumn
  <2>3. SumFunctionOnSet(f, Parties) = CurrencyTotal(voucher[id].lines, c)
    <3> DEFINE lines == voucher[id].lines
    <3>1. SumFunctionOnSet(f, Parties)
            = ShareAt(lines, 1, c, Parties) + ShareAt(lines, 2, c, Parties)
                + ShareAt(lines, 3, c, Parties) + ShareAt(lines, 4, c, Parties)
      BY <1>2, <2>1, AccountsShare
    <3>2. \A i \in {1, 2, 3, 4} : ShareAt(lines, i, c, Parties) = AmountAt(lines, i, c)
      <4>1. \A i \in DOMAIN lines : lines[i] \in Line
        BY <1>2
      <4> HIDE DEF lines
      <4> QED
        BY <4>1 DEF ShareAt, AmountAt, Line
    <3> QED
      BY <3>1, <3>2 DEF CurrencyTotal
  <2>4. CurrencyTotal(voucher[id].lines, c) = 0
    BY DEF RowsFormed, Formed, Balanced
  <2> QED
    BY <2>2, <2>3, <2>4
<1>7. \A p \in Parties : byRow[p] = Balance(p, c)
  OBVIOUS
<1> HIDE DEF v, byRow, byColumn
<1>8. SumFunctionOnSet(byRow, Parties) = SumFunctionOnSet(byColumn, Rows)
  BY <1>1, <1>3, <1>4, <1>5, SumSwap
<1>9. SumFunctionOnSet(byColumn, Rows) = 0
  BY <1>1, <1>6, SumZero
<1>10. SumFunctionOnSet(byRow, Parties) = TotalOver(Parties)[c]
  BY <1>7, TotalIs
<1> QED
  BY <1>8, <1>9, <1>10

\* What the internal accounts have mirrors the house and its customers.
LEMMA OthersMirror ==
  ASSUME IInv, RowsFormed, NEW c \in Currencies
  PROVE  LET house == TotalOver(OfKind(HouseKinds))[c]
             customers == TotalOver(OfKind({"customer"}))[c]
             others == TotalOver(OfKind({"position", "expense", "income", "equity"}))[c]
         IN  /\ house \in Int /\ customers \in Int /\ others \in Int
             /\ house + customers = -others
<1> DEFINE H == OfKind(HouseKinds)
           C == OfKind({"customer"})
           O == OfKind({"position", "expense", "income", "equity"})
<1>1. \A p \in Parties : KindOf[p] \in PartyKinds
  BY PartiesAssumption
<1>2. /\ H \in SUBSET Parties /\ C \in SUBSET Parties /\ O \in SUBSET Parties
      /\ H \cap C = {} /\ (H \cup C) \cap O = {} /\ (H \cup C) \cup O = Parties
  BY <1>1 DEF OfKind, HouseKinds, PartyKinds
<1> HIDE DEF H, C, O
<1>3. /\ TotalOver(H)[c] \in Int /\ TotalOver(C)[c] \in Int
      /\ TotalOver(H \cup C)[c] = TotalOver(H)[c] + TotalOver(C)[c]
  <2>1. H \in SUBSET Parties /\ C \in SUBSET Parties /\ H \cap C = {}
    BY <1>2
  <2> QED
    BY <2>1, TotalsJoin, Zenon
<1>4. /\ TotalOver(O)[c] \in Int
      /\ TotalOver((H \cup C) \cup O)[c] = TotalOver(H \cup C)[c] + TotalOver(O)[c]
  <2>1. H \cup C \in SUBSET Parties /\ O \in SUBSET Parties /\ (H \cup C) \cap O = {}
    BY <1>2
  <2> QED
    BY <2>1, TotalsJoin, Zenon
<1>5. TotalOver((H \cup C) \cup O)[c] = 0
  BY <1>2, AllBalancesCancel
<1>6. TotalOver(H)[c] + TotalOver(C)[c] = -TotalOver(O)[c]
  BY ONLY <1>3, <1>4, <1>5
<1> QED
  BY <1>3, <1>4, <1>6 DEF H, C, O

-----------------------------------------------------------------------------
(* Values *)

LEMMA KnownRates ==
  ASSUME NEW rate \in RateMaps
  PROVE  /\ Known(rate) \in SUBSET Currencies /\ IsFiniteSet(Known(rate))
         /\ \A c \in Known(rate) : rate[c] \in Int
<1> DEFINE H == [Currencies -> Seq(Nat)]
           empty == [c \in Currencies |-> << >>]
           typed == {empty} \cup {ManualRate(empty, c, r) : c \in Foreign, r \in RateValues}
           answers == UNION {[mapped -> RateValues \cup {0}] : mapped \in SUBSET Foreign}
<1>1. RateValues \subseteq Nat
  BY StatementsAssumption
<1>2. empty \in H
  OBVIOUS
<1>3. ASSUME NEW h \in H, NEW c \in Currencies, NEW r \in RateValues
      PROVE  ManualRate(h, c, r) \in H
  <2>1. h[c] \in Seq(Nat) /\ r \in Nat
    BY <1>1
  <2>2. Append(h[c], r) \in Seq(Nat)
    BY <2>1
  <2> QED
    BY <2>2 DEF ManualRate
<1>4. typed \subseteq H
  <2> HIDE DEF H, empty
  <2> QED
    BY <1>2, <1>3 DEF Foreign
<1>5. ASSUME NEW h \in H, NEW a \in answers
      PROVE  FetchFromSource(h, a) \in H
  <2>1. \A c \in DOMAIN a : a[c] \in Nat
    <3>1. PICK mapped \in SUBSET Foreign : a \in [mapped -> RateValues \cup {0}]
      OBVIOUS
    <3>2. DOMAIN a = mapped /\ \A c \in mapped : a[c] \in RateValues \cup {0}
      BY <3>1
    <3>3. \A r \in RateValues \cup {0} : r \in Nat
      BY <1>1
    <3> HIDE DEF H, answers
    <3> QED
      BY <3>2, <3>3
  <2>2. ASSUME NEW c \in Currencies
        PROVE  (IF c \in DOMAIN a /\ a[c] > 0 THEN Append(h[c], a[c]) ELSE h[c]) \in Seq(Nat)
    <3>1. h[c] \in Seq(Nat)
      OBVIOUS
    <3>2. CASE c \in DOMAIN a /\ a[c] > 0
      <4>1. a[c] \in Nat
        BY <2>1, <3>2
      <4> HIDE DEF H, answers
      <4>2. Append(h[c], a[c]) \in Seq(Nat)
        BY <3>1, <4>1
      <4> QED
        BY <3>2, <4>2
    <3>3. CASE ~(c \in DOMAIN a /\ a[c] > 0)
      BY <3>1, <3>3
    <3> QED
      BY <3>2, <3>3
  <2> QED
    BY <2>2 DEF FetchFromSource
<1>6. RateHistories \subseteq H
  <2>1. RateHistories = typed \cup {FetchFromSource(h, a) : h \in typed, a \in answers}
    BY DEF RateHistories
  <2> HIDE DEF H, typed, answers
  <2> QED
    BY <1>4, <1>5, <2>1
<1>7. PICK history \in H : rate = LatestRateMap(history)
  BY <1>6 DEF RateMaps
<1>8. \A c \in Currencies : rate[c] # None => rate[c] \in Int
  <2>1. ASSUME NEW c \in Currencies, history[c] # << >>
        PROVE  history[c][Len(history[c])] \in Nat
    BY <2>1
  <2> QED
    BY <1>7, <2>1 DEF LatestRateMap, LatestRate
<1>9. Known(rate) \in SUBSET Currencies
  BY DEF Known
<1>10. IsFiniteSet(Known(rate))
  BY <1>9, TablesAssumption, FS_Subset
<1> QED
  BY <1>8, <1>9, <1>10 DEF Known

LEMMA ValueIs ==
  ASSUME NEW rate \in RateMaps, NEW amounts, \A c \in Currencies : amounts[c] \in Int,
         NEW f, \A c \in Known(rate) : f[c] = amounts[c] * rate[c]
  PROVE  /\ \A c \in Known(rate) : f[c] \in Int
         /\ SumFunctionOnSet(f, Known(rate)) = ValueInBase(amounts, rate).total
         /\ ValueInBase(amounts, rate).total \in Int
<1> DEFINE g == [c \in Known(rate) |-> amounts[c] * rate[c]]
<1>1. /\ Known(rate) \in SUBSET Currencies /\ IsFiniteSet(Known(rate))
      /\ \A c \in Known(rate) : rate[c] \in Int
  BY KnownRates
<1>2. \A c \in Known(rate) : f[c] \in Int
  <2>1. ASSUME NEW c \in Known(rate) PROVE f[c] \in Int
    <3>1. amounts[c] \in Int /\ rate[c] \in Int /\ f[c] = amounts[c] * rate[c]
      BY <1>1
    <3> QED
      BY ONLY <3>1
  <2> QED
    BY <2>1
<1>3. \A c \in Known(rate) : g[c] = f[c]
  OBVIOUS
<1>4. ValueInBase(amounts, rate).total = SumFunctionOnSet(g, Known(rate))
  BY DEF ValueInBase
<1> HIDE DEF g
<1>5. SumFunctionOnSet(g, Known(rate)) = SumFunctionOnSet(f, Known(rate))
  BY <1>1, <1>3, SumEqual
<1>6. SumFunctionOnSet(f, Known(rate)) \in Int
  BY <1>1, <1>2, SumInt
<1> QED
  BY <1>2, <1>4, <1>5, <1>6

\* Values turn their sign with the amounts, and add up like them.
LEMMA ValueNegated ==
  ASSUME NEW rate \in RateMaps, NEW a, NEW b,
         \A c \in Currencies : b[c] \in Int /\ a[c] = -b[c]
  PROVE  ValueInBase(a, rate).total = -ValueInBase(b, rate).total
<1> DEFINE f == [c \in Known(rate) |-> b[c] * rate[c]]
           g == [c \in Known(rate) |-> a[c] * rate[c]]
<1>1. /\ Known(rate) \in SUBSET Currencies /\ IsFiniteSet(Known(rate))
      /\ \A c \in Known(rate) : rate[c] \in Int
  BY KnownRates
<1>2. \A c \in Known(rate) : f[c] = b[c] * rate[c] /\ g[c] = a[c] * rate[c]
  OBVIOUS
<1>3. \A c \in Currencies : a[c] \in Int /\ b[c] \in Int
  OBVIOUS
<1> HIDE DEF f, g
<1>4. /\ \A c \in Known(rate) : f[c] \in Int
      /\ SumFunctionOnSet(f, Known(rate)) = ValueInBase(b, rate).total
  BY <1>2, <1>3, ValueIs
<1>5. SumFunctionOnSet(g, Known(rate)) = ValueInBase(a, rate).total
  BY <1>2, <1>3, ValueIs
<1>6. ASSUME NEW c \in Known(rate) PROVE g[c] = -f[c]
  <2>1. b[c] \in Int /\ rate[c] \in Int /\ a[c] = -b[c]
    BY <1>1
  <2>2. (-b[c]) * rate[c] = -(b[c] * rate[c])
    BY ONLY <2>1
  <2> QED
    BY <1>2, <2>1, <2>2
<1>7. SumFunctionOnSet(g, Known(rate)) = -SumFunctionOnSet(f, Known(rate))
  BY <1>1, <1>4, <1>6, SumNegative
<1> QED
  BY <1>4, <1>5, <1>7

LEMMA ValuesJoin ==
  ASSUME NEW rate \in RateMaps, NEW a, NEW b, NEW s,
         \A c \in Currencies : a[c] \in Int /\ b[c] \in Int /\ s[c] = a[c] + b[c]
  PROVE  ValueInBase(s, rate).total = ValueInBase(a, rate).total + ValueInBase(b, rate).total
<1> DEFINE f == [c \in Known(rate) |-> a[c] * rate[c]]
           g == [c \in Known(rate) |-> b[c] * rate[c]]
           h == [c \in Known(rate) |-> s[c] * rate[c]]
<1>1. /\ Known(rate) \in SUBSET Currencies /\ IsFiniteSet(Known(rate))
      /\ \A c \in Known(rate) : rate[c] \in Int
  BY KnownRates
<1>2. \A c \in Known(rate) : /\ f[c] = a[c] * rate[c] /\ g[c] = b[c] * rate[c]
                            /\ h[c] = s[c] * rate[c]
  OBVIOUS
<1>3. \A c \in Currencies : a[c] \in Int /\ b[c] \in Int /\ s[c] \in Int
  OBVIOUS
<1> HIDE DEF f, g, h
<1>4. /\ \A c \in Known(rate) : f[c] \in Int
      /\ SumFunctionOnSet(f, Known(rate)) = ValueInBase(a, rate).total
  BY <1>2, <1>3, ValueIs
<1>5. /\ \A c \in Known(rate) : g[c] \in Int
      /\ SumFunctionOnSet(g, Known(rate)) = ValueInBase(b, rate).total
  BY <1>2, <1>3, ValueIs
<1>6. SumFunctionOnSet(h, Known(rate)) = ValueInBase(s, rate).total
  BY <1>2, <1>3, ValueIs
<1>7. ASSUME NEW c \in Known(rate) PROVE h[c] = f[c] + g[c]
  <2>1. a[c] \in Int /\ b[c] \in Int /\ rate[c] \in Int /\ s[c] = a[c] + b[c]
    BY <1>1
  <2>2. (a[c] + b[c]) * rate[c] = a[c] * rate[c] + b[c] * rate[c]
    BY ONLY <2>1
  <2> QED
    BY <1>2, <2>1, <2>2
<1>8. SumFunctionOnSet(h, Known(rate))
        = SumFunctionOnSet(f, Known(rate)) + SumFunctionOnSet(g, Known(rate))
  BY <1>1, <1>4, <1>5, <1>7, SumPlus
<1> QED
  BY <1>4, <1>5, <1>6, <1>8

\* Each customer valued on its own, or all of them together.
LEMMA CustomersAddUp ==
  ASSUME IInv, NEW rate \in RateMaps
  PROVE  LET customers == CustomersOverview(rate)
         IN  SumFunctionOnSet([p \in DOMAIN customers |-> customers[p].total], DOMAIN customers)
               = ValueInBase(TotalOver(OfKind({"customer"})), rate).total
<1> DEFINE C == OfKind({"customer"})
           K == Known(rate)
           customers == CustomersOverview(rate)
           v == [p \in C |-> [c \in K |-> Balance(p, c) * rate[c]]]
           byRow == [p \in DOMAIN customers |-> customers[p].total]
           byColumn == [c \in K |-> TotalOver(C)[c] * rate[c]]
<1>1. C \in SUBSET Parties /\ IsFiniteSet(C)
  <2>1. C \in SUBSET Parties
    BY DEF OfKind
  <2> HIDE DEF C
  <2> QED
    BY <2>1, TablesAssumption, FS_Subset
<1>2. K \in SUBSET Currencies /\ IsFiniteSet(K) /\ \A c \in K : rate[c] \in Int
  BY KnownRates
<1>3. \A p \in Parties, c \in Currencies : Balance(p, c) \in Int
  BY BalanceInt DEF Balance
<1>4. \A c \in Currencies : TotalOver(C)[c] \in Int
  <2>1. ASSUME NEW c \in Currencies PROVE TotalOver(C)[c] \in Int
    <3> DEFINE f == [p \in C |-> Balance(p, c)]
    <3>1. \A p \in C : f[p] = Balance(p, c)
      OBVIOUS
    <3> HIDE DEF f, C
    <3> QED
      BY <1>1, <3>1, TotalIs
  <2> QED
    BY <2>1
<1>5. /\ DOMAIN customers = C
      /\ \A p \in C : customers[p] = ValueInBase([c \in Currencies |-> Balance(p, c)], rate)
  BY DEF CustomersOverview
<1>6. IntTable(v, C, K)
  <2>1. ASSUME NEW p \in C, NEW c \in K PROVE v[p][c] \in Int
    <3>1. Balance(p, c) \in Int /\ rate[c] \in Int
      BY <1>1, <1>2, <1>3
    <3>2. Balance(p, c) * rate[c] \in Int
      BY ONLY <3>1
    <3> HIDE DEF C, K
    <3> QED
      BY <3>2
  <2> HIDE DEF v, C, K
  <2> QED
    BY <2>1 DEF IntTable
<1>7. RowSums(byRow, v, C, K)
  <2>1. ASSUME NEW p \in C PROVE byRow[p] = SumFunctionOnSet(v[p], K)
    <3> DEFINE amounts == [c \in Currencies |-> Balance(p, c)]
               f == v[p]
    <3>1. \A c \in Currencies : amounts[c] = Balance(p, c) /\ amounts[c] \in Int
      BY <1>1, <1>3
    <3>2. \A c \in K : f[c] = amounts[c] * rate[c]
      BY <1>2
    <3>3. byRow[p] = ValueInBase(amounts, rate).total
      BY <1>5
    <3> HIDE DEF amounts, f
    <3>4. SumFunctionOnSet(f, Known(rate)) = ValueInBase(amounts, rate).total
      BY <3>1, <3>2, ValueIs
    <3> QED
      BY <3>3, <3>4 DEF f
  <2> HIDE DEF v, byRow, C, K
  <2> QED
    BY <2>1 DEF RowSums
<1>8. ColumnSums(byColumn, v, C, K)
  <2>1. ASSUME NEW c \in K
        PROVE  byColumn[c] = SumFunctionOnSet([p \in C |-> v[p][c]], C)
    <3> DEFINE f == [p \in C |-> Balance(p, c)]
               h == [p \in C |-> v[p][c]]
    <3>1. c \in Currencies /\ rate[c] \in Int
      BY <1>2
    <3>2. \A p \in C : f[p] = Balance(p, c) /\ h[p] = f[p] * rate[c]
      OBVIOUS
    <3>3. byColumn[c] = TotalOver(C)[c] * rate[c]
      OBVIOUS
    <3> HIDE DEF f, h, v, byColumn, C, K
    <3>4. (\A p \in C : f[p] \in Int) /\ SumFunctionOnSet(f, C) = TotalOver(C)[c]
      BY <1>1, <3>1, <3>2, TotalIs
    <3>5. SumFunctionOnSet(h, C) = SumFunctionOnSet(f, C) * rate[c]
      BY <1>1, <3>1, <3>2, <3>4, SumScale
    <3> QED
      BY <3>3, <3>4, <3>5 DEF h
  <2> HIDE DEF v, byColumn, C, K
  <2> QED
    BY <2>1 DEF ColumnSums
<1>9. \A c \in K : byColumn[c] = TotalOver(C)[c] * rate[c]
  OBVIOUS
<1> HIDE DEF v, byColumn, C
<1>10. SumFunctionOnSet(byColumn, Known(rate)) = ValueInBase(TotalOver(C), rate).total
  BY <1>4, <1>9, ValueIs
<1> HIDE DEF byRow, K
<1>11. SumFunctionOnSet(byRow, C) = SumFunctionOnSet(byColumn, K)
  BY <1>1, <1>2, <1>6, <1>7, <1>8, SumSwap
<1> QED
  BY <1>5, <1>10, <1>11 DEF byRow, K, C

-----------------------------------------------------------------------------
(* The reports *)

\* The net worth is what the internal accounts have with the sign turned, and the cash
\* of the house with what the customers owe.
LEMMA WorthMirrors ==
  ASSUME IInv, RowsFormed, NEW rate \in RateMaps
  PROVE  LET net == NetWorthSnapshot(rate).total
             customers == CustomersOverview(rate)
         IN  /\ net = -ValueInBase(TotalOver(OfKind({"position", "expense", "income", "equity"})),
                                   rate).total
             /\ net = ValueInBase(HouseCurrencySnapshot, rate).total
                        + SumFunctionOnSet([p \in DOMAIN customers |-> customers[p].total],
                                           DOMAIN customers)
<1> DEFINE house == TotalOver(OfKind(HouseKinds))
           customers == TotalOver(OfKind({"customer"}))
           others == TotalOver(OfKind({"position", "expense", "income", "equity"}))
           net == [c \in Currencies |-> house[c] + customers[c]]
<1>1. \A c \in Currencies : /\ house[c] \in Int /\ customers[c] \in Int /\ others[c] \in Int
                           /\ house[c] + customers[c] = -others[c]
  BY OthersMirror
<1>2. NetWorthSnapshot(rate).total = ValueInBase(net, rate).total /\ HouseCurrencySnapshot = house
  BY DEF NetWorthSnapshot, HouseCurrencySnapshot
<1>3. \A c \in Currencies : net[c] = house[c] + customers[c]
  OBVIOUS
<1> HIDE DEF net, house, others
<1>4. ValueInBase(net, rate).total = -ValueInBase(others, rate).total
  <2>1. \A c \in Currencies : others[c] \in Int /\ net[c] = -others[c]
    BY <1>1, <1>3
  <2> QED
    BY <2>1, ValueNegated
<1> HIDE DEF customers
<1>5. ValueInBase(net, rate).total
        = ValueInBase(house, rate).total + ValueInBase(customers, rate).total
  BY <1>1, <1>3, ValuesJoin
<1> QED
  BY <1>2, <1>4, <1>5, CustomersAddUp DEF house, customers, others

\* The dashboard lists the cash of the active accounts, once for each currency.
LEMMA ListedCash ==
  ASSUME IInv, NEW c \in Currencies
  PROVE  HouseCurrencySnapshot[c]
           = LET listed == {row \in HouseAccountsSummary : row.currency = c}
             IN  SumFunctionOnSet([row \in listed |-> row.amount], listed)
                   + TotalOver(OfKind(HouseKinds) \ active)[c]
<1> DEFINE A == OfKind(HouseKinds) \cap active
           R == OfKind(HouseKinds) \ active
           listed == {row \in HouseAccountsSummary : row.currency = c}
           amounts == [row \in listed |-> row.amount]
           S == {p \in A : \E k \in Places : LineAt(k).party = p /\ LineAt(k).currency = c}
           m == [p \in S |-> [party |-> p, currency |-> c, amount |-> Balance(p, c)]]
           f == [p \in A |-> Balance(p, c)]
<1>1. /\ A \in SUBSET Parties /\ R \in SUBSET Parties
      /\ A \cap R = {} /\ A \cup R = OfKind(HouseKinds)
  BY DEF OfKind
<1>2. \A p \in A : f[p] = Balance(p, c)
  OBVIOUS
<1>3. S \subseteq A
  OBVIOUS
<1>4. \A p \in A \ S : f[p] = 0
  <2> SUFFICES ASSUME NEW p \in A \ S PROVE Balance(p, c) = 0
    BY <1>2
  <2> DEFINE K == {k \in Places : k[1] \in Rows /\ LineAt(k).party = p}
  <2>1. \A k \in K \ {} : LineAt(k).currency # c
    OBVIOUS
  <2>2. p \in Parties /\ K \in SUBSET Places /\ {} \in SUBSET K
    BY <1>1
  <2> HIDE DEF A, R, S, f, m, listed, amounts
  <2>3. LinesTotal(K, c) = BalanceOf(Rows, p, c)
    BY <2>2, LinesMakeBalance
  <2> HIDE DEF K
  <2>4. LinesTotal(K, c) = LinesTotal({}, c)
    BY <2>1, <2>2, OthersCountNothing
  <2>5. LinesTotal({}, c) = 0
    BY SumEmpty DEF LinesTotal
  <2> QED
    BY <2>3, <2>4, <2>5 DEF Balance
<1>5. \A p \in S : /\ m[p].party = p /\ m[p] \in listed
                   /\ amounts[m[p]] = Balance(p, c)
  <2> SUFFICES ASSUME NEW p \in S
               PROVE  /\ m[p].party = p /\ m[p] \in listed
                      /\ amounts[m[p]] = Balance(p, c)
    OBVIOUS
  <2>1. PICK k \in Places : LineAt(k).party = p /\ LineAt(k).currency = c
    OBVIOUS
  <2>2. m[p] = [party |-> p, currency |-> c, amount |-> Balance(p, c)]
    OBVIOUS
  <2>3. p \in A
    OBVIOUS
  <2>4. m[p] \in HouseAccountsSummary
    <3> HIDE DEF m, listed, amounts, S
    <3> QED
      BY <2>1, <2>2, <2>3 DEF HouseAccountsSummary
  <2>5. m[p] \in listed
    BY <2>2, <2>4
  <2> QED
    BY <2>2, <2>5
<1>6. listed = {m[p] : p \in S}
  <2>1. \A p \in S : m[p] \in listed
    BY <1>5
  <2>2. ASSUME NEW row \in listed PROVE \E p \in S : row = m[p]
    <3>1. PICK k \in Places :
            /\ LineAt(k).party \in A
            /\ row = [party |-> LineAt(k).party, currency |-> LineAt(k).currency,
                      amount |-> Balance(LineAt(k).party, LineAt(k).currency)]
      BY DEF HouseAccountsSummary
    <3>2. LineAt(k).currency = c
      BY <3>1
    <3> QED
      BY <3>1, <3>2
  <2> QED
    BY <2>1, <2>2
<1>7. \A p, q \in S : m[p] = m[q] => p = q
  BY <1>5
<1> HIDE DEF A, R, S, m, f, listed, amounts
<1>8. /\ IsFiniteSet(A) /\ \A p \in A : f[p] \in Int
      /\ SumFunctionOnSet(f, A) = TotalOver(A)[c]
  BY <1>1, <1>2, TotalIs, Zenon
<1>9. SumFunctionOnSet(f, A) = SumFunctionOnSet(f, S)
  BY <1>3, <1>4, <1>8, SumIgnore
<1>10. SumFunctionOnSet(f, S) = SumFunctionOnSet(amounts, {m[p] : p \in S})
  <2>1. \A p \in S : amounts[m[p]] \in Int /\ f[p] = amounts[m[p]]
    BY <1>2, <1>3, <1>5, <1>8
  <2>2. IsFiniteSet(S)
    BY <1>3, <1>8, FS_Subset
  <2> QED
    BY <1>7, <2>1, <2>2, SumReindex
<1>11. TotalOver(A \cup R)[c] = TotalOver(A)[c] + TotalOver(R)[c]
  BY <1>1, TotalsJoin, Zenon
<1> QED
  BY <1>1, <1>6, <1>8, <1>9, <1>10, <1>11 DEF HouseCurrencySnapshot, listed, amounts, R

\* The lines of whole documents come to nothing, so what comes in goes out.
LEMMA PeriodBalances ==
  ASSUME IInv, RowsFormed, NEW c \in Currencies, NEW T \in SUBSET Rows,
         NEW W, W = {k \in Places : k[1] \in T}
  PROVE  LinesTotal(W, c) = 0
<1> DEFINE w == [id \in Rows |-> [i \in {1, 2, 3, 4} |-> AmountAt(voucher[id].lines, i, c)]]
           f == [k \in W |-> IF LineAt(k).currency = c THEN LineAt(k).amount ELSE 0]
           g == [id \in T |-> CurrencyTotal(voucher[id].lines, c)]
<1>1. \A id \in Rows, i \in {1, 2, 3, 4} :
        w[id][i] = AmountAt(voucher[id].lines, i, c) /\ w[id][i] \in Int
  <2>1. \A id \in Rows, i \in {1, 2, 3, 4} : w[id][i] = AmountAt(voucher[id].lines, i, c)
    OBVIOUS
  <2>2. ASSUME NEW id \in Rows, NEW i \in {1, 2, 3, 4}
        PROVE  AmountAt(voucher[id].lines, i, c) \in Int
    <3>1. voucher[id].lines \in Seq(Line) /\ i \in Nat
      BY DEF IInv, TypeOK, Row
    <3> QED
      BY <3>1, NegatedAmount
  <2> QED
    BY <2>1, <2>2
<1>2. \A id \in T, i \in {1, 2, 3, 4} : <<id, i>> \notin W => w[id][i] = 0
  <2> SUFFICES ASSUME NEW id \in T, NEW i \in {1, 2, 3, 4}, <<id, i>> \notin W
               PROVE  w[id][i] = 0
    OBVIOUS
  <2>1. <<id, i>> \notin Places
    OBVIOUS
  <2>2. i \notin DOMAIN voucher[id].lines
    BY <2>1, PlaceAt
  <2> QED
    BY <1>1, <2>2 DEF AmountAt
<1>3. \A k \in W : f[k] = w[k[1]][k[2]]
  <2> SUFFICES ASSUME NEW k \in W PROVE f[k] = w[k[1]][k[2]]
    OBVIOUS
  <2>1. /\ k[1] \in Rows /\ k[2] \in {1, 2, 3, 4} /\ k[2] \in DOMAIN voucher[k[1]].lines
        /\ LineAt(k) = voucher[k[1]].lines[k[2]]
    BY PlaceAt
  <2> QED
    BY <1>1, <2>1 DEF AmountAt
<1>4. \A id \in T : g[id] = w[id][1] + w[id][2] + w[id][3] + w[id][4]
  BY <1>1 DEF CurrencyTotal
<1>5. W \in SUBSET Places /\ \A k \in W : k[1] \in T
  OBVIOUS
<1>6. LinesTotal(W, c) = SumFunctionOnSet(f, W)
  BY Zenon DEF LinesTotal
<1>7. \A id \in T : g[id] = 0
  BY DEF RowsFormed, Formed, Balanced
<1> HIDE DEF f, g, w
<1>8. SumFunctionOnSet(f, W) = SumFunctionOnSet(g, T)
  BY <1>1, <1>2, <1>3, <1>4, <1>5, LinesByDocument
<1>9. SumFunctionOnSet(g, T) = 0
  BY <1>7, PlacesFinite, FS_Subset, SumZero
<1> QED
  BY <1>6, <1>8, <1>9

\* What is split by sign adds up again.
LEMMA SignsJoin ==
  ASSUME IInv, NEW c \in Currencies, NEW W \in SUBSET Places
  PROVE  LET in == LinesTotal({k \in W : LineAt(k).amount > 0}, c)
             out == LinesTotal({k \in W : LineAt(k).amount < 0}, c)
         IN  in \in Int /\ out \in Int /\ LinesTotal(W, c) = in + out
<1> DEFINE P == {k \in W : LineAt(k).amount > 0}
           N == {k \in W : LineAt(k).amount < 0}
           counts(k) == IF LineAt(k).currency = c THEN LineAt(k).amount ELSE 0
           f == [k \in W |-> counts(k)]
<1>1. IsFiniteSet(W) /\ \A k \in W : LineAt(k).amount \in Int
  BY PlacesFinite, PlaceAt, FS_Subset
<1>2. \A k \in W : f[k] \in Int
  BY <1>1
<1>3. P \cup N \subseteq W /\ P \cap N = {} /\ \A k \in W \ (P \cup N) : f[k] = 0
  BY <1>1
<1>4. ASSUME NEW S \in SUBSET W
      PROVE  LinesTotal(S, c) = SumFunctionOnSet(f, S) /\ LinesTotal(S, c) \in Int
  <2> DEFINE g == [k \in S |-> counts(k)]
  <2>1. \A k \in S : g[k] = f[k]
    OBVIOUS
  <2>2. IsFiniteSet(S)
    BY <1>1, FS_Subset
  <2>3. LinesTotal(S, c) = SumFunctionOnSet(g, S)
    BY Zenon DEF LinesTotal
  <2> HIDE DEF f, g
  <2>4. SumFunctionOnSet(g, S) = SumFunctionOnSet(f, S)
    BY <2>1, <2>2, SumEqual
  <2>5. SumFunctionOnSet(f, S) \in Int
    BY <1>2, <2>2, SumInt
  <2> QED
    BY <2>3, <2>4, <2>5
<1>5. /\ P \in SUBSET W /\ N \in SUBSET W /\ W \in SUBSET W
      /\ IsFiniteSet(P) /\ IsFiniteSet(N)
  BY <1>1, FS_Subset
<1> HIDE DEF f, P, N, counts
<1>6. SumFunctionOnSet(f, W) = SumFunctionOnSet(f, P \cup N)
  BY <1>1, <1>2, <1>3, SumIgnore
<1>7. SumFunctionOnSet(f, P \cup N) = SumFunctionOnSet(f, P) + SumFunctionOnSet(f, N)
  BY <1>2, <1>3, <1>5, SumUnion
<1> QED
  BY <1>4, <1>5, <1>6, <1>7 DEF P, N

LEMMA TurnoverBalances ==
  ASSUME IInv, RowsFormed, NEW date, NEW from, NEW to, NEW c \in Currencies
  PROVE  DebitCreditTotals(date, from, to)[c].debit = DebitCreditTotals(date, from, to)[c].credit
<1> DEFINE T == {id \in Rows : Within(date[id], from, to)}
           W == {k \in Places : Within(date[k[1]], from, to)}
           in == LinesTotal({k \in W : LineAt(k).amount > 0}, c)
           out == LinesTotal({k \in W : LineAt(k).amount < 0}, c)
<1>1. DebitCreditTotals(date, from, to)[c].debit = in
      /\ DebitCreditTotals(date, from, to)[c].credit = -out
  BY DEF DebitCreditTotals
<1>2. W = {k \in Places : k[1] \in T} /\ T \in SUBSET Rows /\ W \in SUBSET Places
  BY PlaceAt
<1> HIDE DEF T, W
<1>3. LinesTotal(W, c) = 0
  BY <1>2, PeriodBalances
<1>4. in \in Int /\ out \in Int /\ LinesTotal(W, c) = in + out
  BY <1>2, SignsJoin
<1> HIDE DEF in, out
<1>5. in = -out
  BY ONLY <1>3, <1>4
<1> QED
  BY <1>1, <1>5

LEMMA WorthIsMirrored == IInv /\ RowsFormed => NetWorthMirrored
<1> SUFFICES ASSUME IInv, RowsFormed PROVE NetWorthMirrored
  OBVIOUS
<1>1. ASSUME NEW rate \in RateMaps
      PROVE  LET net == NetWorthSnapshot(rate).total
                 customers == CustomersOverview(rate)
             IN  /\ net = -ValueInBase(TotalOver(OfKind({"position", "expense", "income", "equity"})),
                                       rate).total
                 /\ net = ValueInBase(HouseCurrencySnapshot, rate).total
                            + SumFunctionOnSet([p \in DOMAIN customers |-> customers[p].total],
                                               DOMAIN customers)
  BY WorthMirrors, Zenon
<1>2. ASSUME NEW c \in Currencies
      PROVE  HouseCurrencySnapshot[c]
               = LET listed == {row \in HouseAccountsSummary : row.currency = c}
                 IN  SumFunctionOnSet([row \in listed |-> row.amount], listed)
                       + TotalOver(OfKind(HouseKinds) \ active)[c]
  BY ListedCash, Zenon
<1>3. ASSUME NEW date \in Datings, NEW from \in Days \cup {None}, NEW to \in Days \cup {None},
             NEW c \in Currencies
      PROVE  LET total == DebitCreditTotals(date, from, to)[c]
             IN  total.debit = total.credit
  BY TurnoverBalances
<1> QED
  BY <1>1, <1>2, <1>3, Zenon DEF NetWorthMirrored

\* In every reachable state, at any rates and for any period, the net-worth report agrees
\* with the internal accounts it leaves out, with the cash and with the customers'
\* report; the dashboard with the bar on top; and as much was debited as credited.
THEOREM NetWorthIsMirrored == Spec => []NetWorthMirrored
BY Invariance, RowsAreFormed, WorthIsMirrored, PTL

-----------------------------------------------------------------------------
(* The books of a currency *)

DealsIn(c) == {id \in Deals : voucher[id].deal.currency = c}

\* What a deal brought in base currency, less the profit booked on it.
Gain(deal) ==
  IF deal.side = SELL THEN deal.quantity * deal.price - deal.realized
  ELSE -(deal.quantity * deal.price)

Held(c) ==
  SumFunctionOnSet([id \in DealsIn(c) |-> SignedQuantity(voucher[id].deal)], DealsIn(c))

Gained(c) ==
  SumFunctionOnSet([id \in DealsIn(c) |-> Gain(voucher[id].deal)], DealsIn(c))

Rounded(c) ==
  SumFunctionOnSet([id \in DealsIn(c) |-> RoundedTwice(id)], DealsIn(c))

\* What the stock at its average cost differs from what it cost.
Off(c) == Gained(c) + position[c].quantity * position[c].avg

\* While nothing was corrected or sold short the stock is what the deals left, and worth
\* what it cost but for the rounding of each purchase.
BooksClose ==
  Uncorrected /\ NeverShort =>
    \A c \in Foreign :
      /\ position[c].quantity = Held(c) /\ 0 <= position[c].quantity
      /\ 2 * Off(c) <= Rounded(c) /\ -(2 * Off(c)) <= Rounded(c)

\* A purchase: the value of the stock grows by the price, but for the rounding.
LEMMA PurchaseBooks ==
  ASSUME NEW pos \in Position, 0 <= pos.quantity,
         NEW quantity \in Positive, NEW price \in Positive,
         NEW value, value = pos.quantity * pos.avg + quantity * price,
         NEW after, after = pos.quantity + quantity,
         NEW rounded, rounded = IF value % after # 0 THEN after ELSE 0,
         NEW avg, avg = AverageAfterBuy(pos, quantity, price)
  PROVE  /\ value \in Int /\ after \in Positive /\ rounded \in Int /\ avg \in Int
         /\ 2 * (after * avg - value) <= rounded
         /\ -(2 * (after * avg - value)) <= rounded
<1>1. pos.quantity \in Int /\ pos.avg \in Int /\ quantity \in Int /\ price \in Int
  BY DEF Position, Positive
<1>2. pos.quantity * pos.avg \in Int /\ quantity * price \in Int
  BY <1>1
<1>3. value \in Int /\ after \in Positive /\ after > 0
  BY <1>1, <1>2 DEF Positive
<1>4. rounded \in Int /\ rounded >= 0
  BY <1>3 DEF Positive
<1>5. CASE pos.quantity = 0
  <2>1. avg = price /\ after = quantity
    BY <1>1, <1>3, <1>5 DEF AverageAfterBuy
  <2>2. value = after * avg
    BY <1>1, <1>5, <2>1
  <2> QED
    <3>1. after * avg - value = 0 /\ avg \in Int
      BY <1>1, <1>3, <2>1, <2>2
    <3> QED
      BY <1>3, <1>4, <3>1
<1>6. CASE pos.quantity > 0
  <2>1. avg = RoundHalfEven(value, after)
    BY <1>1, <1>3, <1>6 DEF AverageAfterBuy
  <2>2. /\ avg \in Int
        /\ 2 * (after * avg - value) <= after
        /\ 2 * (value - after * avg) <= after
    BY <1>3, <2>1, RoundHalfEvenNearest
  <2>3. after * avg \in Int
    BY <1>3, <2>2 DEF Positive
  <2>4. CASE value % after # 0
    <3>1. rounded = after
      BY <2>4
    <3> HIDE DEF Positive
    <3> QED
      BY ONLY <1>3, <1>4, <2>2, <2>3, <3>1
  <2>5. CASE value % after = 0
    <3>1. after * avg = value /\ rounded = 0
      BY <1>3, <2>1, <2>5, DivisionComesOut
    <3> QED
      BY <1>3, <1>4, <2>2, <3>1
  <2> QED
    BY <2>4, <2>5
<1> QED
  BY <1>1, <1>5, <1>6

\* What a deal in stock does to the books of its currency.
LEMMA DealBooks ==
  ASSUME NEW pos \in Position, 0 <= pos.quantity, NEW deal \in Deal,
         NEW applied, applied = ApplyInventory(deal.side, pos, deal.quantity, deal.price),
         deal.cost = applied.cost, deal.realized = applied.realized,
         NEW new, new = applied.position,
         0 <= new.quantity,
         NEW rounded,
         rounded = IF /\ deal.side = BUY
                      /\ ((new.quantity - deal.quantity) * deal.cost
                            + deal.quantity * deal.price) % new.quantity # 0
                   THEN new.quantity ELSE 0,
         NEW before \in Int, before = pos.quantity * pos.avg
  PROVE  /\ rounded \in Int /\ Gain(deal) \in Int /\ new.quantity * new.avg \in Int
         /\ 2 * (Gain(deal) + new.quantity * new.avg - before) <= rounded
         /\ -(2 * (Gain(deal) + new.quantity * new.avg - before)) <= rounded
<1> DEFINE q == deal.quantity
           p == deal.price
<1>1. /\ q \in Positive /\ p \in Positive /\ q \in Int /\ p \in Int
      /\ deal.side \in {BUY, SELL} /\ BUY # SELL /\ deal.realized \in Int
      /\ pos.quantity \in Int /\ pos.avg \in Int
  BY DEF Deal, Position, Positive, Sides, BUY, SELL
<1>2. CASE deal.side = BUY
  <2>1. /\ new = [quantity |-> pos.quantity + q, avg |-> AverageAfterBuy(pos, q, p)]
        /\ deal.cost = pos.avg
    BY <1>2 DEF ApplyInventory
  <2> DEFINE after == new.quantity
             value == pos.quantity * pos.avg + q * p
  <2>2. new.quantity = pos.quantity + q /\ new.avg = AverageAfterBuy(pos, q, p)
    BY <2>1
  <2>3. new.quantity - q = pos.quantity
    BY <1>1, <2>2
  <2>4. (new.quantity - q) * deal.cost + q * p = value
    BY <2>1, <2>3
  <2>5. rounded = IF value % after # 0 THEN after ELSE 0
    BY <1>2, <2>4
  <2>6. /\ value \in Int /\ after \in Positive /\ rounded \in Int /\ new.avg \in Int
        /\ 2 * (after * new.avg - value) <= rounded
        /\ -(2 * (after * new.avg - value)) <= rounded
    BY <1>1, <2>2, <2>5, PurchaseBooks
  <2>7. Gain(deal) = -(q * p) /\ q * p \in Int
    BY <1>1, <1>2 DEF Gain
  <2>8. value = before + q * p
    OBVIOUS
  <2>9. after * new.avg \in Int
    BY <2>6 DEF Positive
  <2>10. Gain(deal) + after * new.avg - before = after * new.avg - value
    <3> HIDE DEF value, q, p
    <3> QED
      BY ONLY <2>6, <2>7, <2>8, <2>9, before \in Int
  <2> QED
    BY <2>6, <2>7, <2>9, <2>10
<1>3. CASE deal.side = SELL
  <2>1. /\ new.quantity = pos.quantity - q
        /\ new.avg = IF pos.quantity - q = 0 THEN 0 ELSE pos.avg
        /\ deal.realized = (p - (IF pos.quantity > 0 THEN pos.avg ELSE p)) * q
    BY <1>1, <1>3 DEF ApplyInventory
  <2>2. pos.quantity > 0
    BY <1>1, <2>1 DEF Positive
  <2>3. deal.realized = (p - pos.avg) * q
    BY <2>1, <2>2
  <2>4. Gain(deal) = q * p - (p - pos.avg) * q
    BY <1>3, <2>3 DEF Gain
  <2>5. q * p - (p - pos.avg) * q = pos.avg * q
    BY ONLY <1>1
  <2>6. new.quantity * new.avg = (pos.quantity - q) * pos.avg
    <3>1. CASE pos.quantity - q = 0
      BY <1>1, <2>1, <3>1
    <3>2. CASE pos.quantity - q # 0
      BY <2>1, <3>2
    <3> QED
      BY <3>1, <3>2
  <2>7. pos.avg * q + (pos.quantity - q) * pos.avg - pos.quantity * pos.avg = 0
    BY ONLY <1>1
  <2>8. Gain(deal) + new.quantity * new.avg - before = 0
    BY <2>4, <2>5, <2>6, <2>7
  <2>9. rounded = 0
    BY <1>1, <1>3
  <2>10. Gain(deal) \in Int /\ new.quantity * new.avg \in Int
    <3>1. pos.avg * q \in Int /\ (pos.quantity - q) * pos.avg \in Int
      BY ONLY <1>1
    <3> QED
      BY <2>4, <2>5, <2>6, <3>1
  <2> QED
    BY <2>8, <2>9, <2>10
<1> QED
  BY <1>1, <1>2, <1>3

-----------------------------------------------------------------------------
(* The books are kept *)

LEMMA DealsType ==
  ASSUME TypeOK
  PROVE  /\ IsFiniteSet(Deals) /\ \A id \in Deals : id \in Rows /\ voucher[id].deal \in Deal
         /\ \A c : DealsIn(c) \subseteq Deals /\ IsFiniteSet(DealsIn(c))
         /\ \A deal \in Deal : SignedQuantity(deal) \in Int /\ Gain(deal) \in Int
<1>1. IsFiniteSet(Deals) /\ \A c : DealsIn(c) \subseteq Deals
  BY RowsFinite, FS_Subset DEF Deals, DealsIn
<1>2. \A c : IsFiniteSet(DealsIn(c))
  BY <1>1, FS_Subset
<1>3. \A id \in Deals : id \in Rows /\ voucher[id].deal \in Deal
  BY DEF Deals, TypeOK, Row
<1>4. ASSUME NEW deal \in Deal PROVE SignedQuantity(deal) \in Int /\ Gain(deal) \in Int
  <2>1. deal.quantity \in Int /\ deal.price \in Int /\ deal.realized \in Int
    BY DEF Deal
  <2>2. deal.quantity * deal.price \in Int
    BY <2>1
  <2> QED
    BY <2>1, <2>2 DEF SignedQuantity, Gain
<1> QED
  BY <1>1, <1>2, <1>3, <1>4

\* The stock after a deal, and with it the rounding of a purchase, is a number.
LEMMA StockAfterType ==
  ASSUME TypeOK, NEW id
  PROVE  StockAfter(id) \in Int /\ RoundedTwice(id) \in Int
<1> DEFINE upTo == {d \in Deals : d <= id /\ voucher[d].deal.currency = voucher[id].deal.currency}
           f == [d \in upTo |-> SignedQuantity(voucher[d].deal)]
<1>1. IsFiniteSet(upTo) /\ \A d \in upTo : f[d] \in Int
  BY DealsType, FS_Subset
<1>2. StockAfter(id) = SumFunctionOnSet(f, upTo)
  BY DEF StockAfter
<1> HIDE DEF f, upTo
<1>3. StockAfter(id) \in Int
  BY <1>1, <1>2, SumInt
<1> QED
  BY <1>3 DEF RoundedTwice

\* A row is added after the others, and they stay as they are.
Adds(d) ==
  /\ Rows' = Rows \cup {d} /\ \A i \in Rows : voucher'[i] = voucher[i] /\ i < d
  /\ d \in Nat

LEMMA EarlierStocksStay ==
  ASSUME TypeOK, NEW d, Adds(d), NEW id \in Deals
  PROVE  /\ id \in Deals'
         /\ StockAfter(id)' = StockAfter(id)
         /\ RoundedTwice(id)' = RoundedTwice(id)
<1> DEFINE upTo == {e \in Deals : e <= id /\ voucher[e].deal.currency = voucher[id].deal.currency}
           next == {e \in Deals' : e <= id /\ voucher'[e].deal.currency = voucher'[id].deal.currency}
           f == [e \in upTo |-> SignedQuantity(voucher[e].deal)]
           g == [e \in next |-> SignedQuantity(voucher'[e].deal)]
<1>1. /\ Rows' = Rows \cup {d} /\ \A i \in Rows : voucher'[i] = voucher[i] /\ i < d
      /\ d \in Nat /\ \A i \in Rows : i \in Nat
  BY DEF Adds, TypeOK
<1>2. id \in Rows /\ id \in Deals' /\ voucher'[id] = voucher[id]
  BY <1>1 DEF Deals
<1>3. ~(d <= id)
  BY <1>1, <1>2
<1>4. next = upTo
  BY <1>1, <1>2, <1>3 DEF Deals
<1>5. IsFiniteSet(upTo)
  BY DealsType, FS_Subset
<1>6. \A e \in upTo : g[e] = f[e]
  BY <1>1, <1>4 DEF Deals
<1>7. StockAfter(id) = SumFunctionOnSet(f, upTo) /\ StockAfter(id)' = SumFunctionOnSet(g, next)
  BY DEF StockAfter
<1> HIDE DEF f, g, upTo, next
<1>8. SumFunctionOnSet(g, upTo) = SumFunctionOnSet(f, upTo)
  BY <1>5, <1>6, SumEqual
<1>9. StockAfter(id)' = StockAfter(id)
  BY <1>4, <1>7, <1>8
<1> QED
  BY <1>2, <1>9 DEF RoundedTwice

\* Other than by correcting, the log only grows by what leaves history as it was.
LEMMA PostingCorrectsNothing ==
  ASSUME TypeOK, NEW id, audit' = Append(audit, Log("post", id)), Uncorrected'
  PROVE  Uncorrected
<1> DEFINE last == Len(audit) + 1
<1>1. /\ Len(audit) \in Nat /\ DOMAIN audit = 1..Len(audit) /\ DOMAIN audit' = 1..last
      /\ audit'[last].action = "post"
      /\ \A i \in DOMAIN audit : audit'[i] = audit[i]
  BY DEF TypeOK, Log
<1>2. ASSUME NEW i \in SinceReset PROVE i \in SinceReset' /\ audit'[i] = audit[i]
  <2>1. i \in DOMAIN audit /\ \A j \in DOMAIN audit : audit[j].action = "reset" => j < i
    BY DEF SinceReset
  <2>2. \A j \in DOMAIN audit' : audit'[j].action = "reset" => j \in DOMAIN audit
    BY <1>1
  <2> HIDE DEF last
  <2>3. i \in DOMAIN audit'
    BY <1>1, <2>1 DEF last
  <2> QED
    BY <1>1, <2>1, <2>2, <2>3 DEF SinceReset
<1> QED
  BY <1>2 DEF Uncorrected

LEMMA CorrectionsShow ==
  ASSUME TypeOK, NEW id, NEW n, NEW m,
         \/ audit' = Append(audit, Log("delete", id))
         \/ audit' = audit \o <<Log("post", n), Log("void", m)>>
  PROVE  ~Uncorrected'
<1> DEFINE last == Len(audit')
<1>1. /\ last \in DOMAIN audit' /\ last \in Nat /\ DOMAIN audit' = 1..last
      /\ audit'[last].action \in {"delete", "void"}
      /\ \A i \in DOMAIN audit' : audit'[i].action = "reset" => i # last
  <2>1. CASE audit' = Append(audit, Log("delete", id))
    <3>1. last = Len(audit) + 1 /\ audit'[last] = Log("delete", id)
      BY <2>1 DEF TypeOK
    <3> QED
      BY <2>1, <3>1 DEF TypeOK, Log
  <2>2. CASE audit' = audit \o <<Log("post", n), Log("void", m)>>
    <3>1. last = Len(audit) + 2 /\ audit'[last] = Log("void", m)
      BY <2>2 DEF TypeOK
    <3> QED
      BY <2>2, <3>1 DEF TypeOK, Log
  <2> QED
    BY <2>1, <2>2
<1> HIDE DEF last
<1>2. last \in SinceReset'
  BY <1>1 DEF SinceReset
<1> QED
  BY <1>1, <1>2 DEF Uncorrected

LEMMA NotShortBefore ==
  ASSUME TypeOK, NEW d, Adds(d), NeverShort'
  PROVE  NeverShort
BY EarlierStocksStay DEF NeverShort

LEMMA BookTypes ==
  ASSUME TypeOK, NEW c
  PROVE  Held(c) \in Int /\ Gained(c) \in Int /\ Rounded(c) \in Int
<1> DEFINE S == DealsIn(c)
           held == [id \in S |-> SignedQuantity(voucher[id].deal)]
           gained == [id \in S |-> Gain(voucher[id].deal)]
           rounded == [id \in S |-> RoundedTwice(id)]
<1>1. IsFiniteSet(S) /\ \A id \in S : held[id] \in Int /\ gained[id] \in Int /\ rounded[id] \in Int
  BY DealsType, StockAfterType
<1>2. /\ Held(c) = SumFunctionOnSet(held, S) /\ Gained(c) = SumFunctionOnSet(gained, S)
      /\ Rounded(c) = SumFunctionOnSet(rounded, S)
  BY DEF Held, Gained, Rounded
<1> HIDE DEF held, gained, rounded, S
<1> QED
  BY <1>1, <1>2, SumInt

\* No deal in c is added.
LEMMA BooksStay ==
  ASSUME TypeOK, NEW d, Adds(d), NEW c, DealsIn(c)' = DealsIn(c)
  PROVE  Held(c)' = Held(c) /\ Gained(c)' = Gained(c) /\ Rounded(c)' = Rounded(c)
<1> DEFINE S == DealsIn(c)
           held == [id \in S |-> SignedQuantity(voucher[id].deal)]
           gained == [id \in S |-> Gain(voucher[id].deal)]
           rounded == [id \in S |-> RoundedTwice(id)]
           held2 == [id \in S |-> SignedQuantity(voucher'[id].deal)]
           gained2 == [id \in S |-> Gain(voucher'[id].deal)]
           rounded2 == [id \in S |-> RoundedTwice(id)']
<1>1. IsFiniteSet(S) /\ S \subseteq Deals
  BY DealsType
<1>2. \A id \in S : voucher'[id] = voucher[id] /\ RoundedTwice(id)' = RoundedTwice(id)
  BY <1>1, DealsType, EarlierStocksStay DEF Adds
<1>3. \A id \in S : held2[id] = held[id] /\ gained2[id] = gained[id] /\ rounded2[id] = rounded[id]
  BY <1>2
<1>4. /\ Held(c) = SumFunctionOnSet(held, S) /\ Gained(c) = SumFunctionOnSet(gained, S)
      /\ Rounded(c) = SumFunctionOnSet(rounded, S)
      /\ Held(c)' = SumFunctionOnSet(held2, S) /\ Gained(c)' = SumFunctionOnSet(gained2, S)
      /\ Rounded(c)' = SumFunctionOnSet(rounded2, S)
  BY Zenon DEF Held, Gained, Rounded
<1> HIDE DEF held, gained, rounded, held2, gained2, rounded2, S
<1> QED
  BY <1>1, <1>3, <1>4, SumEqual

\* A deal in c is added.
LEMMA BooksGrow ==
  ASSUME TypeOK, TypeOK', NEW d, Adds(d), NEW c,
         DealsIn(c)' = DealsIn(c) \cup {d}, d \notin DealsIn(c),
         voucher'[d].deal \in Deal, voucher'[d].deal.currency = c
  PROVE  /\ Held(c)' = Held(c) + SignedQuantity(voucher'[d].deal)
         /\ Gained(c)' = Gained(c) + Gain(voucher'[d].deal)
         /\ Rounded(c)' = Rounded(c) + RoundedTwice(d)'
         /\ StockAfter(d)' = Held(c)'
<1> DEFINE S == DealsIn(c)
           T == S \cup {d}
           held == [id \in S |-> SignedQuantity(voucher[id].deal)]
           gained == [id \in S |-> Gain(voucher[id].deal)]
           rounded == [id \in S |-> RoundedTwice(id)]
           held2 == [id \in T |-> SignedQuantity(voucher'[id].deal)]
           gained2 == [id \in T |-> Gain(voucher'[id].deal)]
           rounded2 == [id \in T |-> RoundedTwice(id)']
<1>1. IsFiniteSet(S) /\ S \subseteq Deals /\ d \notin S
  BY DealsType
<1>2. \A id \in S : voucher'[id] = voucher[id] /\ RoundedTwice(id)' = RoundedTwice(id)
  BY <1>1, DealsType, EarlierStocksStay DEF Adds
<1>3. \A id \in S : held2[id] = held[id] /\ gained2[id] = gained[id] /\ rounded2[id] = rounded[id]
  BY <1>2
<1>4. \A id \in S : held[id] \in Int /\ gained[id] \in Int /\ rounded[id] \in Int
  BY <1>1, DealsType, StockAfterType
<1>5. /\ held2[d] = SignedQuantity(voucher'[d].deal) /\ gained2[d] = Gain(voucher'[d].deal)
      /\ rounded2[d] = RoundedTwice(d)'
  OBVIOUS
<1>6. held2[d] \in Int /\ gained2[d] \in Int /\ rounded2[d] \in Int
  <2>1. StockAfter(d)' \in Int
    <3> DEFINE U == {e \in Deals' : e <= d /\ voucher'[e].deal.currency = voucher'[d].deal.currency}
               f == [e \in U |-> SignedQuantity(voucher'[e].deal)]
    <3>1. IsFiniteSet(Rows')
      <4>1. nextId' \in Nat \ {0} /\ Rows' \subseteq 1..(nextId' - 1)
        BY Zenon DEF TypeOK
      <4> QED
        BY <4>1, BelowFinite
    <3>2. IsFiniteSet(U)
      BY <3>1, FS_Subset DEF Deals
    <3>3. \A e \in U : voucher'[e].deal \in Deal
      BY DEF Deals, TypeOK, Row
    <3>4. \A e \in U : f[e] \in Int
      BY <3>3, DealsType
    <3>5. StockAfter(d)' = SumFunctionOnSet(f, U)
      BY DEF StockAfter
    <3> HIDE DEF U, f
    <3> QED
      BY <3>2, <3>4, <3>5, SumInt
  <2>2. RoundedTwice(d)' \in Int
    BY <2>1 DEF RoundedTwice
  <2> QED
    BY <1>5, <2>2, DealsType
<1>7. /\ Held(c) = SumFunctionOnSet(held, S) /\ Gained(c) = SumFunctionOnSet(gained, S)
      /\ Rounded(c) = SumFunctionOnSet(rounded, S)
      /\ Held(c)' = SumFunctionOnSet(held2, T) /\ Gained(c)' = SumFunctionOnSet(gained2, T)
      /\ Rounded(c)' = SumFunctionOnSet(rounded2, T)
  BY Zenon DEF Held, Gained, Rounded
<1>8. StockAfter(d)' = SumFunctionOnSet(held2, T)
  <2>1. \A e \in Rows' : e <= d
    BY DEF Adds, TypeOK
  <2>2. {e \in Deals' : e <= d /\ voucher'[e].deal.currency = voucher'[d].deal.currency} = T
    <3>1. DealsIn(c)' = {e \in Deals' : voucher'[e].deal.currency = c}
      BY DEF DealsIn
    <3>2. \A e \in Deals' : e \in Rows'
      BY DEF Deals
    <3> QED
      BY <2>1, <3>1, <3>2
  <2> QED
    BY <2>2 DEF StockAfter
<1> HIDE DEF held, gained, rounded, held2, gained2, rounded2, S
<1>9. /\ SumFunctionOnSet(held2, T) = SumFunctionOnSet(held, S) + held2[d]
      /\ SumFunctionOnSet(gained2, T) = SumFunctionOnSet(gained, S) + gained2[d]
      /\ SumFunctionOnSet(rounded2, T) = SumFunctionOnSet(rounded, S) + rounded2[d]
  <2>1. SumFunctionOnSet(held2, S \cup {d}) = SumFunctionOnSet(held, S) + held2[d]
    <3>1. (\A id \in S : held[id] \in Int /\ held2[id] = held[id]) /\ held2[d] \in Int
      BY <1>3, <1>4, <1>6
    <3> QED
      BY ONLY <1>1, <3>1, SumGrown
  <2>2. SumFunctionOnSet(gained2, S \cup {d}) = SumFunctionOnSet(gained, S) + gained2[d]
    <3>1. (\A id \in S : gained[id] \in Int /\ gained2[id] = gained[id]) /\ gained2[d] \in Int
      BY <1>3, <1>4, <1>6
    <3> QED
      BY ONLY <1>1, <3>1, SumGrown
  <2>3. SumFunctionOnSet(rounded2, S \cup {d}) = SumFunctionOnSet(rounded, S) + rounded2[d]
    <3>1. (\A id \in S : rounded[id] \in Int /\ rounded2[id] = rounded[id]) /\ rounded2[d] \in Int
      BY <1>3, <1>4, <1>6
    <3> QED
      BY ONLY <1>1, <3>1, SumGrown
  <2> QED
    BY <2>1, <2>2, <2>3
<1> QED
  BY <1>5, <1>7, <1>8, <1>9

LEMMA DealKeepsBooks ==
  ASSUME IInv, IInv', BooksClose, NEW c \in Foreign, NEW row, PostsDeal(row, c)
  PROVE  BooksClose'
<1> SUFFICES ASSUME Uncorrected', NeverShort', NEW b \in Foreign
             PROVE  /\ position'[b].quantity = Held(b)' /\ 0 <= position'[b].quantity
                    /\ 2 * Off(b)' <= Rounded(b)' /\ -(2 * Off(b)') <= Rounded(b)'
  BY DEF BooksClose
<1> DEFINE applied == ApplyInventory(row.deal.side, position[c], row.deal.quantity, row.deal.price)
<1>0. PICK d : d = nextId
  OBVIOUS
<1>1. /\ row \in Row /\ Len(row.lines) <= MaxLines /\ PostVoucher(row)
      /\ row.deal \in Deal /\ row.deal.currency = c
      /\ row.deal.cost = applied.cost /\ row.deal.realized = applied.realized
      /\ position' = [position EXCEPT ![c] = applied.position]
  BY DEF PostsDeal, Posts
<1> HIDE DEF applied
<1>2. /\ Rows' = Rows \cup {d} /\ d \notin Rows
      /\ voucher'[d] = row
      /\ \A i \in Rows : voucher'[i] = voucher[i]
      /\ audit' = Append(audit, Log("post", d))
  BY <1>0, <1>1, PostVoucherEffect DEF IInv
<1>3. TypeOK /\ TypeOK' /\ position \in [Foreign -> Position]
  BY DEF IInv, TypeOK
<1>4. Adds(d)
  BY <1>0, <1>2, <1>3 DEF Adds, TypeOK
<1>5. /\ position[b].quantity = Held(b) /\ 0 <= position[b].quantity
      /\ 2 * Off(b) <= Rounded(b) /\ -(2 * Off(b)) <= Rounded(b)
  <2>1. Uncorrected /\ NeverShort
    BY <1>2, <1>3, <1>4, PostingCorrectsNothing, NotShortBefore
  <2> QED
    BY <2>1 DEF BooksClose
<1>6. row.deal # None
  BY <1>1, NullAssumption
<1>7. CASE b # c
  <2>1. DealsIn(b)' = DealsIn(b)
    BY <1>1, <1>2, <1>7 DEF DealsIn, Deals
  <2>2. Held(b)' = Held(b) /\ Gained(b)' = Gained(b) /\ Rounded(b)' = Rounded(b)
    BY <1>3, <1>4, <2>1, BooksStay
  <2>3. position'[b] = position[b]
    BY <1>1, <1>3, <1>7
  <2> QED
    BY <1>5, <2>2, <2>3 DEF Off
<1>8. CASE b = c
  <2> DEFINE new == position'[c]
  <2>1. new = applied.position /\ position[c] \in Position
    BY <1>1, <1>3
  <2>2. DealsIn(c)' = DealsIn(c) \cup {d} /\ d \notin DealsIn(c)
    BY <1>1, <1>2, <1>6 DEF DealsIn, Deals
  <2>3. /\ Held(c)' = Held(c) + SignedQuantity(row.deal)
        /\ Gained(c)' = Gained(c) + Gain(row.deal)
        /\ Rounded(c)' = Rounded(c) + RoundedTwice(d)'
        /\ StockAfter(d)' = Held(c)'
    <3>1. voucher'[d].deal = row.deal /\ voucher'[d].deal \in Deal /\ voucher'[d].deal.currency = c
      BY <1>1, <1>2
    <3> HIDE DEF new
    <3>2. /\ Held(c)' = Held(c) + SignedQuantity(voucher'[d].deal)
          /\ Gained(c)' = Gained(c) + Gain(voucher'[d].deal)
          /\ Rounded(c)' = Rounded(c) + RoundedTwice(d)'
          /\ StockAfter(d)' = Held(c)'
      BY <1>3, <1>4, <2>2, <3>1, BooksGrow
    <3> QED
      BY <3>1, <3>2
  <2>4. new.quantity = position[c].quantity + SignedQuantity(row.deal)
    BY <1>1, <2>1, QuantityMoves DEF applied
  <2>5. new.quantity = Held(c)'
    BY <1>5, <1>8, <2>3, <2>4
  <2>6. 0 <= new.quantity
    <3>1. d \in Deals'
      BY <1>2, <1>6 DEF Deals
    <3>2. StockAfter(d)' >= 0
      BY <3>1 DEF NeverShort
    <3>3. new.quantity \in Int
      BY <1>3 DEF TypeOK, Position
    <3> HIDE DEF new
    <3> QED
      BY <2>3, <2>5, <3>2, <3>3
  <2> DEFINE rounded == RoundedTwice(d)'
             before == position[c].quantity * position[c].avg
  <2>7. rounded = IF /\ row.deal.side = BUY
                     /\ ((new.quantity - row.deal.quantity) * row.deal.cost
                           + row.deal.quantity * row.deal.price) % new.quantity # 0
                  THEN new.quantity ELSE 0
    BY <1>2, <2>3, <2>5 DEF RoundedTwice
  <2>8. before \in Int /\ before = position[c].quantity * position[c].avg
    BY <2>1 DEF Position
  <2> HIDE DEF new, rounded, before
  <2>9. /\ rounded \in Int /\ Gain(row.deal) \in Int /\ new.quantity * new.avg \in Int
        /\ 2 * (Gain(row.deal) + new.quantity * new.avg - before) <= rounded
        /\ -(2 * (Gain(row.deal) + new.quantity * new.avg - before)) <= rounded
    <3>1. applied = ApplyInventory(row.deal.side, position[c], row.deal.quantity, row.deal.price)
      BY DEF applied
    <3>2. 0 <= position[c].quantity
      BY <1>5, <1>8
    <3>3. /\ row.deal \in Deal
          /\ row.deal.cost = applied.cost /\ row.deal.realized = applied.realized
      BY <1>1
    <3> QED
      BY ONLY <2>1, <2>6, <2>7, <2>8, <3>1, <3>2, <3>3, DealBooks
  <2>10. /\ Off(c) = Gained(c) + before
         /\ Off(c)' = Gained(c)' + new.quantity * new.avg
    BY DEF Off, before, new
  <2>11. Gained(c) \in Int /\ Rounded(c) \in Int
    BY <1>3, BookTypes
  <2>12. 2 * Off(c) <= Rounded(c) /\ -(2 * Off(c)) <= Rounded(c)
    BY <1>5, <1>8
  <2>13. 2 * Off(c)' <= Rounded(c)' /\ -(2 * Off(c)') <= Rounded(c)'
    <3>1. Rounded(c)' = Rounded(c) + rounded
      BY <2>3 DEF rounded
    <3> QED
      BY ONLY <2>3, <2>8, <2>9, <2>10, <2>11, <2>12, <3>1
  <2> QED
    BY <1>8, <2>5, <2>6, <2>13 DEF new
<1> QED
  BY <1>7, <1>8

LEMMA OtherKeepsBooks ==
  ASSUME IInv, BooksClose, NEW row, PostsOther(row)
  PROVE  BooksClose'
<1> SUFFICES ASSUME Uncorrected', NeverShort', NEW b \in Foreign
             PROVE  /\ position'[b].quantity = Held(b)' /\ 0 <= position'[b].quantity
                    /\ 2 * Off(b)' <= Rounded(b)' /\ -(2 * Off(b)') <= Rounded(b)'
  BY DEF BooksClose
<1>0. PICK d : d = nextId
  OBVIOUS
<1>1. /\ row \in Row /\ Len(row.lines) <= MaxLines /\ PostVoucher(row)
      /\ row.deal = None /\ position' = position
  BY DEF PostsOther, Posts
<1>2. /\ Rows' = Rows \cup {d} /\ d \notin Rows
      /\ voucher'[d] = row
      /\ \A i \in Rows : voucher'[i] = voucher[i]
      /\ audit' = Append(audit, Log("post", d))
  BY <1>0, <1>1, PostVoucherEffect DEF IInv
<1>3. TypeOK
  BY DEF IInv
<1>4. Adds(d)
  BY <1>0, <1>2, <1>3 DEF Adds, TypeOK
<1>5. /\ position[b].quantity = Held(b) /\ 0 <= position[b].quantity
      /\ 2 * Off(b) <= Rounded(b) /\ -(2 * Off(b)) <= Rounded(b)
  <2>1. Uncorrected /\ NeverShort
    BY <1>2, <1>3, <1>4, PostingCorrectsNothing, NotShortBefore
  <2> QED
    BY <2>1 DEF BooksClose
<1>6. DealsIn(b)' = DealsIn(b)
  BY <1>1, <1>2 DEF DealsIn, Deals
<1>7. Held(b)' = Held(b) /\ Gained(b)' = Gained(b) /\ Rounded(b)' = Rounded(b)
  BY <1>3, <1>4, <1>6, BooksStay
<1> QED
  BY <1>1, <1>5, <1>7 DEF Off

\* Without documents there is nothing in the books.
LEMMA EmptyBooksClose ==
  ASSUME Rows = {}, position = [c \in Foreign |-> EmptyPosition]
  PROVE  BooksClose
<1> SUFFICES ASSUME NEW c \in Foreign
             PROVE  /\ position[c].quantity = Held(c) /\ 0 <= position[c].quantity
                    /\ 2 * Off(c) <= Rounded(c) /\ -(2 * Off(c)) <= Rounded(c)
  BY DEF BooksClose
<1>1. DealsIn(c) = {}
  BY DEF DealsIn, Deals
<1>2. Held(c) = 0 /\ Gained(c) = 0 /\ Rounded(c) = 0
  BY <1>1, SumEmpty DEF Held, Gained, Rounded
<1>3. position[c].quantity = 0 /\ position[c].avg = 0
  BY DEF EmptyPosition
<1> QED
  BY <1>2, <1>3 DEF Off

LEMMA NextKeepsBooks == IInv /\ BooksClose /\ [Next]_vars => BooksClose'
<1> SUFFICES ASSUME IInv, BooksClose, [Next]_vars PROVE BooksClose'
  OBVIOUS
<1>1. IInv' /\ TypeOK
  BY NextKeepsIInv DEF IInv
<1>2. CASE PostSomeDeal
  BY <1>1, <1>2, PostDealPosts, DealKeepsBooks DEF PostSomeDeal, Customers, HouseAccounts
<1>3. CASE \E p, q \in Parties, c \in Currencies, a \in Amounts : PostBetween(p, q, c, a)
  BY <1>3, PostBetweenPosts, OtherKeepsBooks
<1>4. CASE \E p \in Parties, c \in Currencies, a \in OpeningAmounts : PostOpening(p, c, a)
  BY <1>4, PostOpeningPosts, OtherKeepsBooks
<1>5. CASE \E id \in Rows : VoidVoucher(id)
  BY <1>1, <1>5, CorrectionsShow DEF VoidVoucher, BooksClose
<1>6. CASE \E id \in Rows : DeleteVoucher(id)
  BY <1>1, <1>6, CorrectionsShow DEF DeleteVoucher, BooksClose
<1>7. CASE DataReset
  <2>1. Rows' = {} /\ position' = [c \in Foreign |-> EmptyPosition]
    BY <1>7 DEF DataReset, Rows
  <2>2. ASSUME NEW c \in Foreign
        PROVE  /\ position'[c].quantity = Held(c)' /\ 0 <= position'[c].quantity
               /\ 2 * Off(c)' <= Rounded(c)' /\ -(2 * Off(c)') <= Rounded(c)'
    <3>1. DealsIn(c)' = {}
      BY <2>1 DEF DealsIn, Deals
    <3>2. Held(c)' = 0 /\ Gained(c)' = 0 /\ Rounded(c)' = 0
      BY <3>1, SumEmpty DEF Held, Gained, Rounded
    <3>3. position'[c].quantity = 0 /\ position'[c].avg = 0
      BY <2>1 DEF EmptyPosition
    <3> QED
      BY <3>2, <3>3 DEF Off
  <2> QED
    BY <2>2 DEF BooksClose
<1>8. CASE UNCHANGED <<voucher, position, audit>>
  <2>1. /\ Uncorrected' = Uncorrected /\ Deals' = Deals
        /\ \A id : StockAfter(id)' = StockAfter(id) /\ RoundedTwice(id)' = RoundedTwice(id)
    BY <1>8 DEF Uncorrected, SinceReset, Deals, Rows, StockAfter, RoundedTwice
  <2>2. NeverShort' = NeverShort
    BY <2>1 DEF NeverShort
  <2>3. \A c : DealsIn(c)' = DealsIn(c)
    BY <1>8, <2>1 DEF DealsIn
  <2>4. \A c : Held(c)' = Held(c) /\ Gained(c)' = Gained(c) /\ Rounded(c)' = Rounded(c)
    BY <1>8, <2>1, <2>3 DEF Held, Gained, Rounded
  <2> QED
    BY <1>8, <2>1, <2>2, <2>4 DEF BooksClose, Off
<1>9. CASE \E p \in Parties : ToggleActive(p)
  BY <1>8, <1>9 DEF ToggleActive
<1> QED
  BY <1>2, <1>3, <1>4, <1>5, <1>6, <1>7, <1>8, <1>9 DEF Next, vars

\* In every reachable state in which nothing was corrected or sold short, the stock of a
\* currency stands at what was paid for it, less the cost of what was sold, but for the
\* rounding of the average at each purchase.
THEOREM BooksAlwaysClose == Spec => []BooksClose
<1>1. Init => BooksClose
  BY EmptyBooksClose DEF Init, Rows
<1> QED
  BY <1>1, NextKeepsBooks, Invariance, PTL DEF Spec

-----------------------------------------------------------------------------
(* The reports on trade and profit *)

\* The profit of a period is the profit of its days.
LEMMA DaysMakeProfit ==
  ASSUME TypeOK, NEW date, NEW from, NEW to
  PROVE  LET days == DailyProfitData(date, from, to)
         IN  RealizedOf(OnSide(DealsOf(date, from, to), SELL))
               = SumFunctionOnSet([day \in DOMAIN days |-> days[day].profit], DOMAIN days)
<1> DEFINE deals == DealsOf(date, from, to)
           sales == OnSide(deals, SELL)
           days == DailyProfitData(date, from, to)
           I == {date[id] : id \in deals}
           of(S) == [id \in S |-> voucher[id].deal.realized]
           f == of(sales)
           g == [day \in DOMAIN days |-> days[day].profit]
           onDay(day) == OnSide({id \in deals : date[id] = day}, SELL)
<1>1. /\ IsFiniteSet(deals) /\ sales \subseteq deals /\ IsFiniteSet(sales)
      /\ \A id \in deals : voucher[id].deal \in Deal
  <2>1. deals \subseteq Deals /\ sales \subseteq deals
    BY DEF DealsOf, Deals, OnSide
  <2> HIDE DEF deals, sales
  <2> QED
    BY <2>1, DealsType, FS_Subset
<1>2. DOMAIN days = I /\ \A day \in I : days[day].profit = RealizedOf(onDay(day))
  BY DEF DailyProfitData
<1>3. \A S : RealizedOf(S) = SumFunctionOnSet(of(S), S)
  BY Zenon DEF RealizedOf
<1>4. \A id \in sales : f[id] \in Int
  BY <1>1 DEF Deal
<1>5. ASSUME NEW day \in I
      PROVE  g[day] = SumFunctionOnSet(f, {id \in sales : date[id] = day})
  <2> DEFINE S == onDay(day)
             h == of(S)
  <2>1. S = {id \in sales : date[id] = day}
    BY DEF OnSide
  <2>2. \A id \in S : h[id] = f[id]
    BY <2>1
  <2>3. IsFiniteSet(S)
    BY <1>1, <2>1, FS_Subset
  <2>4. g[day] = SumFunctionOnSet(h, S)
    BY <1>2, <1>3
  <2> HIDE DEF S, h, f
  <2>5. SumFunctionOnSet(h, S) = SumFunctionOnSet(f, S)
    BY <2>2, <2>3, SumEqual
  <2> QED
    BY <2>1, <2>4, <2>5
<1>6. IsFiniteSet(I)
  <2> HIDE DEF deals
  <2> QED
    BY <1>1, ImageFinite
<1>7. \A id \in sales : date[id] \in I
  BY <1>1
<1> HIDE DEF f, g, I, sales, days, of, onDay
<1>8. GroupSums(g, f, sales, date, I)
  BY <1>5, Zenon DEF GroupSums
<1>9. SumFunctionOnSet(f, sales) = SumFunctionOnSet(g, I)
  BY <1>1, <1>4, <1>6, <1>7, <1>8, SumInGroups
<1> QED
  BY <1>2, <1>3, <1>9 DEF f, g, sales, days

\* The trade of all days, currency by currency, is what the deals left.
LEMMA TradeMakesStock ==
  ASSUME TypeOK, NEW date, NEW from, NEW to,
         \A id \in Rows : Within(date[id], from, to), NEW c
  PROVE  LET trade == DailyData(date, from, to)
             traded == {k \in DOMAIN trade : k[2] = c}
         IN  Held(c) = SumFunctionOnSet([k \in traded |-> IF k[3] = BUY THEN trade[k].quantity
                                                          ELSE -trade[k].quantity], traded)
<1> DEFINE trade == DailyData(date, from, to)
           traded == {k \in DOMAIN trade : k[2] = c}
           key == [id \in Deals |-> <<date[id], voucher[id].deal.currency, voucher[id].deal.side>>]
           I == {key[id] : id \in Deals}
           ofKey(k) == {id \in Deals : key[id] = k}
           S == DealsIn(c)
           f == [id \in S |-> SignedQuantity(voucher[id].deal)]
           quantities(T) == [id \in T |-> voucher[id].deal.quantity]
           g == [k \in traded |-> IF k[3] = BUY THEN trade[k].quantity ELSE -trade[k].quantity]
<1>1. /\ IsFiniteSet(Deals) /\ IsFiniteSet(S) /\ S \subseteq Deals
      /\ \A id \in Deals : voucher[id].deal \in Deal
      /\ \A id \in S : f[id] \in Int
  BY DealsType
<1>2. DealsOf(date, from, to) = Deals
  BY DEF DealsOf, Deals
<1>3. /\ DOMAIN trade = I
      /\ \A k \in I : trade[k].quantity = Quantity(ofKey(k))
  <2>1. trade = [k \in {<<date[id], voucher[id].deal.currency, voucher[id].deal.side>> : id \in Deals} |->
                   LET ids == {id \in Deals :
                                 <<date[id], voucher[id].deal.currency, voucher[id].deal.side>> = k}
                   IN  [quantity |-> Quantity(ids), total |-> Turnover(ids),
                        count |-> Cardinality(ids)]]
    BY <1>2 DEF DailyData
  <2>2. /\ I = {<<date[id], voucher[id].deal.currency, voucher[id].deal.side>> : id \in Deals}
        /\ \A k : ofKey(k) = {id \in Deals :
                                <<date[id], voucher[id].deal.currency, voucher[id].deal.side>> = k}
    OBVIOUS
  <2> HIDE DEF trade, I, ofKey
  <2> QED
    BY <2>1, <2>2
<1>4. \A T : Quantity(T) = SumFunctionOnSet(quantities(T), T)
  BY Zenon DEF Quantity
<1>5. \A id \in Deals : /\ key[id][2] = voucher[id].deal.currency
                        /\ key[id][3] = voucher[id].deal.side
                        /\ key[id] \in I
  OBVIOUS
<1>6. IsFiniteSet(traded)
  <2> HIDE DEF key, trade
  <2>1. IsFiniteSet(I)
    BY <1>1, ImageFinite
  <2> QED
    BY <1>3, <2>1, FS_Subset
<1>7. ASSUME NEW k \in traded
      PROVE  g[k] = SumFunctionOnSet(f, {id \in S : key[id] = k})
  <2> DEFINE T == ofKey(k)
             h == quantities(T)
  <2>1. T = {id \in S : key[id] = k}
    BY <1>1, <1>5 DEF DealsIn
  <2>2. IsFiniteSet(T) /\ T \subseteq S
    BY <1>1, <2>1, FS_Subset
  <2>3. \A id \in T : h[id] = voucher[id].deal.quantity /\ h[id] \in Int
    BY <1>1, <2>2 DEF Deal
  <2>4. k \in I /\ trade[k].quantity = SumFunctionOnSet(h, T)
    BY <1>3, <1>4
  <2>5. \A id \in T : voucher[id].deal.side = k[3]
    BY <1>5
  <2>6. \A id \in T : f[id] = IF k[3] = BUY THEN h[id] ELSE -h[id]
    BY <2>2, <2>3, <2>5 DEF SignedQuantity
  <2>7. g[k] = IF k[3] = BUY THEN trade[k].quantity ELSE -trade[k].quantity
    OBVIOUS
  <2> HIDE DEF T, h, f, g, trade, I, key
  <2>8. CASE k[3] = BUY
    <3>1. SumFunctionOnSet(h, T) = SumFunctionOnSet(f, T)
      BY <2>2, <2>6, <2>8, SumEqual
    <3> QED
      BY <2>1, <2>4, <2>7, <2>8, <3>1
  <2>9. CASE k[3] # BUY
    <3>1. SumFunctionOnSet(f, T) = -SumFunctionOnSet(h, T)
      BY <2>2, <2>3, <2>6, <2>9, SumNegative
    <3> QED
      BY <2>1, <2>4, <2>7, <2>9, <3>1
  <2> QED
    BY <2>8, <2>9
<1>8. \A id \in S : key[id] \in traded
  BY <1>1, <1>3, <1>5 DEF DealsIn
<1>9. Held(c) = SumFunctionOnSet(f, S)
  BY DEF Held
<1> HIDE DEF f, g, S, key, traded, trade, I, ofKey, quantities
<1>10. GroupSums(g, f, S, key, traded)
  BY <1>7, Zenon DEF GroupSums
<1>11. SumFunctionOnSet(f, S) = SumFunctionOnSet(g, traded)
  BY <1>1, <1>6, <1>8, <1>10, SumInGroups
<1> QED
  BY <1>9, <1>11 DEF g, traded, trade

-----------------------------------------------------------------------------
(* Where net worth comes from *)

\* What a deal pays the house and its customers in base currency, and what it brings
\* them in any currency.
Receipt(deal) ==
  IF deal.side = SELL THEN deal.quantity * deal.price ELSE -(deal.quantity * deal.price)

Brings(deal, c) ==
  IF c = deal.currency THEN SignedQuantity(deal) ELSE IF c = Base THEN Receipt(deal) ELSE 0

Outside == OfKind(HouseKinds \cup {"customer"})

LEMMA OutsideIs ==
  /\ Outside \in SUBSET Parties /\ IsFiniteSet(Outside)
  /\ \A p \in Parties : p \in Outside <=> IsHouse(p) \/ IsCustomer(p)
  /\ \A c \in Currencies : PositionFor(c) \notin Outside
<1>1. Outside \in SUBSET Parties
  BY DEF Outside, OfKind
<1>2. IsFiniteSet(Outside)
  BY <1>1, TablesAssumption, FS_Subset
<1>3. \A p \in Parties : p \in Outside <=> IsHouse(p) \/ IsCustomer(p)
  BY DEF Outside, OfKind, IsHouse, IsCustomer
<1>4. \A c \in Currencies : KindOf[PositionFor(c)] = "position"
  BY PartiesAssumption DEF PositionFor
<1>5. \A c \in Currencies : PositionFor(c) \notin Outside
  BY <1>4 DEF Outside, OfKind, HouseKinds
<1> QED
  BY <1>1, <1>2, <1>3, <1>5

LEMMA DealBrings ==
  ASSUME NEW row, Shaped(row), row.deal # None, NEW c \in Currencies,
         row.lines \in Seq(Line),
         NEW f, \A p \in Outside : f[p] = AccountTotal(row.lines, p, c)
  PROVE  SumFunctionOnSet(f, Outside) = Brings(row.deal, c)
<1> DEFINE d == row.deal
           lines == row.lines
           total == d.quantity * d.price
<1>1. /\ d \in Deal /\ IsCustomer(d.counterparty) /\ d.currency \in Foreign
      /\ \E delivery, settle \in Parties :
           /\ delivery = d.counterparty \/ IsHouse(delivery)
           /\ settle = d.counterparty \/ IsHouse(settle)
           /\ lines = DealLines(d.side, d.currency, delivery, settle, d.quantity, total)
  BY DEF Shaped
<1>2. PICK delivery \in Parties, settle \in Parties :
        /\ delivery = d.counterparty \/ IsHouse(delivery)
        /\ settle = d.counterparty \/ IsHouse(settle)
        /\ lines = DealLines(d.side, d.currency, delivery, settle, d.quantity, total)
  BY <1>1
<1>3. delivery \in Outside /\ settle \in Outside
  BY <1>1, <1>2, OutsideIs
<1>4. PositionFor(d.currency) \notin Outside /\ PositionFor(Base) \notin Outside
  BY <1>1, OutsideIs, PartiesAssumption DEF Foreign
<1>5. /\ d.currency # Base /\ d.side \in {BUY, SELL} /\ BUY # SELL
      /\ d.quantity \in Int /\ d.price \in Int /\ total \in Int
  BY <1>1 DEF Foreign, Deal, Sides, BUY, SELL
<1> DEFINE shares == ShareAt(lines, 1, c, Outside) + ShareAt(lines, 2, c, Outside)
                       + ShareAt(lines, 3, c, Outside) + ShareAt(lines, 4, c, Outside)
<1>6. SumFunctionOnSet(f, Outside) = shares
  BY OutsideIs, AccountsShare
<1>7. CASE d.side = SELL
  <2>1. /\ DOMAIN lines = {1, 2, 3, 4}
        /\ lines[1] = Entry(PositionFor(d.currency), d.currency, d.quantity)
        /\ lines[2] = Entry(delivery, d.currency, -d.quantity)
        /\ lines[3] = Entry(settle, Base, total)
        /\ lines[4] = Entry(PositionFor(Base), Base, -total)
    BY <1>2, <1>7 DEF DealLines
  <2>2. /\ ShareAt(lines, 1, c, Outside) = 0 /\ ShareAt(lines, 4, c, Outside) = 0
        /\ ShareAt(lines, 2, c, Outside) = IF d.currency = c THEN -d.quantity ELSE 0
        /\ ShareAt(lines, 3, c, Outside) = IF Base = c THEN total ELSE 0
    <3> HIDE DEF lines, total
    <3> QED
      BY <1>3, <1>4, <2>1 DEF ShareAt, AmountAt, Entry
  <2>3. Brings(d, c) = IF c = d.currency THEN -d.quantity ELSE IF c = Base THEN total ELSE 0
    BY <1>5, <1>7 DEF Brings, SignedQuantity, Receipt
  <2> HIDE DEF lines, total
  <2> QED
    BY <1>5, <1>6, <2>2, <2>3
<1>8. CASE d.side = BUY
  <2>1. /\ DOMAIN lines = {1, 2, 3, 4}
        /\ lines[1] = Entry(delivery, d.currency, d.quantity)
        /\ lines[2] = Entry(PositionFor(d.currency), d.currency, -d.quantity)
        /\ lines[3] = Entry(PositionFor(Base), Base, total)
        /\ lines[4] = Entry(settle, Base, -total)
    BY <1>2, <1>5, <1>8 DEF DealLines
  <2>2. /\ ShareAt(lines, 2, c, Outside) = 0 /\ ShareAt(lines, 3, c, Outside) = 0
        /\ ShareAt(lines, 1, c, Outside) = IF d.currency = c THEN d.quantity ELSE 0
        /\ ShareAt(lines, 4, c, Outside) = IF Base = c THEN -total ELSE 0
    <3> HIDE DEF lines, total
    <3> QED
      BY <1>3, <1>4, <2>1 DEF ShareAt, AmountAt, Entry
  <2>3. Brings(d, c) = IF c = d.currency THEN d.quantity ELSE IF c = Base THEN -total ELSE 0
    BY <1>5, <1>8 DEF Brings, SignedQuantity, Receipt
  <2> HIDE DEF lines, total
  <2> QED
    BY <1>5, <1>6, <2>2, <2>3
<1> QED
  BY <1>5, <1>7, <1>8

Moved(c) == SumFunctionOnSet([id \in Deals |-> Brings(voucher[id].deal, c)], Deals)

LEMMA ReceiptType ==
  ASSUME NEW deal \in Deal, NEW c
  PROVE  Receipt(deal) \in Int /\ Brings(deal, c) \in Int
<1>1. deal.quantity \in Int /\ deal.price \in Int
  BY DEF Deal
<1>2. deal.quantity * deal.price \in Int
  BY <1>1
<1> QED
  BY <1>1, <1>2 DEF Receipt, Brings, SignedQuantity

\* What the deals brought the house and its customers, account by account.
LEMMA DealsMove ==
  ASSUME IInv, RowsFormed, NEW c \in Currencies,
         NEW h, \A p \in Outside : h[p] = BalanceOf(Deals, p, c)
  PROVE  SumFunctionOnSet(h, Outside) = Moved(c)
<1> DEFINE v == [p \in Outside |-> [id \in Deals |-> AccountTotal(voucher[id].lines, p, c)]]
           byColumn == [id \in Deals |-> Brings(voucher[id].deal, c)]
<1>1. IsFiniteSet(Outside) /\ IsFiniteSet(Deals) /\ Outside \in SUBSET Parties
  BY OutsideIs, DealsType DEF IInv
<1>2. \A id \in Deals : voucher[id].lines \in Seq(Line) /\ Shaped(voucher[id]) /\ voucher[id].deal # None
  BY DEF IInv, TypeOK, Row, Deals, RowsFormed, Formed
<1>3. IntTable(v, Outside, Deals)
  <2>1. \A p \in Outside, id \in Deals : AccountTotal(voucher[id].lines, p, c) \in Int
    BY <1>1, <1>2, AccountTotalType
  <2> QED
    BY <2>1 DEF IntTable
<1>4. RowSums(h, v, Outside, Deals)
  <2>1. \A p \in Outside : h[p] = SumFunctionOnSet(v[p], Deals)
    BY Zenon DEF BalanceOf
  <2> QED
    BY <2>1, Zenon DEF RowSums
<1>5. \A id \in Deals : byColumn[id] = SumFunctionOnSet([p \in Outside |-> v[p][id]], Outside)
  <2> SUFFICES ASSUME NEW id \in Deals
               PROVE  byColumn[id] = SumFunctionOnSet([p \in Outside |-> v[p][id]], Outside)
    OBVIOUS
  <2> DEFINE f == [p \in Outside |-> v[p][id]]
  <2>1. \A p \in Outside : f[p] = AccountTotal(voucher[id].lines, p, c)
    OBVIOUS
  <2>2. byColumn[id] = Brings(voucher[id].deal, c)
    OBVIOUS
  <2> HIDE DEF f, v, byColumn
  <2>3. SumFunctionOnSet(f, Outside) = Brings(voucher[id].deal, c)
    BY <1>2, <2>1, DealBrings
  <2> QED
    BY <2>2, <2>3 DEF f
<1>6. Moved(c) = SumFunctionOnSet(byColumn, Deals)
  BY DEF Moved
<1> HIDE DEF v, byColumn
<1>7. ColumnSums(byColumn, v, Outside, Deals)
  BY <1>5, Zenon DEF ColumnSums
<1> QED
  BY <1>1, <1>3, <1>4, <1>6, <1>7, SumSwap

LEMMA BalanceOfDeals ==
  ASSUME IInv, NEW p \in Parties, NEW c \in Currencies
  PROVE  /\ BalanceOf(Rows \ Deals, p, c) \in Int /\ BalanceOf(Deals, p, c) \in Int
         /\ Balance(p, c) = BalanceOf(Rows \ Deals, p, c) + BalanceOf(Deals, p, c)
<1> DEFINE S == Rows \ Deals
           T == Deals
<1>1. S \in SUBSET Rows /\ T \in SUBSET Rows /\ S \cap T = {} /\ S \cup T = Rows
  BY DEF Deals
<1> HIDE DEF S, T
<1>2. /\ BalanceOf(S, p, c) \in Int /\ BalanceOf(T, p, c) \in Int
      /\ BalanceOf(S \cup T, p, c) = BalanceOf(S, p, c) + BalanceOf(T, p, c)
  <2>1. ASSUME NEW U \in SUBSET Rows, NEW V \in SUBSET Rows, U \cap V = {}
        PROVE  /\ BalanceOf(U, p, c) \in Int /\ BalanceOf(V, p, c) \in Int
               /\ BalanceOf(U \cup V, p, c) = BalanceOf(U, p, c) + BalanceOf(V, p, c)
    BY <2>1, BalanceJoins
  <2> QED
    BY <1>1, <2>1, Zenon
<1> QED
  BY <1>1, <1>2 DEF Balance, S, T

\* The net worth in a currency is what was brought in and what the deals moved.
LEMMA WorthSplits ==
  ASSUME IInv, RowsFormed, NEW c \in Currencies
  PROVE  /\ Brought[c] \in Int /\ Moved(c) \in Int
         /\ TotalOver(OfKind(HouseKinds))[c] + TotalOver(OfKind({"customer"}))[c]
              = Brought[c] + Moved(c)
<1> DEFINE H == OfKind(HouseKinds)
           C == OfKind({"customer"})
           others == [p \in Outside |-> BalanceOf(Rows \ Deals, p, c)]
           deals == [p \in Outside |-> BalanceOf(Deals, p, c)]
           all == [p \in Outside |-> Balance(p, c)]
<1>1. /\ H \in SUBSET Parties /\ C \in SUBSET Parties /\ H \cap C = {} /\ H \cup C = Outside
  BY DEF OfKind, HouseKinds, Outside
<1>2. Outside \in SUBSET Parties /\ IsFiniteSet(Outside)
  BY OutsideIs
<1>3. \A p \in Outside : others[p] \in Int /\ deals[p] \in Int /\ all[p] = others[p] + deals[p]
  <2> HIDE DEF H, C
  <2> QED
    BY <1>2, BalanceOfDeals
<1>4. Brought[c] = SumFunctionOnSet(others, Outside)
  BY DEF Brought, Outside
<1>5. \A p \in Outside : all[p] = Balance(p, c) /\ deals[p] = BalanceOf(Deals, p, c)
  OBVIOUS
<1> HIDE DEF others, deals, all, H, C
<1>6. SumFunctionOnSet(all, Outside) = SumFunctionOnSet(others, Outside) + SumFunctionOnSet(deals, Outside)
  BY <1>2, <1>3, SumPlus
<1>7. SumFunctionOnSet(deals, Outside) = Moved(c)
  BY <1>5, DealsMove
<1>8. SumFunctionOnSet(all, Outside) = TotalOver(Outside)[c]
  BY <1>2, <1>5, TotalIs
<1>9. TotalOver(H \cup C)[c] = TotalOver(H)[c] + TotalOver(C)[c]
  BY <1>1, TotalsJoin, Zenon
<1>10. SumFunctionOnSet(others, Outside) \in Int /\ SumFunctionOnSet(deals, Outside) \in Int
  BY <1>2, <1>3, SumInt
<1> QED
  BY <1>1, <1>4, <1>6, <1>7, <1>8, <1>9, <1>10 DEF H, C

\* The deals moved their stock in a foreign currency, and their receipts in the base one.
LEMMA MovedIs ==
  ASSUME TypeOK, RowsFormed
  PROVE  /\ \A c \in Foreign : Moved(c) = Held(c)
         /\ \A id \in Deals : voucher[id].deal.currency \in Foreign
         /\ Moved(Base) = SumFunctionOnSet([id \in Deals |-> Receipt(voucher[id].deal)], Deals)
<1>1. \A id \in Deals : voucher[id].deal \in Deal /\ voucher[id].deal.currency \in Foreign
  <2>1. \A id \in Deals : id \in Rows /\ voucher[id].deal # None
    BY DEF Deals
  <2>2. \A id \in Rows : Shaped(voucher[id])
    BY DEF RowsFormed, Formed
  <2> QED
    BY <2>1, <2>2, DealsType DEF Shaped
<1>2. ASSUME NEW c \in Foreign PROVE Moved(c) = Held(c)
  <2> DEFINE S == DealsIn(c)
             f == [id \in Deals |-> Brings(voucher[id].deal, c)]
             g == [id \in S |-> SignedQuantity(voucher[id].deal)]
  <2>1. IsFiniteSet(Deals) /\ S \subseteq Deals /\ IsFiniteSet(S)
    BY DealsType
  <2>2. \A id \in Deals : f[id] \in Int
    BY <1>1, ReceiptType
  <2>3. \A id \in Deals \ S : f[id] = 0
    BY DEF Brings, DealsIn, Foreign
  <2>4. \A id \in S : f[id] = g[id]
    BY <2>1 DEF Brings, DealsIn
  <2>5. Moved(c) = SumFunctionOnSet(f, Deals) /\ Held(c) = SumFunctionOnSet(g, S)
    BY DEF Moved, Held
  <2> HIDE DEF f, g, S
  <2>6. SumFunctionOnSet(f, Deals) = SumFunctionOnSet(f, S)
    BY <2>1, <2>2, <2>3, SumIgnore
  <2>7. SumFunctionOnSet(f, S) = SumFunctionOnSet(g, S)
    BY <2>1, <2>4, SumEqual
  <2> QED
    BY <2>5, <2>6, <2>7
<1>3. Moved(Base) = SumFunctionOnSet([id \in Deals |-> Receipt(voucher[id].deal)], Deals)
  <2> DEFINE f == [id \in Deals |-> Brings(voucher[id].deal, Base)]
             g == [id \in Deals |-> Receipt(voucher[id].deal)]
  <2>1. \A id \in Deals : f[id] = g[id]
    BY <1>1 DEF Brings, Foreign
  <2>2. IsFiniteSet(Deals) /\ Moved(Base) = SumFunctionOnSet(f, Deals)
    BY DealsType DEF Moved
  <2> HIDE DEF f, g
  <2>3. SumFunctionOnSet(f, Deals) = SumFunctionOnSet(g, Deals)
    BY <2>1, <2>2, SumEqual
  <2> QED
    BY <2>2, <2>3 DEF g
<1> QED
  BY <1>1, <1>2, <1>3

-----------------------------------------------------------------------------
(* The net worth is explained by the profit *)

LEMMA MovedType ==
  ASSUME TypeOK, NEW c
  PROVE  Moved(c) \in Int
<1> DEFINE f == [id \in Deals |-> Brings(voucher[id].deal, c)]
<1>1. IsFiniteSet(Deals) /\ \A id \in Deals : f[id] \in Int
  BY DealsType, ReceiptType
<1>2. Moved(c) = SumFunctionOnSet(f, Deals)
  BY DEF Moved
<1> HIDE DEF f
<1> QED
  BY <1>1, <1>2, SumInt

LEMMA BaseRate ==
  ASSUME NEW rate \in RateMaps
  PROVE  rate[Base] = 1
<1>1. PICK history \in RateHistories : rate = LatestRateMap(history)
  BY DEF RateMaps
<1> QED
  BY <1>1, PartiesAssumption DEF LatestRateMap, LatestRate

LEMMA ForeignFinite ==
  /\ IsFiniteSet(Foreign) /\ Foreign \subseteq Currencies /\ Base \in Currencies
  /\ Foreign = Currencies \ {Base}
<1>1. Foreign = Currencies \ {Base} /\ Foreign \subseteq Currencies
  BY DEF Foreign
<1> QED
  BY <1>1, TablesAssumption, PartiesAssumption, FS_Subset

\* What the deals moved, at the latest rates: base currency, and the stock.
LEMMA MovedValue ==
  ASSUME TypeOK, RowsFormed, NEW rate \in RateMaps, Known(rate) = Currencies,
         NEW moved, \A c \in Currencies : moved[c] = Moved(c),
         NEW h, \A c \in Foreign : h[c] = Held(c) * rate[c]
  PROVE  /\ \A c \in Foreign : h[c] \in Int
         /\ ValueInBase(moved, rate).total = Moved(Base) + SumFunctionOnSet(h, Foreign)
<1> DEFINE f == [c \in Currencies |-> moved[c] * rate[c]]
<1>1. \A c \in Currencies : moved[c] \in Int
  BY MovedType
<1>2. \A c \in Known(rate) : f[c] = moved[c] * rate[c]
  OBVIOUS
<1>3. f[Base] = Moved(Base)
  <2>1. f[Base] = Moved(Base) * 1
    BY BaseRate, ForeignFinite
  <2> QED
    BY <2>1, MovedType
<1>4. \A c \in Foreign : f[c] = h[c]
  BY MovedIs, ForeignFinite
<1> HIDE DEF f
<1>5. /\ \A c \in Known(rate) : f[c] \in Int
      /\ SumFunctionOnSet(f, Known(rate)) = ValueInBase(moved, rate).total
  BY <1>1, <1>2, ValueIs
<1>6. SumFunctionOnSet(f, Currencies) = f[Base] + SumFunctionOnSet(f, Currencies \ {Base})
  BY <1>5, TablesAssumption, ForeignFinite, SumRemove
<1>7. SumFunctionOnSet(f, Foreign) = SumFunctionOnSet(h, Foreign)
  BY <1>4, ForeignFinite, SumEqual
<1>8. \A c \in Foreign : h[c] \in Int
  BY <1>4, <1>5, ForeignFinite
<1> QED
  BY <1>3, <1>5, <1>6, <1>7, <1>8, ForeignFinite

\* The deals by their currency.
LEMMA ByCurrency ==
  ASSUME TypeOK, RowsFormed, NEW f, \A id \in Deals : f[id] \in Int,
         NEW g, \A c \in Foreign : g[c] = SumFunctionOnSet(f, DealsIn(c))
  PROVE  SumFunctionOnSet(f, Deals) = SumFunctionOnSet(g, Foreign)
<1> DEFINE m == [id \in Deals |-> voucher[id].deal.currency]
<1>1. IsFiniteSet(Deals) /\ IsFiniteSet(Foreign) /\ \A id \in Deals : m[id] \in Foreign
  BY DealsType, ForeignFinite, MovedIs
<1>2. \A c \in Foreign : g[c] = SumFunctionOnSet(f, {id \in Deals : m[id] = c})
  <2> SUFFICES ASSUME NEW c \in Foreign
               PROVE  g[c] = SumFunctionOnSet(f, {id \in Deals : m[id] = c})
    OBVIOUS
  <2>1. DealsIn(c) = {id \in Deals : m[id] = c}
    BY DEF DealsIn
  <2> QED
    BY <2>1
<1> HIDE DEF m
<1>3. GroupSums(g, f, Deals, m, Foreign)
  BY <1>2, Zenon DEF GroupSums
<1> QED
  BY <1>1, <1>3, SumInGroups

LEMMA GainsAddUp ==
  ASSUME TypeOK, RowsFormed, NEW g, \A c \in Foreign : g[c] = Gained(c)
  PROVE  /\ RealizedOf(OnSide(Deals, SELL)) \in Int
         /\ SumFunctionOnSet(g, Foreign) = Moved(Base) - RealizedOf(OnSide(Deals, SELL))
<1> DEFINE sales == OnSide(Deals, SELL)
           receipts == [id \in Deals |-> Receipt(voucher[id].deal)]
           booked == [id \in Deals |-> IF voucher[id].deal.side = SELL
                                       THEN voucher[id].deal.realized ELSE 0]
           realized == [id \in sales |-> voucher[id].deal.realized]
           f == [id \in Deals |-> Gain(voucher[id].deal)]
<1>1. IsFiniteSet(Deals) /\ \A id \in Deals : voucher[id].deal \in Deal
  BY DealsType
<1>2. sales \subseteq Deals /\ \A id \in Deals : id \in sales <=> voucher[id].deal.side = SELL
  BY DEF OnSide
<1>3. \A id \in Deals : receipts[id] \in Int /\ booked[id] \in Int
  BY <1>1, ReceiptType DEF Deal
<1>4. \A id \in Deals : f[id] = receipts[id] - booked[id]
  <2> SUFFICES ASSUME NEW id \in Deals PROVE f[id] = receipts[id] - booked[id]
    OBVIOUS
  <2>1. /\ voucher[id].deal.quantity \in Int /\ voucher[id].deal.price \in Int
        /\ voucher[id].deal.realized \in Int
    BY <1>1 DEF Deal
  <2>2. voucher[id].deal.quantity * voucher[id].deal.price \in Int
    BY <2>1
  <2> QED
    BY <2>1, <2>2 DEF Gain, Receipt
<1>5. \A id \in Deals \ sales : booked[id] = 0
  BY <1>2
<1>6. \A id \in sales : booked[id] = realized[id]
  BY <1>2
<1>7. RealizedOf(OnSide(Deals, SELL)) = SumFunctionOnSet(realized, sales)
  BY Zenon DEF RealizedOf
<1>8. Moved(Base) = SumFunctionOnSet(receipts, Deals)
  BY MovedIs
<1>9. \A c \in Foreign : g[c] = SumFunctionOnSet(f, DealsIn(c))
  <2> SUFFICES ASSUME NEW c \in Foreign PROVE g[c] = SumFunctionOnSet(f, DealsIn(c))
    OBVIOUS
  <2> DEFINE own == [id \in DealsIn(c) |-> Gain(voucher[id].deal)]
  <2>1. IsFiniteSet(DealsIn(c)) /\ DealsIn(c) \subseteq Deals
    BY DealsType
  <2>2. \A id \in DealsIn(c) : own[id] = f[id]
    BY <2>1
  <2>3. g[c] = SumFunctionOnSet(own, DealsIn(c))
    BY DEF Gained
  <2> HIDE DEF own, f
  <2>4. SumFunctionOnSet(own, DealsIn(c)) = SumFunctionOnSet(f, DealsIn(c))
    BY <2>1, <2>2, SumEqual
  <2> QED
    BY <2>3, <2>4
<1> HIDE DEF receipts, booked, realized, f, sales
<1>10. IsFiniteSet(sales) /\ \A id \in Deals : f[id] \in Int
  BY <1>1, <1>2, <1>3, <1>4, FS_Subset
<1>11. SumFunctionOnSet(f, Deals) = SumFunctionOnSet(receipts, Deals) - SumFunctionOnSet(booked, Deals)
  BY <1>1, <1>3, <1>4, SumDifference
<1>12. SumFunctionOnSet(booked, Deals) = SumFunctionOnSet(booked, sales)
  BY <1>1, <1>2, <1>3, <1>5, SumIgnore
<1>13. SumFunctionOnSet(booked, sales) = SumFunctionOnSet(realized, sales)
  BY <1>6, <1>10, SumEqual
<1>14. SumFunctionOnSet(booked, Deals) \in Int
  BY <1>1, <1>3, SumInt
<1>15. SumFunctionOnSet(f, Deals) = SumFunctionOnSet(g, Foreign)
  BY <1>9, <1>10, ByCurrency
<1> QED
  BY <1>7, <1>8, <1>11, <1>12, <1>13, <1>14, <1>15

LEMMA RoundingsAddUp ==
  ASSUME TypeOK, RowsFormed, NEW g, \A c \in Foreign : g[c] = Rounded(c)
  PROVE  /\ SumFunctionOnSet([id \in Deals |-> RoundedTwice(id)], Deals) \in Int
         /\ SumFunctionOnSet(g, Foreign)
              = SumFunctionOnSet([id \in Deals |-> RoundedTwice(id)], Deals)
<1> DEFINE f == [id \in Deals |-> RoundedTwice(id)]
<1>1. IsFiniteSet(Deals) /\ \A id \in Deals : f[id] \in Int
  BY DealsType, StockAfterType
<1>2. \A c \in Foreign : g[c] = SumFunctionOnSet(f, DealsIn(c))
  <2> SUFFICES ASSUME NEW c \in Foreign PROVE g[c] = SumFunctionOnSet(f, DealsIn(c))
    OBVIOUS
  <2> DEFINE own == [id \in DealsIn(c) |-> RoundedTwice(id)]
  <2>1. IsFiniteSet(DealsIn(c)) /\ DealsIn(c) \subseteq Deals
    BY DealsType
  <2>2. \A id \in DealsIn(c) : own[id] = f[id]
    BY <2>1
  <2>3. g[c] = SumFunctionOnSet(own, DealsIn(c))
    BY DEF Rounded
  <2> HIDE DEF own, f
  <2>4. SumFunctionOnSet(own, DealsIn(c)) = SumFunctionOnSet(f, DealsIn(c))
    BY <2>1, <2>2, SumEqual
  <2> QED
    BY <2>3, <2>4
<1> HIDE DEF f
<1>3. SumFunctionOnSet(f, Deals) = SumFunctionOnSet(g, Foreign)
  BY <1>1, <1>2, ByCurrency
<1>4. SumFunctionOnSet(f, Deals) \in Int
  BY <1>1, SumInt
<1> QED
  BY <1>3, <1>4 DEF f

LEMMA ValueInt ==
  ASSUME NEW rate \in RateMaps, NEW amounts, \A c \in Currencies : amounts[c] \in Int
  PROVE  ValueInBase(amounts, rate).total \in Int
<1> DEFINE f == [c \in Known(rate) |-> amounts[c] * rate[c]]
<1>1. \A c \in Known(rate) : f[c] = amounts[c] * rate[c]
  OBVIOUS
<1> HIDE DEF f
<1> QED
  BY <1>1, ValueIs

\* The gap between the net worth and what explains it is the sum of what the stock of each
\* currency is off.
LEMMA GapIsOff ==
  ASSUME IInv, RowsFormed, \A c \in Foreign : position[c].quantity = Held(c),
         NEW rate \in RateMaps, Known(rate) = Currencies,
         NEW off, \A c \in Foreign : off[c] = Off(c)
  PROVE  /\ \A c \in Foreign : off[c] \in Int
         /\ SumFunctionOnSet(off, Foreign)
              = NetWorthSnapshot(rate).total - ValueInBase(Brought, rate).total
                  - (RealizedOf(OnSide(Deals, SELL)) + Unrealized(rate))
<1> DEFINE house == TotalOver(OfKind(HouseKinds))
           customers == TotalOver(OfKind({"customer"}))
           net == [c \in Currencies |-> house[c] + customers[c]]
           moved == [c \in Currencies |-> Moved(c)]
           h == [c \in Foreign |-> Held(c) * rate[c]]
           u == [c \in Foreign |-> (rate[c] - position[c].avg) * position[c].quantity]
           w == [c \in Foreign |-> position[c].quantity * position[c].avg]
           gained == [c \in Foreign |-> Gained(c)]
<1>1. TypeOK /\ IsFiniteSet(Foreign) /\ Foreign \subseteq Currencies
  BY ForeignFinite DEF IInv
<1>2. \A c \in Currencies : /\ Brought[c] \in Int /\ moved[c] \in Int
                           /\ net[c] = Brought[c] + moved[c]
  BY WorthSplits
<1>3. NetWorthSnapshot(rate).total = ValueInBase(net, rate).total
  BY DEF NetWorthSnapshot
<1>4. \A c \in Currencies : moved[c] = Moved(c)
  OBVIOUS
<1>5. \A c \in Foreign : /\ h[c] = Held(c) * rate[c] /\ gained[c] = Gained(c)
  OBVIOUS
<1>6. \A c \in Foreign : /\ u[c] \in Int /\ w[c] \in Int /\ h[c] \in Int /\ gained[c] \in Int
                        /\ w[c] = h[c] - u[c] /\ off[c] = gained[c] + w[c]
  <2> SUFFICES ASSUME NEW c \in Foreign
               PROVE  /\ u[c] \in Int /\ w[c] \in Int /\ h[c] \in Int /\ gained[c] \in Int
                      /\ w[c] = h[c] - u[c] /\ off[c] = gained[c] + w[c]
    OBVIOUS
  <2> DEFINE q == position[c].quantity
             a == position[c].avg
             r == rate[c]
  <2>1. q \in Int /\ a \in Int /\ r \in Int /\ Gained(c) \in Int
    BY <1>1, KnownRates, BookTypes DEF TypeOK, Position
  <2>2. u[c] = (r - a) * q /\ w[c] = q * a /\ h[c] = q * r
    OBVIOUS
  <2>3. off[c] = Gained(c) + w[c]
    BY DEF Off
  <2> HIDE DEF q, a, r, u, w, h
  <2>4. q * a \in Int /\ q * r \in Int /\ (r - a) * q = q * r - q * a
    BY ONLY <2>1
  <2> QED
    BY <2>1, <2>2, <2>3, <2>4
<1>7. Unrealized(rate) = SumFunctionOnSet(u, Foreign)
  <2>1. Foreign \cap Known(rate) = Foreign
    BY <1>1
  <2> QED
    BY <2>1, Zenon DEF Unrealized
<1> HIDE DEF net, moved, h, u, w, gained, house, customers
<1>8. ValueInBase(net, rate).total = ValueInBase(Brought, rate).total + ValueInBase(moved, rate).total
  BY <1>2, ValuesJoin
<1>9. ValueInBase(moved, rate).total = Moved(Base) + SumFunctionOnSet(h, Foreign)
  BY <1>1, <1>4, <1>5, MovedValue
<1>10. SumFunctionOnSet(w, Foreign) = SumFunctionOnSet(h, Foreign) - SumFunctionOnSet(u, Foreign)
  BY <1>1, <1>6, SumDifference
<1>11. SumFunctionOnSet(off, Foreign) = SumFunctionOnSet(gained, Foreign) + SumFunctionOnSet(w, Foreign)
  BY <1>1, <1>6, SumPlus
<1>12. /\ RealizedOf(OnSide(Deals, SELL)) \in Int
       /\ SumFunctionOnSet(gained, Foreign) = Moved(Base) - RealizedOf(OnSide(Deals, SELL))
  BY <1>1, <1>5, GainsAddUp
<1>13. SumFunctionOnSet(h, Foreign) \in Int /\ SumFunctionOnSet(u, Foreign) \in Int
  BY <1>1, <1>6, SumInt
<1>14. Moved(Base) \in Int
  BY <1>1, MovedType
<1>15. ValueInBase(Brought, rate).total \in Int
  BY <1>2, ValueInt
<1>16. \A c \in Foreign : off[c] \in Int
  BY <1>6
<1> QED
  BY <1>3, <1>7, <1>8, <1>9, <1>10, <1>11, <1>12, <1>13, <1>14, <1>15, <1>16

LEMMA GapIsBounded ==
  ASSUME IInv, RowsFormed, BooksClose, Uncorrected, NeverShort,
         NEW rate \in RateMaps, Known(rate) = Currencies,
         NEW gap, gap = NetWorthSnapshot(rate).total - ValueInBase(Brought, rate).total
                          - (RealizedOf(OnSide(Deals, SELL)) + Unrealized(rate)),
         NEW rounding, rounding = SumFunctionOnSet([id \in Deals |-> RoundedTwice(id)], Deals)
  PROVE  2 * gap <= rounding /\ -(2 * gap) <= rounding
<1> DEFINE off == [c \in Foreign |-> Off(c)]
           twice == [c \in Foreign |-> Off(c) * 2]
           back == [c \in Foreign |-> Off(c) * (-2)]
           rounded == [c \in Foreign |-> Rounded(c)]
<1>1. TypeOK /\ IsFiniteSet(Foreign)
  BY ForeignFinite DEF IInv
<1>2. \A c \in Foreign : /\ position[c].quantity = Held(c)
                        /\ 2 * Off(c) <= Rounded(c) /\ -(2 * Off(c)) <= Rounded(c)
  BY DEF BooksClose
<1>3. \A c \in Foreign : /\ off[c] = Off(c) /\ rounded[c] = Rounded(c)
                        /\ twice[c] = off[c] * 2 /\ back[c] = off[c] * (-2)
  OBVIOUS
<1> HIDE DEF off, twice, back, rounded
<1>4. (\A c \in Foreign : off[c] \in Int) /\ SumFunctionOnSet(off, Foreign) = gap
  BY <1>2, <1>3, GapIsOff
<1>5. SumFunctionOnSet(rounded, Foreign) = rounding /\ rounding \in Int
  BY <1>1, <1>3, RoundingsAddUp
<1>6. \A c \in Foreign : /\ rounded[c] \in Int /\ twice[c] \in Int /\ back[c] \in Int
                        /\ twice[c] <= rounded[c] /\ back[c] <= rounded[c]
  BY <1>1, <1>2, <1>3, <1>4, BookTypes
<1>7. /\ SumFunctionOnSet(twice, Foreign) = SumFunctionOnSet(off, Foreign) * 2
      /\ 2 \in Int /\ -2 \in Int
  BY <1>1, <1>3, <1>4, SumScale
<1>8. SumFunctionOnSet(back, Foreign) = SumFunctionOnSet(off, Foreign) * (-2)
  BY <1>1, <1>3, <1>4, <1>7, SumScale
<1>9. SumFunctionOnSet(twice, Foreign) <= SumFunctionOnSet(rounded, Foreign)
  BY <1>1, <1>6, SumBelow
<1>10. SumFunctionOnSet(back, Foreign) <= SumFunctionOnSet(rounded, Foreign)
  BY <1>1, <1>6, SumBelow
<1>11. SumFunctionOnSet(off, Foreign) \in Int
  BY <1>1, <1>4, SumInt
<1> QED
  BY <1>4, <1>5, <1>7, <1>8, <1>9, <1>10, <1>11

\* The reports on profit, trade and net worth tell one story in every state of the
\* invariants.
LEMMA ProfitExplains == IInv /\ RowsFormed /\ BooksClose => NetWorthExplained
<1> SUFFICES ASSUME IInv, RowsFormed, BooksClose PROVE NetWorthExplained
  OBVIOUS
<1>1. TypeOK
  BY DEF IInv
<1>2. ASSUME NEW date \in Datings, NEW from \in Days, NEW to \in Days
      PROVE  LET days == DailyProfitData(date, from, to)
                 trade == DailyData(date, from, to)
                 ofAllDays == \A id \in Rows : Within(date[id], from, to)
             IN  /\ RealizedOf(OnSide(DealsOf(date, from, to), SELL))
                      = SumFunctionOnSet([day \in DOMAIN days |-> days[day].profit], DOMAIN days)
                 /\ Uncorrected /\ NeverShort /\ ofAllDays =>
                      /\ \A c \in Foreign :
                           position[c].quantity
                             = LET traded == {k \in DOMAIN trade : k[2] = c}
                               IN  SumFunctionOnSet(
                                     [k \in traded |-> IF k[3] = BUY THEN trade[k].quantity
                                                       ELSE -trade[k].quantity], traded)
                      /\ \A rate \in {r \in RateMaps : Known(r) = Currencies} :
                           LET profit == ProfitData(date, from, to, rate)
                               gap == NetWorthSnapshot(rate).total - ValueInBase(Brought, rate).total
                                        - (profit.realized + profit.unrealized)
                               rounding == SumFunctionOnSet([id \in Deals |-> RoundedTwice(id)], Deals)
                           IN  2 * gap <= rounding /\ -(2 * gap) <= rounding
  <2> DEFINE days == DailyProfitData(date, from, to)
             trade == DailyData(date, from, to)
             traded(c) == {k \in DOMAIN trade : k[2] = c}
             ofAllDays == \A id \in Rows : Within(date[id], from, to)
             rounding == SumFunctionOnSet([id \in Deals |-> RoundedTwice(id)], Deals)
             gap(rate) == NetWorthSnapshot(rate).total - ValueInBase(Brought, rate).total
                            - (ProfitData(date, from, to, rate).realized
                                 + ProfitData(date, from, to, rate).unrealized)
  <2>1. RealizedOf(OnSide(DealsOf(date, from, to), SELL))
          = SumFunctionOnSet([day \in DOMAIN days |-> days[day].profit], DOMAIN days)
    BY <1>1, DaysMakeProfit, Zenon
  <2>2. ASSUME Uncorrected, NeverShort, ofAllDays, NEW c \in Foreign
        PROVE  position[c].quantity
                 = SumFunctionOnSet([k \in traded(c) |-> IF k[3] = BUY THEN trade[k].quantity
                                                         ELSE -trade[k].quantity], traded(c))
    <3>1. position[c].quantity = Held(c)
      BY <2>2 DEF BooksClose
    <3>2. Held(c) = SumFunctionOnSet([k \in traded(c) |-> IF k[3] = BUY THEN trade[k].quantity
                                                          ELSE -trade[k].quantity], traded(c))
      <4>1. \A id \in Rows : Within(date[id], from, to)
        BY <2>2
      <4>2. LET all == DailyData(date, from, to)
                own == {k \in DOMAIN all : k[2] = c}
            IN  Held(c) = SumFunctionOnSet([k \in own |-> IF k[3] = BUY THEN all[k].quantity
                                                          ELSE -all[k].quantity], own)
        BY <1>1, <4>1, TradeMakesStock
      <4> QED
        BY <4>2, Zenon
    <3> QED
      BY <3>1, <3>2, Zenon
  <2>3. ASSUME Uncorrected, NeverShort, ofAllDays, NEW rate \in RateMaps, Known(rate) = Currencies
        PROVE  2 * gap(rate) <= rounding /\ -(2 * gap(rate)) <= rounding
    <3>1. DealsOf(date, from, to) = Deals
      BY <2>3 DEF DealsOf, Deals
    <3>2. gap(rate) = NetWorthSnapshot(rate).total - ValueInBase(Brought, rate).total
                        - (RealizedOf(OnSide(Deals, SELL)) + Unrealized(rate))
      BY <3>1 DEF ProfitData
    <3> HIDE DEF gap, rounding
    <3> QED
      BY <2>3, <3>2, GapIsBounded DEF rounding
  <2> QED
    BY <2>1, <2>2, <2>3, Zenon
<1> QED
  BY <1>2, Zenon DEF NetWorthExplained

\* In every reachable state the profit of a period is that of its days; and while nothing
\* was corrected or sold short the net worth beyond what was brought in is the profit, but
\* for the rounding of the averages.
THEOREM NetWorthIsExplained == Spec => []NetWorthExplained
BY ProfitExplains, Invariance, RowsAreFormed, BooksAlwaysClose, PTL
=============================================================================
