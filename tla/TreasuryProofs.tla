---------------------------- MODULE TreasuryProofs ----------------------------
(***************************************************************************)
(* What holds of the officers' bookings and of the reports, for every       *)
(* number of groups, officers, handlers and rows, and for tables of any     *)
(* length.                                                                  *)
(*                                                                          *)
(* A wallet is what all its rows add up to; what a report has read of it is *)
(* what some first rows added up to, and rows are never taken away.         *)
(***************************************************************************)
EXTENDS Treasury, SumProofs, SequenceTheorems

(***************************************************************************)
(* What rows add up to                                                      *)
(***************************************************************************)
Countable(rows, n) == \A i \in 1 .. n : Signed(rows[i]) \in Int

LEMMA NetEmpty == \A rows, g : Net(rows, g, 0) = 0
<1> TAKE rows, g
<1>1. {i \in 1 .. 0 : rows[i].group = g} = {}
  OBVIOUS
<1>2. QED
  BY <1>1, SumEmpty DEF Net, Sum

LEMMA NetInt ==
    ASSUME NEW rows, NEW g, NEW n \in Nat, Countable(rows, n)
    PROVE  Net(rows, g, n) \in Int
<1>1. IsFiniteSet({i \in 1 .. n : rows[i].group = g})
  BY FS_Interval, FS_Subset
<1>2. QED
  BY <1>1, SumInt DEF Net, Sum, Countable

\* The next row counts for its own wallet.
LEMMA NetStep ==
    ASSUME NEW rows, NEW g, NEW n \in Nat, Countable(rows, n + 1)
    PROVE  Net(rows, g, n + 1) =
             Net(rows, g, n) + (IF rows[n + 1].group = g THEN Signed(rows[n + 1]) ELSE 0)
<1> DEFINE f == [i \in 1 .. n |-> Signed(rows[i])]
<1> DEFINE h == [i \in 1 .. n + 1 |-> Signed(rows[i])]
<1> DEFINE S == {i \in 1 .. n : rows[i].group = g}
<1> DEFINE T == {i \in 1 .. n + 1 : rows[i].group = g}
<1>1. IsFiniteSet(S)
  BY FS_Interval, FS_Subset
<1>2. \A i \in S : f[i] \in Int /\ h[i] = f[i]
  BY DEF Countable
<1>3. Sum(h, S) = Sum(f, S) /\ Sum(f, S) \in Int
  <2> HIDE DEF f, h, S
  <2> QED
    BY <1>1, <1>2, SumSame, SumInt
<1>4. CASE rows[n + 1].group = g
  <2>1. T = S \cup {n + 1} /\ n + 1 \notin S
    BY <1>4
  <2>2. h[n + 1] = Signed(rows[n + 1]) /\ \A i \in S \cup {n + 1} : h[i] \in Int
    BY <1>2 DEF Countable
  <2>3. Sum(h, T) = h[n + 1] + Sum(h, S)
    <3> HIDE DEF h, S, T
    <3> QED
      BY <1>1, <2>1, <2>2, SumAdd
  <2>4. Signed(rows[n + 1]) \in Int
    BY DEF Countable
  <2>5. QED
    BY <1>3, <1>4, <2>2, <2>3, <2>4 DEF Net, Sum
<1>5. CASE rows[n + 1].group # g
  <2>1. T = S
    BY <1>5
  <2>2. Net(rows, g, n + 1) = Sum(h, T) /\ Net(rows, g, n) = Sum(f, S)
    BY DEF Net, Sum
  <2> HIDE DEF f, h, S, T
  <2>3. QED
    BY <1>3, <1>5, <2>1, <2>2
<1>6. QED
  BY <1>4, <1>5

LEMMA NetSame ==
    ASSUME NEW rows, NEW others, NEW g, NEW n \in Nat, \A i \in 1 .. n : others[i] = rows[i]
    PROVE  Net(others, g, n) = Net(rows, g, n)
<1>1. [i \in 1 .. n |-> Signed(others[i])] = [i \in 1 .. n |-> Signed(rows[i])]
  OBVIOUS
<1>2. {i \in 1 .. n : others[i].group = g} = {i \in 1 .. n : rows[i].group = g}
  OBVIOUS
<1>3. QED
  BY <1>1, <1>2 DEF Net

\* Rows written after others add what they add up to by themselves.
LEMMA NetAppend ==
    ASSUME NEW all, NEW new, NEW g, NEW m \in Nat, NEW n \in Nat,
           Countable(all, m + n), Countable(new, n),
           \A i \in 1 .. n : /\ all[m + i].group = new[i].group
                             /\ Signed(all[m + i]) = Signed(new[i])
    PROVE  Net(all, g, m + n) = Net(all, g, m) + Net(new, g, n)
<1> DEFINE T == {k \in Nat : k <= n => Net(all, g, m + k) = Net(all, g, m) + Net(new, g, k)}
<1>0. Countable(all, m)
  BY DEF Countable
<1>1. Net(all, g, m) \in Int
  BY <1>0, NetInt
<1>2. 0 \in T
  BY <1>1, NetEmpty
<1>3. ASSUME NEW k \in T PROVE k + 1 \in T
  <2> SUFFICES ASSUME k + 1 <= n
               PROVE  Net(all, g, m + (k + 1)) = Net(all, g, m) + Net(new, g, k + 1)
    OBVIOUS
  <2>1. k \in Nat /\ k <= n /\ m + k \in Nat /\ m + (k + 1) = (m + k) + 1
    OBVIOUS
  <2>2. Countable(all, (m + k) + 1) /\ Countable(new, k + 1) /\ Countable(new, k)
    BY <2>1 DEF Countable
  <2>3. Net(all, g, (m + k) + 1) = Net(all, g, m + k) +
          (IF all[(m + k) + 1].group = g THEN Signed(all[(m + k) + 1]) ELSE 0)
    BY <2>1, <2>2, NetStep
  <2>4. Net(new, g, k + 1) = Net(new, g, k) +
          (IF new[k + 1].group = g THEN Signed(new[k + 1]) ELSE 0)
    BY <2>1, <2>2, NetStep
  <2>5. /\ all[(m + k) + 1].group = new[k + 1].group
        /\ Signed(all[(m + k) + 1]) = Signed(new[k + 1]) /\ Signed(new[k + 1]) \in Int
    BY <2>1, <2>2 DEF Countable
  <2>6. Net(new, g, k) \in Int
    BY <2>1, <2>2, NetInt
  <2>7. Net(all, g, m + k) = Net(all, g, m) + Net(new, g, k)
    BY <2>1
  <2>8. QED
    BY <1>1, <2>1, <2>3, <2>4, <2>5, <2>6, <2>7
<1>4. T = Nat
  <2> HIDE DEF T
  <2>1. T \in SUBSET Nat
    BY DEF T
  <2>2. QED
    BY <1>2, <1>3, <2>1, NumberInduction
<1>5. QED
  BY <1>4

\* What row i counts for the wallet of g.
Part(rows, g, i) == IF rows[i].group = g THEN Signed(rows[i]) ELSE 0

LEMMA NetOfFew ==
    ASSUME NEW rows, NEW g
    PROVE  /\ Countable(rows, 1) => Net(rows, g, 1) = Part(rows, g, 1)
           /\ Countable(rows, 2) => Net(rows, g, 2) = Part(rows, g, 1) + Part(rows, g, 2)
           /\ Countable(rows, 3) =>
                Net(rows, g, 3) = Part(rows, g, 1) + Part(rows, g, 2) + Part(rows, g, 3)
<1>1. ASSUME Countable(rows, 1) PROVE Net(rows, g, 1) = Part(rows, g, 1)
  <2>1. Net(rows, g, 0 + 1) = Net(rows, g, 0) + Part(rows, g, 0 + 1)
    BY <1>1, NetStep DEF Part
  <2>2. Part(rows, g, 1) \in Int
    BY <1>1 DEF Part, Countable
  <2>3. QED
    BY <2>1, <2>2, NetEmpty
<1>2. ASSUME Countable(rows, 2)
      PROVE  Net(rows, g, 2) = Part(rows, g, 1) + Part(rows, g, 2)
  <2>1. Countable(rows, 1)
    BY <1>2 DEF Countable
  <2>2. Net(rows, g, 1 + 1) = Net(rows, g, 1) + Part(rows, g, 1 + 1)
    BY <1>2, NetStep DEF Part
  <2>3. QED
    BY <1>1, <2>1, <2>2
<1>3. ASSUME Countable(rows, 3)
      PROVE  Net(rows, g, 3) = Part(rows, g, 1) + Part(rows, g, 2) + Part(rows, g, 3)
  <2>1. Countable(rows, 2)
    BY <1>3 DEF Countable
  <2>2. Net(rows, g, 2 + 1) = Net(rows, g, 2) + Part(rows, g, 2 + 1)
    BY <1>3, NetStep DEF Part
  <2>3. QED
    BY <1>2, <2>1, <2>2
<1>4. QED
  BY <1>1, <1>2, <1>3

-----------------------------------------------------------------------------
(* Types *)

\* The rows a handler is about to write.
EntryLists == UNION {[1 .. n -> Entry] : n \in 0 .. 3}

LEMMA SignedInt ==
    ASSUME NEW x, x.amount \in Amount
    PROVE  Signed(x) \in Int
<1>1. Amount \subseteq 1 .. MaxAmount /\ MaxAmount \in Nat
  BY TreasuryAssumption, Zenon
<1>2. x.amount \in Int
  <2>1. \A a \in Amount : a \in Int
    BY <1>1
  <2>2. QED
    BY <2>1, Zenon
<1>3. QED
  BY <1>2 DEF Signed

LEMMA EntriesAre ==
    ASSUME NEW new \in EntryLists
    PROVE  /\ Len(new) \in 0 .. 3 /\ DOMAIN new = 1 .. Len(new)
           /\ \A i \in 1 .. Len(new) : new[i] \in Entry
           /\ Countable(new, Len(new))
<1>1. PICK n \in 0 .. 3 : new \in [1 .. n -> Entry]
  BY DEF EntryLists
<1>2. n \in Nat /\ new \in Seq(Entry) /\ Len(new) = n
  BY <1>1, SeqDef, LenProperties
<1>3. \A x \in Entry : Signed(x) \in Int
  BY SignedInt DEF Entry
<1>4. QED
  BY <1>1, <1>2, <1>3 DEF Countable

LEMMA EntryIs ==
    ASSUME NEW g \in Group, NEW type \in TransactionType, NEW a \in Amount
    PROVE  /\ EntryOf(g, type, a) \in Entry /\ EntryOf(g, type, a).group = g
           /\ a \in 1 .. MaxAmount /\ MaxAmount \in Nat
           /\ Signed(EntryOf(g, type, a)) = IF type = "CREDIT" THEN a ELSE -a
<1>1. Amount \subseteq 1 .. MaxAmount /\ MaxAmount \in Nat
  BY TreasuryAssumption, Zenon
<1>2. QED
  BY <1>1 DEF EntryOf, Entry, Signed

LEMMA IdleTyped == Idle \in Call
<1>1. << >> \in EntryLists
  <2>1. << >> \in [1 .. 0 -> Entry]
    OBVIOUS
  <2>2. QED
    BY <2>1 DEF EntryLists
<1>2. (CHOOSE u \in User : TRUE) \in User
  BY TreasuryAssumption
<1>3. QED
  BY <1>1, <1>2 DEF Idle, Call, EntryLists

LEMMA BookingTyped ==
    ASSUME NEW new \in EntryLists
    PROVE  [Idle EXCEPT !.pc = "book", !.entries = new] \in Call
  BY IdleTyped DEF Idle, Call, EntryLists

LEMMA HomeTyped == \A u \in User : Home(u) \in Group
  BY OrganizationAssumption DEF Home

LEMMA ScopesTyped ==
    ASSUME NEW u \in User, NEW groups \in Scopes(u)
    PROVE  groups \in SUBSET Group
<1>1. Home(u) \in Group /\ Children(Home(u)) \subseteq Group
      /\ {ParentOf[Home(u)]} \ {NoGroup} \subseteq Group
  BY HomeTyped, OrganizationAssumption DEF Children
<1>2. QED
  BY <1>1 DEF Scopes

LEMMA PeriodsTyped == Periods \subseteq SUBSET Day
  BY TreasuryAssumption DEF Periods, Day

\* What entries take from the wallet of g.
Taken(new, g) == LET net == Net(new, g, Len(new)) IN IF net < 0 THEN -net ELSE 0

\* Entries that take nothing but what was compared with the balance.
Compared(new) ==
    \A g \in Group : /\ Net(new, g, Len(new)) \in Int
                     /\ Taken(new, g) \in 0 .. MaxAmount
                     /\ Taken(new, g) > 0 => balance[g] >= Taken(new, g)

LEMMA OneEntry ==
    ASSUME TreasuryTypeOK, NEW g \in Group, NEW type \in TransactionType, NEW a \in Amount,
           MayBook(g, type, a), NEW new, new = <<EntryOf(g, type, a)>>
    PROVE  new \in EntryLists /\ Compared(new)
<1>1. PICK x : x = EntryOf(g, type, a)
  OBVIOUS
<1>2. x \in Entry /\ x.group = g /\ a \in 1 .. MaxAmount /\ MaxAmount \in Nat
      /\ Signed(x) = IF type = "CREDIT" THEN a ELSE -a
  BY <1>1, EntryIs
<1>3. new = <<x>> /\ new \in [1 .. 1 -> Entry] /\ Len(new) = 1 /\ new[1] = x
  BY <1>1, <1>2
<1>4. new \in EntryLists
  BY <1>3 DEF EntryLists
<1>5. ASSUME NEW h \in Group
      PROVE  Net(new, h, Len(new)) = IF g = h THEN Signed(x) ELSE 0
  BY <1>2, <1>3, <1>4, EntriesAre, NetOfFew DEF Part
<1>6. balance[g] \in Int /\ (type # "CREDIT" => balance[g] >= a)
  BY DEF MayBook, TransactionType, TreasuryTypeOK, LedgerTypeOK
<1>7. Compared(new)
  BY <1>2, <1>5, <1>6 DEF Compared, Taken
<1>8. QED
  BY <1>4, <1>7

LEMMA TwoEntries ==
    ASSUME TreasuryTypeOK, NEW p \in Group, NEW g \in Group, NEW a \in Amount,
           MayBook(p, "DEBIT", a),
           NEW new, new = <<EntryOf(p, "DEBIT", a), EntryOf(g, "CREDIT", a)>>
    PROVE  new \in EntryLists /\ Compared(new)
<1>1. PICK x, y : x = EntryOf(p, "DEBIT", a) /\ y = EntryOf(g, "CREDIT", a)
  OBVIOUS
<1>2. /\ x \in Entry /\ x.group = p /\ Signed(x) = -a
      /\ y \in Entry /\ y.group = g /\ Signed(y) = a
      /\ a \in 1 .. MaxAmount /\ MaxAmount \in Nat
  BY <1>1, EntryIs DEF TransactionType
<1>3. new = <<x, y>> /\ new \in [1 .. 2 -> Entry] /\ Len(new) = 2 /\ new[1] = x /\ new[2] = y
  BY <1>1, <1>2
<1>4. new \in EntryLists
  BY <1>3 DEF EntryLists
<1>5. ASSUME NEW h \in Group
      PROVE  Net(new, h, Len(new)) = (IF p = h THEN -a ELSE 0) + (IF g = h THEN a ELSE 0)
  <2>1. Countable(new, 2)
    BY <1>3, <1>4, EntriesAre
  <2>2. Net(new, h, 2) = Part(new, h, 1) + Part(new, h, 2)
    BY <2>1, NetOfFew
  <2>3. /\ Part(new, h, 1) = (IF p = h THEN -a ELSE 0)
        /\ Part(new, h, 2) = (IF g = h THEN a ELSE 0)
    BY <1>2, <1>3 DEF Part
  <2>4. QED
    BY <1>3, <2>2, <2>3
<1>6. balance[p] \in Int /\ balance[p] >= a
  BY DEF MayBook, TreasuryTypeOK, LedgerTypeOK
<1>7. Compared(new)
  BY <1>2, <1>5, <1>6 DEF Compared, Taken
<1>8. QED
  BY <1>4, <1>7

LEMMA ThreeEntries ==
    ASSUME TreasuryTypeOK, NEW p \in Group, NEW g \in Group, NEW a \in Amount,
           MayBook(p, "DEBIT", a),
           NEW new, new = <<EntryOf(p, "DEBIT", a), EntryOf(g, "CREDIT", a),
                            EntryOf(g, "DEBIT", a)>>
    PROVE  new \in EntryLists /\ Compared(new)
<1>1. PICK x, y, z : /\ x = EntryOf(p, "DEBIT", a) /\ y = EntryOf(g, "CREDIT", a)
                     /\ z = EntryOf(g, "DEBIT", a)
  OBVIOUS
<1>2. /\ x \in Entry /\ x.group = p /\ Signed(x) = -a
      /\ y \in Entry /\ y.group = g /\ Signed(y) = a
      /\ z \in Entry /\ z.group = g /\ Signed(z) = -a
      /\ a \in 1 .. MaxAmount /\ MaxAmount \in Nat
  BY <1>1, EntryIs DEF TransactionType
<1>3. /\ new = <<x, y, z>> /\ new \in [1 .. 3 -> Entry] /\ Len(new) = 3
      /\ new[1] = x /\ new[2] = y /\ new[3] = z
  BY <1>1, <1>2
<1>4. new \in EntryLists
  BY <1>3 DEF EntryLists
<1>5. ASSUME NEW h \in Group PROVE Net(new, h, Len(new)) = IF p = h THEN -a ELSE 0
  <2>1. Countable(new, 3)
    BY <1>3, <1>4, EntriesAre
  <2>2. Net(new, h, 3) = Part(new, h, 1) + Part(new, h, 2) + Part(new, h, 3)
    BY <2>1, NetOfFew
  <2>3. /\ Part(new, h, 1) = (IF p = h THEN -a ELSE 0)
        /\ Part(new, h, 2) = (IF g = h THEN a ELSE 0)
        /\ Part(new, h, 3) = (IF g = h THEN -a ELSE 0)
    BY <1>2, <1>3 DEF Part
  <2>4. QED
    BY <1>2, <1>3, <2>2, <2>3
<1>6. balance[p] \in Int /\ balance[p] >= a
  BY DEF MayBook, TreasuryTypeOK, LedgerTypeOK
<1>7. Compared(new)
  BY <1>2, <1>5, <1>6 DEF Compared, Taken
<1>8. QED
  BY <1>4, <1>7

LEMMA BookingsAre ==
    ASSUME TreasuryTypeOK, NEW s \in Slot, Handler(s), ~Book(s)
    PROVE  \E new \in EntryLists : StartBooking(s, new) /\ Compared(new)
<1>1. PICK g \in Group, a \in Amount :
        \/ \E type \in TransactionType : Manual(s, g, type, a)
        \/ PayEvent(s, g, a) \/ RefundEvent(s, g, a) \/ Transfer(s, g, a)
        \/ TransferToEvent(s, g, a)
  BY Zenon DEF Handler
<1>2. Grantors(g) # {} => ParentOf[g] \in Group
  BY HomeTyped DEF Grantors, Officers
<1>3. ASSUME NEW type \in TransactionType, MayBook(g, type, a),
             StartBooking(s, <<EntryOf(g, type, a)>>)
      PROVE  \E new \in EntryLists : StartBooking(s, new) /\ Compared(new)
  BY <1>3, OneEntry
<1>4. ASSUME NEW type \in TransactionType, Manual(s, g, type, a)
      PROVE  \E new \in EntryLists : StartBooking(s, new) /\ Compared(new)
  BY <1>3, <1>4 DEF Manual
<1>5. ASSUME PayEvent(s, g, a)
      PROVE  \E new \in EntryLists : StartBooking(s, new) /\ Compared(new)
  BY <1>3, <1>5 DEF PayEvent, TransactionType
<1>6. ASSUME RefundEvent(s, g, a)
      PROVE  \E new \in EntryLists : StartBooking(s, new) /\ Compared(new)
  BY <1>3, <1>6 DEF RefundEvent, TransactionType, MayBook
<1>7. ASSUME Transfer(s, g, a)
      PROVE  \E new \in EntryLists : StartBooking(s, new) /\ Compared(new)
  BY <1>2, <1>7, TwoEntries DEF Transfer
<1>8. ASSUME TransferToEvent(s, g, a)
      PROVE  \E new \in EntryLists : StartBooking(s, new) /\ Compared(new)
  BY <1>2, <1>8, ThreeEntries DEF TransferToEvent
<1>9. QED
  BY <1>1, <1>4, <1>5, <1>6, <1>7, <1>8

LEMMA ReportTyped ==
    ASSUME NEW u \in User, NEW groups \in SUBSET Group, NEW days \in SUBSET Day
    PROVE  [Idle EXCEPT !.pc = "read", !.user = u, !.groups = groups, !.days = days] \in Call
  BY IdleTyped DEF Idle, Call

LEMMA StartTyped ==
    ASSUME TreasuryTypeOK, NEW s \in Slot, NEW c \in Call, Start(s, c),
           UNCHANGED <<ledgerVars, log, day>>
    PROVE  TreasuryTypeOK'
  BY DEF TreasuryTypeOK, Start, ledgerVars, LedgerTypeOK

\* The rows of a transaction follow those that are there.
RowsOn(new, d) ==
    [i \in DOMAIN new |-> [group |-> new[i].group, type |-> new[i].type,
                           amount |-> new[i].amount, day |-> d]]

\* What slot s books: new, of n rows, after the m rows that are there.
Books(s, new, m, n) ==
    /\ new = call[s].entries /\ m = Len(log) /\ n = Len(new)
    /\ new \in EntryLists /\ m \in Nat /\ n \in Nat /\ m + n <= MaxRows
    /\ log' \in Seq(Row) /\ Len(log') = m + n
    /\ \A i \in 1 .. m : log'[i] = log[i]
    /\ \A i \in 1 .. n : /\ log'[m + i].group = new[i].group
                         /\ Signed(log'[m + i]) = Signed(new[i])
    /\ \A g \in Group : balance'[g] = balance[g] + Net(new, g, n)
    /\ call' = [call EXCEPT ![s] = Idle]

LEMMA Booked ==
    ASSUME TreasuryTypeOK, NEW s \in Slot, Book(s)
    PROVE  \E new, m, n : Books(s, new, m, n)
<1> SUFFICES ASSUME NEW new, new = call[s].entries, NEW m, m = Len(log), NEW n, n = Len(new)
             PROVE  Books(s, new, m, n)
  OBVIOUS
<1>1. new \in EntryLists
  BY DEF TreasuryTypeOK, Call, EntryLists
<1>2. n \in Nat /\ DOMAIN new = 1 .. n /\ \A i \in 1 .. n : new[i] \in Entry
  BY <1>1, EntriesAre
<1>3. RowsOn(new, day) \in [1 .. n -> Row]
  BY <1>2 DEF RowsOn, Row, Entry, TreasuryTypeOK
<1>4. RowsOn(new, day) \in Seq(Row) /\ Len(RowsOn(new, day)) = n
  BY <1>2, <1>3, SeqDef, LenProperties
<1>5. log \in Seq(Row) /\ m \in Nat /\ log' = log \o RowsOn(new, day) /\ m + n <= MaxRows
  BY DEF Book, RowsOn, TreasuryTypeOK
<1>6. /\ log' \in Seq(Row) /\ Len(log') = m + n
      /\ \A i \in 1 .. m : log'[i] = log[i]
      /\ \A i \in 1 .. n : log'[m + i] = RowsOn(new, day)[i]
  <2> DEFINE new2 == RowsOn(new, day)
  <2> HIDE DEF new2
  <2>1. new2 \in Seq(Row) /\ Len(new2) = n /\ log' = log \o new2
    BY <1>4, <1>5 DEF new2
  <2>2. log \o new2 \in Seq(Row) /\ Len(log \o new2) = m + n
        /\ \A i \in 1 .. m + n : (log \o new2)[i] = IF i <= m THEN log[i] ELSE new2[i - m]
    <3>1. /\ log \o new2 \in Seq(Row) /\ Len(log \o new2) = Len(log) + Len(new2)
          /\ \A i \in 1 .. Len(log) + Len(new2) :
                (log \o new2)[i] = IF i <= Len(log) THEN log[i] ELSE new2[i - Len(log)]
      BY <1>5, <2>1, ConcatProperties, Zenon
    <3>2. QED
      BY <2>1, <3>1, Zenon
  <2>3. \A i \in 1 .. m : i \in 1 .. m + n /\ i <= m
    BY <1>2, <1>5
  <2>4. \A i \in 1 .. n : m + i \in 1 .. m + n /\ ~(m + i <= m) /\ (m + i) - m = i
    BY <1>2, <1>5
  <2>5. log' \in Seq(Row) /\ Len(log') = m + n /\ \A i \in 1 .. m : log'[i] = log[i]
    BY <2>1, <2>2, <2>3
  <2>6. \A i \in 1 .. n : log'[m + i] = new2[i]
    BY <2>1, <2>2, <2>4
  <2>7. QED
    BY <2>5, <2>6 DEF new2
<1>7. \A i \in 1 .. n : log'[m + i].group = new[i].group /\ Signed(log'[m + i]) = Signed(new[i])
  <2> TAKE i \in 1 .. n
  <2>1. RowsOn(new, day)[i] = [group |-> new[i].group, type |-> new[i].type,
                               amount |-> new[i].amount, day |-> day]
    BY <1>2 DEF RowsOn
  <2>2. log'[m + i] = RowsOn(new, day)[i]
    BY <1>6
  <2>3. /\ log'[m + i].group = new[i].group /\ log'[m + i].type = new[i].type
        /\ log'[m + i].amount = new[i].amount
    BY <2>1, <2>2
  <2>4. QED
    BY <2>3 DEF Signed
<1>8. \A g \in Group : balance'[g] = balance[g] + Net(new, g, n)
  BY DEF Book, CreditShares
<1>9. QED
  BY <1>1, <1>2, <1>5, <1>6, <1>7, <1>8 DEF Book, Finish, Books

LEMMA ReadTyped ==
    ASSUME TreasuryTypeOK, NEW s \in Slot,
           ReadWallets(s) \/ ReadRows(s)
    PROVE  call' \in [Slot -> Call]
<1>1. call \in [Slot -> Call] /\ call[s] \in Call
  BY DEF TreasuryTypeOK
<1>2. CASE ReadWallets(s)
  <2>1. PICK G \in {call[s].groups \cap {Home(call[s].user)},
                    call[s].groups \ {Home(call[s].user)}} :
          call' = [call EXCEPT ![s].known = @ \cup G,
                               ![s].shown = [g \in Group |-> IF g \in G THEN balance[g] ELSE @[g]]]
    BY <1>2 DEF ReadWallets
  <2>2. call[s].known \cup G \in SUBSET Group
    BY <1>1 DEF Call
  <2>3. [g \in Group |-> IF g \in G THEN balance[g] ELSE call[s].shown[g]] \in [Group -> Int]
    BY <1>1 DEF Call, TreasuryTypeOK, LedgerTypeOK
  <2>4. [call[s] EXCEPT !.known = call[s].known \cup G,
                        !.shown = [g \in Group |-> IF g \in G THEN balance[g]
                                                   ELSE call[s].shown[g]]] \in Call
    BY <1>1, <2>2, <2>3 DEF Call
  <2>5. QED
    BY <1>1, <2>1, <2>4
<1>3. CASE ReadRows(s)
  <2>1. PICK R \in SUBSET DOMAIN log :
          call' = [call EXCEPT ![s].hasRows = TRUE, ![s].rows = R]
    BY <1>3 DEF ReadRows
  <2>2. R \in SUBSET (1 .. MaxRows)
    <3>1. DOMAIN log = 1 .. Len(log) /\ Len(log) \in Nat /\ Len(log) <= MaxRows
      BY DEF TreasuryTypeOK
    <3>2. MaxRows \in Nat
      BY TreasuryAssumption, Zenon
    <3>3. QED
      BY <3>1, <3>2
  <2>3. [call[s] EXCEPT !.hasRows = TRUE, !.rows = R] \in Call
    BY <1>1, <2>2 DEF Call
  <2>4. QED
    BY <1>1, <2>1, <2>3
<1>4. QED
  BY <1>2, <1>3

LEMMA BookTyped ==
    ASSUME TreasuryTypeOK, NEW s \in Slot, Book(s)
    PROVE  TreasuryTypeOK'
<1>1. PICK new, m, n : Books(s, new, m, n)
  BY Booked
<1>2. /\ new \in EntryLists /\ n \in Nat /\ m \in Nat /\ m + n <= MaxRows /\ n = Len(new)
      /\ log' \in Seq(Row) /\ Len(log') = m + n /\ call' = [call EXCEPT ![s] = Idle]
  BY <1>1, Zenon DEF Books
<1>3. CreditShares([g \in Group |-> Net(new, g, n)]) /\ day' = day
  BY <1>1 DEF Book, Books
<1>4. \A g \in Group : Net(new, g, n) \in Int
  BY <1>2, EntriesAre, NetInt
<1>5. LedgerTypeOK'
  BY <1>3, <1>4 DEF CreditShares, LedgerTypeOK, TreasuryTypeOK
<1>6. QED
  BY <1>2, <1>3, <1>5, IdleTyped DEF TreasuryTypeOK

LEMMA TypeStep ==
    ASSUME TreasuryTypeOK, [Next]_vars
    PROVE  TreasuryTypeOK'
<1>1. CASE UNCHANGED vars
  BY <1>1 DEF vars, ledgerVars, TreasuryTypeOK, LedgerTypeOK
<1>2. CASE DayPasses
  <2>1. LastDay \in Nat \ {0}
    BY TreasuryAssumption, Zenon
  <2>2. QED
    BY <1>2, <2>1 DEF DayPasses, Day, ledgerVars, TreasuryTypeOK, LedgerTypeOK
<1>3. ASSUME NEW s \in Slot, Handler(s) PROVE TreasuryTypeOK'
  <2>1. ASSUME ~Book(s) PROVE TreasuryTypeOK'
    BY <1>3, <2>1, BookingsAre, BookingTyped, StartTyped DEF StartBooking
  <2>2. QED
    BY <2>1, BookTyped
<1>4. ASSUME NEW s \in Slot, Report(s) PROVE TreasuryTypeOK'
  <2>1. ASSUME NEW u \in User, NEW days \in Periods, NEW groups \in Scopes(u),
               GenerateReport(s, u, groups, days)
        PROVE  TreasuryTypeOK'
    <3>1. groups \in SUBSET Group /\ days \in SUBSET Day
      BY ScopesTyped, PeriodsTyped
    <3>2. QED
      BY <2>1, <3>1, ReportTyped, StartTyped DEF GenerateReport
  <2>2. ASSUME ReadWallets(s) \/ ReadRows(s) PROVE TreasuryTypeOK'
    <3>1. UNCHANGED <<ledgerVars, log, day>>
      BY <2>2 DEF ReadWallets, ReadRows
    <3>2. QED
      BY <2>2, <3>1, ReadTyped DEF TreasuryTypeOK, LedgerTypeOK, ledgerVars
  <2>3. ASSUME Download(s) PROVE TreasuryTypeOK'
    BY <2>3, IdleTyped DEF Download, Finish, TreasuryTypeOK, LedgerTypeOK, ledgerVars
  <2>4. QED
    BY <1>4, <2>1, <2>2, <2>3 DEF Report
<1>5. QED
  BY <1>1, <1>2, <1>3, <1>4 DEF Next

LEMMA TypesInitially == Init => TreasuryTypeOK
<1> SUFFICES ASSUME Init PROVE TreasuryTypeOK
  OBVIOUS
<1>1. LastDay \in Nat \ {0} /\ MaxRows \in Nat
  BY TreasuryAssumption, Zenon
<1>2. LedgerTypeOK
  BY LedgerAssumption DEF Init, LedgerInit, LedgerTypeOK
<1>3. log \in Seq(Row) /\ Len(log) <= MaxRows /\ day \in Day
  BY <1>1 DEF Init, Day
<1>4. QED
  BY <1>2, <1>3, IdleTyped DEF Init, TreasuryTypeOK

(***************************************************************************)
(* Rows, wallets and the local variables of bookings and reports keep their *)
(* types.                                                                   *)
(***************************************************************************)
THEOREM TreasuryTyped == Spec => []TreasuryTypeOK
<1>1. TreasuryTypeOK /\ [Next]_vars => TreasuryTypeOK'
  BY TypeStep
<1>2. QED
  BY <1>1, TypesInitially, PTL DEF Spec

-----------------------------------------------------------------------------
(* Balances and rows *)

WalletInv == \A g \in Group : balance[g] = Opening[g] + Net(log, g, Len(log))

LEMMA RowsCount ==
    ASSUME NEW rows \in Seq(Row)
    PROVE  Len(rows) \in Nat /\ \A n \in 0 .. Len(rows) : Countable(rows, n)
<1>1. \A i \in 1 .. Len(rows) : rows[i] \in Row
  BY LenProperties
<1>2. \A i \in 1 .. Len(rows) : Signed(rows[i]) \in Int
  BY <1>1, SignedInt DEF Row
<1>3. Len(rows) \in Nat
  BY LenProperties
<1>4. QED
  BY <1>2, <1>3 DEF Countable

\* Either everything is as it was in the log and the wallets, or rows are booked.
LEMMA OnlyBookWrites ==
    ASSUME [Next]_vars
    PROVE  UNCHANGED <<log, ledgerVars>> \/ \E s \in Slot : Book(s)
<1>1. CASE UNCHANGED vars
  BY <1>1 DEF vars
<1>2. ASSUME NEW s \in Slot, Handler(s) \/ Report(s)
      PROVE  UNCHANGED <<log, ledgerVars>> \/ Book(s)
  BY <1>2 DEF Handler, Report, Manual, PayEvent, RefundEvent, Transfer, TransferToEvent,
             StartBooking, GenerateReport, ReadWallets, ReadRows, Download
<1>3. DayPasses => UNCHANGED <<log, ledgerVars>>
  BY DEF DayPasses
<1>4. QED
  BY <1>1, <1>2, <1>3 DEF Next

LEMMA BookKeepsWallets ==
    ASSUME TreasuryTypeOK, WalletInv, NEW s \in Slot, NEW new, NEW m, NEW n, Books(s, new, m, n),
           NEW g \in Group
    PROVE  balance'[g] = Opening[g] + Net(log', g, Len(log'))
<1>1. /\ new \in EntryLists /\ m \in Nat /\ n \in Nat /\ n = Len(new) /\ m = Len(log)
      /\ log' \in Seq(Row) /\ Len(log') = m + n
  BY Zenon DEF Books
<1>2. PICK all : all = log'
  OBVIOUS
<1>3. Countable(all, m + n) /\ Countable(new, n)
  BY <1>1, <1>2, RowsCount, EntriesAre
<1>4. \A i \in 1 .. n : all[m + i].group = new[i].group /\ Signed(all[m + i]) = Signed(new[i])
  BY <1>2 DEF Books
<1>5. Net(all, g, m + n) = Net(all, g, m) + Net(new, g, n)
  <2>1. m \in Nat /\ n \in Nat
    BY <1>1
  <2>2. \A k \in Nat, l \in Nat :
          /\ Countable(all, k + l) /\ Countable(new, l)
          /\ \A i \in 1 .. l : all[k + i].group = new[i].group /\ Signed(all[k + i]) = Signed(new[i])
          => Net(all, g, k + l) = Net(all, g, k) + Net(new, g, l)
    BY NetAppend
  <2>3. QED
    BY <1>3, <1>4, <2>1, <2>2
<1>6. Net(all, g, m) = Net(log, g, m)
  <2>1. \A i \in 1 .. m : all[i] = log[i]
    BY <1>2 DEF Books
  <2>2. QED
    BY <1>1, <2>1, NetSame
<1>7. balance[g] = Opening[g] + Net(log, g, m) /\ balance'[g] = balance[g] + Net(new, g, n)
  BY <1>1 DEF WalletInv, Books
<1>8. Net(log, g, m) \in Int /\ Net(new, g, n) \in Int /\ Opening[g] \in Int
  BY <1>1, <1>3, <1>6, NetInt, RowsCount, LedgerAssumption DEF TreasuryTypeOK
<1>9. balance'[g] = Opening[g] + Net(all, g, m + n)
  BY <1>5, <1>6, <1>7, <1>8
<1>10. QED
  BY <1>1, <1>2, <1>9

LEMMA WalletStep ==
    ASSUME TreasuryTypeOK, WalletInv, [Next]_vars
    PROVE  WalletInv'
<1>1. CASE UNCHANGED <<log, ledgerVars>>
  BY <1>1 DEF WalletInv, ledgerVars
<1>2. ASSUME NEW s \in Slot, Book(s) PROVE WalletInv'
  <2>1. PICK new, m, n : Books(s, new, m, n)
    BY <1>2, Booked
  <2>2. QED
    BY <2>1, BookKeepsWallets DEF WalletInv
<1>3. QED
  BY <1>1, <1>2, OnlyBookWrites

\* No step takes rows away or changes one.
LEMMA LogGrows ==
    ASSUME TreasuryTypeOK, [Next]_vars
    PROVE  /\ Len(log) \in Nat /\ Len(log') \in Nat /\ Len(log) <= Len(log')
           /\ \A i \in 1 .. Len(log) : log'[i] = log[i]
<1>1. Len(log) \in Nat
  BY RowsCount DEF TreasuryTypeOK
<1>2. ASSUME NEW s \in Slot, Book(s)
      PROVE  /\ Len(log') \in Nat /\ Len(log) <= Len(log')
             /\ \A i \in 1 .. Len(log) : log'[i] = log[i]
  <2>1. PICK new, m, n : Books(s, new, m, n)
    BY <1>2, Booked
  <2>2. QED
    BY <2>1 DEF Books
<1>3. QED
  BY <1>1, <1>2, OnlyBookWrites

-----------------------------------------------------------------------------
(* What a report has read *)

\* The first n rows explain the balance of g that is shown, and are in the report.
Explains(rows, c, g, n) ==
    /\ n \in 0 .. Len(rows) /\ c.shown[g] = Opening[g] + Net(rows, g, n)
    /\ c.hasRows => \A i \in 1 .. n : rows[i].group = g /\ rows[i].day \in c.days => i \in c.rows

Sound(rows, c) ==
    /\ c.known \subseteq c.groups
    /\ c.hasRows => c.known = c.groups
    /\ \A g \in c.known : \E n \in Nat : Explains(rows, c, g, n)

ReportInv == \A s \in Slot : At(s, "read") => Sound(log, call[s])

LEMMA SoundStays ==
    ASSUME NEW rows, NEW more, NEW c, Sound(rows, c), Len(rows) \in Nat, Len(more) \in Nat,
           Len(rows) <= Len(more), \A i \in 1 .. Len(rows) : more[i] = rows[i]
    PROVE  Sound(more, c)
<1>1. ASSUME NEW g \in c.known PROVE \E n \in Nat : Explains(more, c, g, n)
  <2>1. PICK n \in Nat : Explains(rows, c, g, n)
    BY DEF Sound
  <2>2. \A i \in 1 .. n : i \in 1 .. Len(rows) /\ more[i] = rows[i]
    BY <2>1 DEF Explains
  <2>3. Net(more, g, n) = Net(rows, g, n)
    BY <2>2, NetSame
  <2>4. n \in 0 .. Len(more)
    BY <2>1 DEF Explains
  <2>5. Explains(more, c, g, n)
    BY <2>1, <2>2, <2>3, <2>4 DEF Explains
  <2>6. QED
    BY <2>5
<1>2. QED
  BY <1>1 DEF Sound

LEMMA WalletsReadSoundly ==
    ASSUME TreasuryTypeOK, WalletInv, ReportInv, NEW s \in Slot, ReadWallets(s)
    PROVE  Sound(log, call'[s]) /\ \A t \in Slot \ {s} : call'[t] = call[t]
<1>1. call \in [Slot -> Call] /\ call[s] \in Call /\ At(s, "read") /\ Len(log) \in Nat
  BY RowsCount DEF ReadWallets, TreasuryTypeOK
<1>2. PICK G : /\ G \subseteq call[s].groups /\ G # {} /\ G \cap call[s].known = {}
               /\ call' = [call EXCEPT ![s].known = @ \cup G,
                             ![s].shown = [g \in Group |-> IF g \in G THEN balance[g] ELSE @[g]]]
  BY DEF ReadWallets
<1>3. Sound(log, call[s])
  BY <1>1 DEF ReportInv
<1>4. PICK c : c = call'[s]
  OBVIOUS
<1>5. c = [call[s] EXCEPT !.known = call[s].known \cup G,
             !.shown = [g \in Group |-> IF g \in G THEN balance[g] ELSE call[s].shown[g]]]
  BY <1>1, <1>2, <1>4
<1>6. /\ c.known = call[s].known \cup G /\ c.groups = call[s].groups /\ c.days = call[s].days
      /\ c.hasRows = call[s].hasRows /\ c.rows = call[s].rows
      /\ c.shown = [g \in Group |-> IF g \in G THEN balance[g] ELSE call[s].shown[g]]
  BY <1>1, <1>5 DEF Call
<1>7. ~call[s].hasRows
  BY <1>2, <1>3 DEF Sound
<1>8. call[s].known \subseteq Group /\ call[s].groups \subseteq Group
  BY <1>1 DEF Call
<1>9. ASSUME NEW g \in c.known PROVE \E n \in Nat : Explains(log, c, g, n)
  <2>1. CASE g \in G
    <3>1. g \in Group /\ c.shown[g] = balance[g]
      BY <1>2, <1>6, <1>8, <2>1
    <3>2. Explains(log, c, g, Len(log))
      BY <1>1, <1>6, <1>7, <3>1 DEF Explains, WalletInv
    <3>3. QED
      BY <1>1, <3>2
  <2>2. CASE g \notin G
    <3>1. g \in call[s].known /\ g \in Group /\ c.shown[g] = call[s].shown[g]
      BY <1>6, <1>8, <1>9, <2>2
    <3>2. PICK n \in Nat : Explains(log, call[s], g, n)
      BY <1>3, <3>1 DEF Sound
    <3>3. Explains(log, c, g, n)
      BY <1>6, <1>7, <3>1, <3>2 DEF Explains
    <3>4. QED
      BY <3>3
  <2>3. QED
    BY <2>1, <2>2
<1>10. Sound(log, c)
  BY <1>2, <1>3, <1>6, <1>7, <1>9 DEF Sound
<1>11. QED
  BY <1>1, <1>2, <1>4, <1>10

LEMMA RowsReadSoundly ==
    ASSUME TreasuryTypeOK, ReportInv, NEW s \in Slot, ReadRows(s)
    PROVE  Sound(log, call'[s]) /\ \A t \in Slot \ {s} : call'[t] = call[t]
<1>1. /\ call \in [Slot -> Call] /\ call[s] \in Call /\ At(s, "read")
      /\ DOMAIN log = 1 .. Len(log) /\ Len(log) \in Nat
  BY RowsCount DEF ReadRows, TreasuryTypeOK
<1>2. PICK R : /\ R = {i \in DOMAIN log : /\ log[i].group \in call[s].groups
                                          /\ log[i].day \in call[s].days}
               /\ call' = [call EXCEPT ![s].hasRows = TRUE, ![s].rows = R]
  BY DEF ReadRows
<1>3. Sound(log, call[s]) /\ call[s].known = call[s].groups
  BY <1>1 DEF ReportInv, ReadRows, AllWalletsRead
<1>4. PICK c : c = call'[s]
  OBVIOUS
<1>5. c = [call[s] EXCEPT !.hasRows = TRUE, !.rows = R]
  BY <1>1, <1>2, <1>4
<1>6. /\ c.known = call[s].known /\ c.groups = call[s].groups /\ c.days = call[s].days
      /\ c.rows = R /\ c.shown = call[s].shown
  BY <1>1, <1>5 DEF Call
<1>7. ASSUME NEW g \in c.known PROVE \E n \in Nat : Explains(log, c, g, n)
  <2>1. PICK n \in Nat : Explains(log, call[s], g, n)
    BY <1>3, <1>6, <1>7 DEF Sound
  <2>2. n \in 0 .. Len(log) /\ c.shown[g] = Opening[g] + Net(log, g, n)
    BY <1>6, <2>1 DEF Explains
  <2>3. ASSUME NEW i \in 1 .. n, log[i].group = g, log[i].day \in c.days PROVE i \in c.rows
    BY <1>1, <1>2, <1>3, <1>6, <1>7, <2>2, <2>3
  <2>4. QED
    BY <2>2, <2>3 DEF Explains
<1>8. Sound(log, c)
  BY <1>3, <1>6, <1>7 DEF Sound
<1>9. QED
  BY <1>1, <1>2, <1>4, <1>8

LEMMA OthersStaySound ==
    ASSUME TreasuryTypeOK, ReportInv, [Next]_vars, NEW t \in Slot, call'[t] = call[t],
           At(t, "read")
    PROVE  Sound(log', call'[t])
<1>1. PICK more : more = log'
  OBVIOUS
<1>2. Sound(log, call[t])
  BY DEF ReportInv
<1>3. Sound(more, call[t])
  BY <1>1, <1>2, LogGrows, SoundStays
<1>4. QED
  BY <1>1, <1>3

LEMMA ReportStep ==
    ASSUME TreasuryTypeOK, WalletInv, ReportInv, [Next]_vars
    PROVE  ReportInv'
<1>0. call \in [Slot -> Call]
  BY DEF TreasuryTypeOK
<1> SUFFICES ASSUME NEW t \in Slot, call'[t].pc = "read"
             PROVE  Sound(log', call'[t])
  BY DEF ReportInv, At
<1>1. CASE call'[t] = call[t]
  BY <1>1, OthersStaySound DEF At
<1>2. ASSUME NEW s \in Slot, ReadWallets(s) \/ ReadRows(s) PROVE Sound(log', call'[t])
  <2>1. log' = log /\ Sound(log, call'[s]) /\ \A r \in Slot \ {s} : call'[r] = call[r]
    BY <1>2, WalletsReadSoundly, RowsReadSoundly DEF ReadWallets, ReadRows
  <2>2. QED
    BY <1>1, <2>1
<1>3. ASSUME NEW s \in Slot, call' = [call EXCEPT ![s] = Idle] PROVE Sound(log', call'[t])
  BY <1>0, <1>1, <1>3 DEF Idle
<1>4. ASSUME NEW s \in Slot, Handler(s) PROVE Sound(log', call'[t])
  <2>1. ASSUME NEW new, StartBooking(s, new) PROVE Sound(log', call'[t])
    <3>1. call' = [call EXCEPT ![s] = [Idle EXCEPT !.pc = "book", !.entries = new]]
      BY <2>1 DEF StartBooking, Start
    <3>2. [Idle EXCEPT !.pc = "book", !.entries = new].pc = "book"
      BY DEF Idle
    <3>3. QED
      BY <1>0, <1>1, <3>1, <3>2
  <2>2. Book(s) => call' = [call EXCEPT ![s] = Idle]
    BY DEF Book, Finish
  <2>3. QED
    BY <1>3, <1>4, <2>1, <2>2, BookingsAre
<1>5. ASSUME NEW s \in Slot, NEW u \in User, NEW days \in Periods, NEW groups \in Scopes(u),
             GenerateReport(s, u, groups, days)
      PROVE  Sound(log', call'[t])
  <2>1. call' = [call EXCEPT ![s] = [Idle EXCEPT !.pc = "read", !.user = u, !.groups = groups,
                                                 !.days = days]]
    BY <1>5 DEF GenerateReport, Start
  <2>2. PICK c : c = [Idle EXCEPT !.pc = "read", !.user = u, !.groups = groups, !.days = days]
    OBVIOUS
  <2>3. c.known = {} /\ c.hasRows = FALSE
    BY <2>2 DEF Idle
  <2>4. \A rows : Sound(rows, c)
    BY <2>3 DEF Sound
  <2>5. QED
    BY <1>0, <1>1, <2>1, <2>2, <2>4
<1>6. ASSUME NEW s \in Slot, Report(s) PROVE Sound(log', call'[t])
  BY <1>2, <1>3, <1>5, <1>6 DEF Report, Download, Finish
<1>7. UNCHANGED vars \/ DayPasses => call' = call
  BY DEF vars, DayPasses
<1>8. QED
  BY <1>1, <1>4, <1>6, <1>7 DEF Next

LEMMA ReadsInitially == Init => WalletInv /\ ReportInv
<1>1. ASSUME Init, NEW g \in Group PROVE balance[g] = Opening[g] + Net(log, g, Len(log))
  <2>1. Len(log) = 0 /\ balance[g] = Opening[g]
    BY <1>1 DEF Init, LedgerInit
  <2>2. Net(log, g, Len(log)) = 0 /\ Opening[g] \in Int
    BY <2>1, NetEmpty, LedgerAssumption
  <2>3. QED
    BY <2>1, <2>2
<1>2. Init => ReportInv
  BY DEF Init, ReportInv, At, Idle
<1>3. QED
  BY <1>1, <1>2 DEF WalletInv

(***************************************************************************)
(* Whatever is booked between a report's reads, each balance it shows is    *)
(* what some first rows of the wallet add up to, and those of them that     *)
(* fall into its period are all in it.                                      *)
(***************************************************************************)
THEOREM BalancesExplained == Spec => []BalancesAreExplained
<1>1. TreasuryTypeOK /\ WalletInv /\ ReportInv /\ [Next]_vars
        => (TreasuryTypeOK /\ WalletInv /\ ReportInv)'
  BY TypeStep, WalletStep, ReportStep
<1>2. TreasuryTypeOK /\ ReportInv => BalancesAreExplained
  <2> SUFFICES ASSUME TreasuryTypeOK, ReportInv, NEW s \in Slot, Complete(s),
                      NEW g \in call[s].groups
               PROVE  \E n \in 0 .. Len(log) :
                        /\ call[s].shown[g] = Opening[g] + Net(log, g, n)
                        /\ {i \in RowsOf(g, n) : log[i].day \in call[s].days}
                             \subseteq call[s].rows
    BY DEF BalancesAreExplained
  <2>1. PICK n \in Nat : Explains(log, call[s], g, n)
    BY DEF Complete, ReportInv, Sound
  <2>2. n \in 0 .. Len(log) /\ call[s].shown[g] = Opening[g] + Net(log, g, n)
    BY <2>1 DEF Explains
  <2>3. {i \in RowsOf(g, n) : log[i].day \in call[s].days} \subseteq call[s].rows
    BY <2>1 DEF Explains, RowsOf, Complete
  <2>4. QED
    BY <2>2, <2>3
<1>3. QED
  BY <1>1, <1>2, TypesInitially, ReadsInitially, PTL DEF Spec

-----------------------------------------------------------------------------
(* What bookings in flight can overdraw *)

\* What handler c is about to take from the wallet of g.
Pending(c, g) == IF c.pc = "book" THEN Taken(c.entries, g) ELSE 0

\* How far a wallet can be overdrawn.
Credit == (Cardinality(Slot) - 1) * MaxAmount

OverdraftInv ==
    /\ \A s \in Slot, g \in Group : Pending(call[s], g) \in 0 .. MaxAmount
    /\ \A g \in Group : balance[g] - Sum([s \in Slot |-> Pending(call[s], g)], Slot) >= -Credit

LEMMA IdleIs == Idle.pc = "idle" /\ \A g : Pending(Idle, g) = 0
  BY DEF Idle, Pending

LEMMA CreditIs ==
    ASSUME IsFiniteSet(Slot), Slot # {}
    PROVE  Credit \in Nat /\ MaxAmount \in Nat /\ Cardinality(Slot) \in Nat
<1>1. Cardinality(Slot) \in Nat /\ Cardinality(Slot) # 0
  BY FS_CardinalityType, FS_EmptySet
<1>2. MaxAmount \in Nat
  BY TreasuryAssumption, Zenon
<1>3. PICK n \in Nat, m \in Nat : n = Cardinality(Slot) - 1 /\ m = MaxAmount
  BY <1>1, <1>2
<1>4. n * m \in Nat
  OBVIOUS
<1>5. QED
  BY <1>1, <1>2, <1>3, <1>4 DEF Credit

\* All handlers but one take no more than the credit.
LEMMA OthersTake ==
    ASSUME IsFiniteSet(Slot), NEW s \in Slot, NEW f, \A t \in Slot : f[t] \in 0 .. MaxAmount
    PROVE  Sum(f, Slot) <= f[s] + Credit /\ Sum(f, Slot) \in Nat
<1> DEFINE others == Slot \ {s}
<1>1. MaxAmount \in Nat /\ Credit \in Nat
  BY CreditIs
<1>2. \A t \in Slot : f[t] \in Int /\ 0 <= f[t] /\ f[t] <= MaxAmount
  BY <1>1
<1>3. PICK high, none : high = [t \in Slot |-> MaxAmount] /\ none = [t \in Slot |-> 0]
  OBVIOUS
<1>4. /\ IsFiniteSet(others) /\ Cardinality(others) = Cardinality(Slot) - 1
      /\ Cardinality(others) \in Nat
  BY FS_RemoveElement, FS_CardinalityType
<1>5. Sum(f, Slot) = f[s] + Sum(f, others) /\ Sum(f, others) \in Int
  <2>1. \A t \in others : f[t] \in Int
    BY <1>2
  <2>2. QED
    BY <1>2, <1>4, <2>1, SumRemove, SumInt
<1>6. Sum(f, others) <= Sum(high, others)
  <2>1. \A t \in others : f[t] \in Int /\ high[t] \in Int /\ f[t] <= high[t]
    BY <1>1, <1>2, <1>3
  <2> HIDE DEF others
  <2>2. QED
    BY <1>4, <2>1, SumMonotone
<1>7. Sum(high, others) = MaxAmount * Cardinality(others)
  <2>1. \A t \in others : high[t] = MaxAmount
    BY <1>3
  <2>2. MaxAmount \in Int
    BY <1>1
  <2> HIDE DEF others
  <2>3. QED
    BY <1>4, <2>1, <2>2, SumOfConstant
<1>8. 0 <= Sum(f, Slot)
  <2>1. \A t \in Slot : none[t] \in Int /\ f[t] \in Int /\ none[t] <= f[t] /\ none[t] = 0
    BY <1>2, <1>3
  <2>2. Sum(none, Slot) <= Sum(f, Slot)
    BY <2>1, SumMonotone
  <2>3. Sum(none, Slot) = 0 * Cardinality(Slot)
    BY <2>1, SumOfConstant
  <2>4. Sum(f, Slot) \in Int /\ Cardinality(Slot) \in Nat
    BY <1>2, SumInt, FS_CardinalityType
  <2>5. QED
    BY <2>2, <2>3, <2>4
<1>9. MaxAmount * Cardinality(others) = Credit
  BY <1>1, <1>4, CreditIs DEF Credit
<1>10. QED
  BY <1>1, <1>2, <1>5, <1>6, <1>7, <1>8, <1>9

\* Only bookings that begin or end change what is about to be taken.
LEMMA ReportsTakeNothing ==
    ASSUME TreasuryTypeOK, [Next]_vars, \A s \in Slot : ~Handler(s)
    PROVE  /\ balance' = balance
           /\ \A t \in Slot, g \in Group : Pending(call'[t], g) = Pending(call[t], g)
<1>1. call \in [Slot -> Call]
  BY DEF TreasuryTypeOK
<1>2. CASE UNCHANGED vars \/ DayPasses
  BY <1>2 DEF vars, DayPasses, ledgerVars
<1>3. ASSUME NEW s \in Slot, Report(s)
      PROVE  /\ balance' = balance
             /\ \A t \in Slot, g \in Group : Pending(call'[t], g) = Pending(call[t], g)
  <2>1. /\ balance' = balance /\ \A t \in Slot \ {s} : call'[t] = call[t]
        /\ call[s].pc # "book" /\ call'[s].pc # "book"
    <3>1. ASSUME NEW u \in User, NEW days \in Periods, NEW groups \in Scopes(u),
                 GenerateReport(s, u, groups, days)
          PROVE  /\ balance' = balance /\ \A t \in Slot \ {s} : call'[t] = call[t]
                 /\ call[s].pc # "book" /\ call'[s].pc # "book"
      BY <1>1, <3>1 DEF GenerateReport, Start, At, Idle, ledgerVars
    <3>2. CASE ReadWallets(s)
      <4>1. PICK c : c = call[s]
        OBVIOUS
      <4>2. c \in Call /\ c.pc = "read" /\ balance' = balance
        BY <1>1, <3>2, <4>1 DEF ReadWallets, At, ledgerVars
      <4>3. PICK G : call' = [call EXCEPT ![s].known = @ \cup G,
                                ![s].shown = [g \in Group |-> IF g \in G THEN balance[g] ELSE @[g]]]
        BY <3>2 DEF ReadWallets
      <4>4. PICK K, V : /\ call'[s] = [c EXCEPT !.known = K, !.shown = V]
                        /\ \A t \in Slot \ {s} : call'[t] = call[t]
        BY <1>1, <4>1, <4>3
      <4>5. [c EXCEPT !.known = K, !.shown = V].pc = "read"
        BY <4>2 DEF Call
      <4>6. QED
        BY <4>1, <4>2, <4>4, <4>5
    <3>3. CASE ReadRows(s)
      <4>1. PICK c : c = call[s]
        OBVIOUS
      <4>2. c \in Call /\ c.pc = "read" /\ balance' = balance
        BY <1>1, <3>3, <4>1 DEF ReadRows, At, ledgerVars
      <4>3. PICK R : call' = [call EXCEPT ![s] = [c EXCEPT !.hasRows = TRUE, !.rows = R]]
        BY <1>1, <3>3, <4>1, Zenon DEF ReadRows
      <4>4. [c EXCEPT !.hasRows = TRUE, !.rows = R].pc = "read"
        BY <4>2 DEF Call
      <4>5. QED
        BY <1>1, <4>1, <4>2, <4>3, <4>4
    <3>4. CASE Download(s)
      BY <1>1, <3>4, IdleIs DEF Download, Complete, Finish, At, ledgerVars
    <3>5. QED
      BY <1>3, <3>1, <3>2, <3>3, <3>4 DEF Report
  <2>2. QED
    BY <2>1 DEF Pending
<1>4. QED
  BY <1>2, <1>3 DEF Next

LEMMA OverdraftStep ==
    ASSUME IsFiniteSet(Slot), TreasuryTypeOK, OverdraftInv, [Next]_vars
    PROVE  OverdraftInv'
<1>0. call \in [Slot -> Call] /\ \A g \in Group : balance[g] \in Int
  BY DEF TreasuryTypeOK, LedgerTypeOK
<1> SUFFICES ASSUME NEW g \in Group
             PROVE  /\ \A s \in Slot : Pending(call'[s], g) \in 0 .. MaxAmount
                    /\ balance'[g] - Sum([s \in Slot |-> Pending(call'[s], g)], Slot) >= -Credit
  BY DEF OverdraftInv
<1> PICK f, h : f = [s \in Slot |-> Pending(call[s], g)] /\ h = [s \in Slot |-> Pending(call'[s], g)]
  OBVIOUS
<1> SUFFICES /\ \A s \in Slot : h[s] \in 0 .. MaxAmount
             /\ balance'[g] - Sum(h, Slot) >= -Credit
  OBVIOUS
<1>1. /\ \A s \in Slot : f[s] \in 0 .. MaxAmount
      /\ balance[g] - Sum(f, Slot) >= -Credit
  BY DEF OverdraftInv
<1>2. MaxAmount \in Nat
  BY TreasuryAssumption, Zenon
<1>3. ASSUME \A s \in Slot : ~Handler(s)
      PROVE  /\ \A s \in Slot : h[s] \in 0 .. MaxAmount
             /\ balance'[g] - Sum(h, Slot) >= -Credit
  <2>1. h = f /\ balance' = balance
    BY <1>3, ReportsTakeNothing
  <2>2. QED
    BY <1>1, <2>1
<1>4. ASSUME NEW s \in Slot, NEW d \in 0 .. MaxAmount, h[s] = d,
             \A t \in Slot \ {s} : h[t] = f[t]
      PROVE  /\ \A t \in Slot : h[t] \in 0 .. MaxAmount
             /\ Sum(h, Slot) = Sum(f, Slot) + (d - f[s])
             /\ Sum(f, Slot) \in Nat /\ Sum(h, Slot) \in Nat /\ Sum(h, Slot) <= d + Credit
             /\ Credit \in Nat
  <2>1. \A t \in Slot : h[t] \in 0 .. MaxAmount
    BY <1>1, <1>4
  <2>2. \A t \in Slot : f[t] \in Int /\ h[s] \in Int
    BY <1>1, <1>2, <2>1
  <2>3. Sum(h, Slot) = Sum(f, Slot) + (d - f[s])
    BY <1>4, <2>2, SumChange
  <2>4. QED
    BY <1>1, <1>4, <2>1, <2>3, OthersTake, CreditIs
<1>5. ASSUME NEW s \in Slot, NEW new \in EntryLists, StartBooking(s, new), Compared(new)
      PROVE  /\ \A t \in Slot : h[t] \in 0 .. MaxAmount
             /\ balance'[g] - Sum(h, Slot) >= -Credit
  <2>1. PICK c : c = [Idle EXCEPT !.pc = "book", !.entries = new]
    OBVIOUS
  <2>2. c.pc = "book" /\ c.entries = new
    BY <2>1 DEF Idle
  <2>3. call' = [call EXCEPT ![s] = c] /\ call[s].pc = "idle" /\ balance' = balance
    BY <1>5, <2>1 DEF StartBooking, Start, At, ledgerVars
  <2>4. f[s] = 0 /\ h[s] = Taken(new, g) /\ \A t \in Slot \ {s} : h[t] = f[t]
    BY <1>0, <2>2, <2>3 DEF Pending
  <2>5. Taken(new, g) \in 0 .. MaxAmount
        /\ (Taken(new, g) > 0 => balance[g] >= Taken(new, g))
    BY <1>5 DEF Compared
  <2>6. PICK d \in 0 .. MaxAmount : d = Taken(new, g)
    BY <2>5
  <2>7. /\ \A t \in Slot : h[t] \in 0 .. MaxAmount
        /\ Sum(h, Slot) = Sum(f, Slot) + (d - f[s])
        /\ Sum(f, Slot) \in Nat /\ Sum(h, Slot) \in Nat /\ Sum(h, Slot) <= d + Credit
        /\ Credit \in Nat
    BY <1>4, <2>4, <2>6
  <2>8. QED
    BY <1>0, <1>1, <1>2, <2>3, <2>4, <2>5, <2>6, <2>7
<1>6. ASSUME NEW s \in Slot, Book(s)
      PROVE  /\ \A t \in Slot : h[t] \in 0 .. MaxAmount
             /\ balance'[g] - Sum(h, Slot) >= -Credit
  <2>1. PICK new, n : new = call[s].entries /\ n = Net(new, g, Len(new))
    OBVIOUS
  <2>2. n \in Int /\ balance'[g] = balance[g] + n
    <3>1. new \in EntryLists
      BY <1>0, <2>1 DEF Call, EntryLists
    <3>2. n \in Int
      BY <2>1, <3>1, EntriesAre, NetInt
    <3>3. QED
      BY <1>6, <2>1, <3>2 DEF Book, CreditShares
  <2>3. call' = [call EXCEPT ![s] = Idle] /\ call[s].pc = "book"
    BY <1>6 DEF Book, Finish, At
  <2>4. f[s] = (IF n < 0 THEN -n ELSE 0) /\ h[s] = 0 /\ \A t \in Slot \ {s} : h[t] = f[t]
    BY <1>0, <2>1, <2>3, IdleIs DEF Pending, Taken
  <2>5. 0 \in 0 .. MaxAmount
    BY <1>2
  <2>6. /\ \A t \in Slot : h[t] \in 0 .. MaxAmount
        /\ Sum(h, Slot) = Sum(f, Slot) + (0 - f[s])
        /\ Sum(f, Slot) \in Nat /\ Sum(h, Slot) \in Nat /\ Credit \in Nat
    BY <1>4, <2>4, <2>5
  <2>7. QED
    BY <1>0, <1>1, <2>2, <2>4, <2>6
<1>7. QED
  BY <1>3, <1>5, <1>6, BookingsAre

(***************************************************************************)
(* A wallet that does not open below zero is overdrawn by no more than the  *)
(* amounts of all the handlers in flight but one, however many expenses,    *)
(* payments and transfers are booked, by whichever officers: whatever a     *)
(* handler is about to take was compared with a balance that already        *)
(* lacked all that had been booked by then.                                 *)
(***************************************************************************)
THEOREM OverdraftStaysBounded ==
    ASSUME IsFiniteSet(Slot), Slot # {}, \A g \in Group : Opening[g] >= 0
    PROVE  Spec => []OverdraftIsBounded
<1>1. Credit \in Nat /\ MaxAmount \in Nat
  BY CreditIs
<1>2. Init => OverdraftInv
  <2> SUFFICES ASSUME Init, NEW g \in Group
               PROVE  /\ \A s \in Slot : Pending(call[s], g) \in 0 .. MaxAmount
                      /\ balance[g] - Sum([s \in Slot |-> Pending(call[s], g)], Slot) >= -Credit
    BY DEF OverdraftInv
  <2>1. PICK f : f = [s \in Slot |-> Pending(call[s], g)]
    OBVIOUS
  <2>2. \A s \in Slot : f[s] = 0
    BY <2>1, IdleIs DEF Init
  <2>3. Sum(f, Slot) = 0 * Cardinality(Slot) /\ Cardinality(Slot) \in Nat
    BY <2>2, SumOfConstant, FS_CardinalityType
  <2>4. balance[g] = Opening[g] /\ Opening[g] \in Int
    BY LedgerAssumption DEF Init, LedgerInit
  <2>5. QED
    BY <1>1, <2>1, <2>2, <2>3, <2>4
<1>3. TreasuryTypeOK /\ OverdraftInv /\ [Next]_vars => (TreasuryTypeOK /\ OverdraftInv)'
  BY TypeStep, OverdraftStep
<1>4. TreasuryTypeOK /\ OverdraftInv => OverdraftIsBounded
  <2> SUFFICES ASSUME TreasuryTypeOK, OverdraftInv, NEW g \in Group
               PROVE  balance[g] + Credit >= 0
    BY DEF OverdraftIsBounded, Credit
  <2>1. PICK f : f = [s \in Slot |-> Pending(call[s], g)]
    OBVIOUS
  <2>2. /\ \A s \in Slot : f[s] \in 0 .. MaxAmount
        /\ balance[g] - Sum(f, Slot) >= -Credit /\ balance[g] \in Int
    BY <2>1 DEF OverdraftInv, TreasuryTypeOK, LedgerTypeOK
  <2>3. Sum(f, Slot) \in Nat
    BY <2>2, OthersTake
  <2>4. QED
    BY <1>1, <2>2, <2>3
<1>5. QED
  BY <1>2, <1>3, <1>4, TypesInitially, PTL DEF Spec

-----------------------------------------------------------------------------
(* The tables of a report *)

Place == [page : Nat, y : Nat]

LEMMA Measures ==
    ASSUME NEW t \in {TransactionTable, SummaryTable}
    PROVE  /\ PageTop \in Nat /\ PageBottom \in Nat /\ Slack \in Nat /\ TableStart \subseteq Nat
           /\ t.space \in Nat /\ t.title \in Nat /\ t.header \in Nat /\ t.total \in Nat
           /\ \A c \in t.cells : c.measured \in Nat /\ c.name \in Nat
<1>1. {PageTop, PageBottom, Slack} \subseteq Nat /\ TableStart \subseteq PageTop .. PageBottom
  BY TreasuryAssumption, Zenon
<1>2. t \in TableMeasures
  BY TreasuryAssumption, Zenon
<1>3. QED
  BY <1>1, <1>2 DEF TableMeasures

LEMMA PutTyped ==
    ASSUME NEW t \in {TransactionTable, SummaryTable}, NEW p \in Place, NEW h \in Nat
    PROVE  Put(t, p, h) \in Place /\ Below(p, h) \in Place
  BY Measures DEF Place, Put, Below

LEMMA FirstPlaceTyped ==
    ASSUME NEW t \in {TransactionTable, SummaryTable}, NEW y \in Nat
    PROVE  FirstPlace(t, y) \in Place
<1>1. [page |-> 1, y |-> PageTop] \in Place /\ [page |-> 0, y |-> y] \in Place
  BY Measures DEF Place
<1>2. t.title + t.header \in Nat
  BY Measures
<1>3. QED
  BY <1>1, <1>2, PutTyped DEF FirstPlace

\* The place of row i, from a function that gives those of the rows before it.
PlaceAfter(t, y, rows, f, i) ==
    Put(t, IF i = 1 THEN FirstPlace(t, y) ELSE Below(f[i - 1], rows[i - 1].measured),
        Needed(t, rows, i))

LEMMA PlacesAre ==
    ASSUME NEW t, NEW y, NEW rows, Len(rows) \in Nat
    PROVE  \A i \in 1 .. Len(rows) :
             RowPlaces(t, y, rows)[i] = PlaceAfter(t, y, rows, RowPlaces(t, y, rows), i)
<1> DEFINE T == {k \in Nat : \E f : f = [i \in 1 .. k |-> PlaceAfter(t, y, rows, f, i)]}
<1>1. 0 \in T
  <2>1. PICK f : f = [i \in 1 .. 0 |-> 0]
    OBVIOUS
  <2>2. f = [i \in 1 .. 0 |-> PlaceAfter(t, y, rows, f, i)]
    BY <2>1
  <2>3. QED
    BY <2>2
<1>2. ASSUME NEW k \in T PROVE k + 1 \in T
  <2>1. PICK f : f = [i \in 1 .. k |-> PlaceAfter(t, y, rows, f, i)]
    BY <1>2
  <2>2. PICK F : F = [i \in 1 .. k + 1 |-> IF i = k + 1 THEN PlaceAfter(t, y, rows, f, k + 1)
                                           ELSE f[i]]
    OBVIOUS
  <2>3. \A i \in 1 .. k : F[i] = f[i] /\ f[i] = PlaceAfter(t, y, rows, f, i)
    <3>1. k \in Nat
      BY <1>2
    <3>2. \A i \in 1 .. k : F[i] = f[i]
      BY <2>2, <3>1
    <3>3. ASSUME NEW i \in 1 .. k PROVE f[i] = PlaceAfter(t, y, rows, f, i)
      BY <2>1, Zenon
    <3>4. QED
      BY <3>2, <3>3
  <2>4. ASSUME NEW i \in 1 .. k + 1 PROVE F[i] = PlaceAfter(t, y, rows, F, i)
    <3>0. k \in Nat /\ (i = k + 1 \/ i \in 1 .. k)
      BY <1>2
    <3>1. F[i] = PlaceAfter(t, y, rows, f, i)
      <4>1. CASE i = k + 1
        BY <2>2, <4>1, Zenon
      <4>2. CASE i \in 1 .. k
        BY <2>3, <4>2, Zenon
      <4>3. QED
        BY <3>0, <4>1, <4>2
    <3>2. i = 1 \/ i - 1 \in 1 .. k
      BY <3>0
    <3>3. i = 1 \/ F[i - 1] = f[i - 1]
      BY <2>3, <3>2, Zenon
    <3>4. QED
      BY <3>1, <3>3 DEF PlaceAfter
  <2>5. F = [i \in 1 .. k + 1 |-> PlaceAfter(t, y, rows, F, i)]
    BY <2>2, <2>4
  <2>6. QED
    BY <2>5
<1> HIDE DEF T
<1>3. T = Nat
  BY <1>1, <1>2, NumberInduction DEF T
<1>4. \E f : f = [i \in 1 .. Len(rows) |-> PlaceAfter(t, y, rows, f, i)]
  BY <1>3 DEF T
<1>5. RowPlaces(t, y, rows) =
        CHOOSE f : f = [i \in 1 .. Len(rows) |-> PlaceAfter(t, y, rows, f, i)]
  BY DEF RowPlaces, PlaceAfter
<1>6. PICK r : r = RowPlaces(t, y, rows)
  OBVIOUS
<1>7. r = [i \in 1 .. Len(rows) |-> PlaceAfter(t, y, rows, r, i)]
  BY <1>4, <1>5, <1>6
<1>8. QED
  BY <1>6, <1>7

LEMMA PlacesTyped ==
    ASSUME NEW t \in {TransactionTable, SummaryTable}, NEW y \in Nat, NEW n \in Nat, NEW rows,
           Len(rows) = n,
           \A i \in 1 .. n : rows[i].measured \in Nat
    PROVE  \A i \in 1 .. n : RowPlaces(t, y, rows)[i] \in Place
<1> DEFINE place == RowPlaces(t, y, rows)
<1>1. \A i \in 1 .. n : place[i] = PlaceAfter(t, y, rows, place, i)
  BY PlacesAre
<1>2. \A i \in 1 .. n : Needed(t, rows, i) \in Nat
  BY Measures DEF Needed
<1>3. FirstPlace(t, y) \in Place
  BY FirstPlaceTyped
<1> HIDE DEF place
<1> DEFINE T == {k \in Nat : k \in 1 .. n => place[k] \in Place}
<1>4. 0 \in T
  OBVIOUS
<1>5. ASSUME NEW k \in T PROVE k + 1 \in T
  <2> SUFFICES ASSUME k + 1 \in 1 .. n PROVE place[k + 1] \in Place
    OBVIOUS
  <2>1. place[k + 1] = PlaceAfter(t, y, rows, place, k + 1) /\ Needed(t, rows, k + 1) \in Nat
    BY <1>1, <1>2
  <2>2. CASE k = 0
    <3>1. place[k + 1] = Put(t, FirstPlace(t, y), Needed(t, rows, k + 1))
      BY <2>1, <2>2 DEF PlaceAfter
    <3>2. QED
      BY <1>3, <2>1, <3>1, PutTyped
  <2>3. CASE k # 0
    <3>1. k \in 1 .. n /\ place[k] \in Place /\ rows[k].measured \in Nat
      BY <2>3
    <3>2. place[k + 1] = Put(t, Below(place[k], rows[k].measured), Needed(t, rows, k + 1))
      BY <2>1, <2>3 DEF PlaceAfter
    <3>3. QED
      BY <2>1, <3>1, <3>2, PutTyped
  <2>4. QED
    BY <2>2, <2>3
<1> HIDE DEF T
<1>6. T = Nat
  BY <1>4, <1>5, NumberInduction DEF T
<1>7. QED
  BY <1>6 DEF T, place

\* A page has room for the header of a table, any row of it and the total.
RowsFit(t) == \A c \in t.cells : PageTop + t.header + c.measured + t.total <= PageBottom

\* What Put returns has room for what it was asked for.
LEMMA PutFits ==
    ASSUME NEW t \in {TransactionTable, SummaryTable}, NEW p \in Place, NEW h \in Nat,
           PageTop + t.header + h <= PageBottom
    PROVE  Put(t, p, h).y + h <= PageBottom
  BY Measures DEF Put, Place

LEMMA WholeTable ==
    ASSUME NEW t \in {TransactionTable, SummaryTable}, RowsFit(t), NEW y \in TableStart,
           NEW n \in Nat \ {0}, NEW rows \in [1 .. n -> t.cells], NamesFit(rows)
    PROVE  TableIsWhole(t, y, rows)
<1>0. /\ PageTop \in Nat /\ PageBottom \in Nat /\ t.header \in Nat /\ t.total \in Nat
      /\ \A c \in t.cells : c.measured \in Nat /\ c.name \in Nat
  BY Measures
<1>1. Len(rows) = n
  <2>1. rows \in Seq(t.cells)
    OBVIOUS
  <2>2. QED
    BY <2>1
<1>2. /\ y \in Nat
      /\ \A i \in 1 .. n : /\ rows[i] \in t.cells /\ rows[i].measured \in Nat
                           /\ rows[i].name <= rows[i].measured
  BY Measures DEF NamesFit
<1> DEFINE place == RowPlaces(t, y, rows)
           total == TotalPlace(t, y, rows)
<1>3. \A i \in 1 .. n : place[i] \in Place /\ place[i] = PlaceAfter(t, y, rows, place, i)
  BY <1>1, <1>2, PlacesAre, PlacesTyped
<1>4. total = Put(t, Below(place[n], rows[n].measured), t.total)
  BY <1>1 DEF TotalPlace
<1> HIDE DEF place, total
<1>5. \A i \in 1 .. n : /\ Needed(t, rows, i) \in Nat /\ Needed(t, rows, i) >= rows[i].measured
                        /\ PageTop + t.header + Needed(t, rows, i) <= PageBottom
  BY <1>0, <1>1, <1>2 DEF Needed, RowsFit
<1>6. Needed(t, rows, n) = rows[n].measured + t.total
  BY <1>1 DEF Needed
<1>7. ASSUME NEW i \in 1 .. n PROVE place[i].y + Needed(t, rows, i) <= PageBottom
  <2>1. PICK p \in Place : place[i] = Put(t, p, Needed(t, rows, i))
    <3>1. CASE i = 1
      <4>1. FirstPlace(t, y) \in Place
        BY <1>2, FirstPlaceTyped
      <4>2. place[i] = Put(t, FirstPlace(t, y), Needed(t, rows, i))
        BY <1>3, <3>1 DEF PlaceAfter
      <4>3. QED
        BY <4>1, <4>2
    <3>2. CASE i # 1
      <4>1. i - 1 \in 1 .. n /\ Below(place[i - 1], rows[i - 1].measured) \in Place
        BY <1>2, <1>3, <3>2, PutTyped
      <4>2. place[i] = Put(t, Below(place[i - 1], rows[i - 1].measured), Needed(t, rows, i))
        BY <1>3, <3>2 DEF PlaceAfter
      <4>3. QED
        BY <4>1, <4>2
    <3>3. QED
      BY <3>1, <3>2
  <2>2. QED
    BY <1>5, <2>1, PutFits
<1>8. ASSUME NEW i \in 1 .. n PROVE place[i].y + rows[i].measured <= PageBottom
  <2>1. place[i].y \in Nat /\ rows[i].measured \in Nat
    BY <1>2, <1>3 DEF Place
  <2>2. /\ place[i].y + Needed(t, rows, i) <= PageBottom
        /\ Needed(t, rows, i) \in Nat /\ Needed(t, rows, i) >= rows[i].measured
    BY <1>5, <1>7
  <2>3. QED
    BY <1>0, <2>1, <2>2
<1>9. ASSUME NEW i \in 1 .. n - 1, place[i].page = place[i + 1].page
      PROVE  place[i].y + rows[i].measured <= place[i + 1].y
  <2>1. i \in 1 .. n /\ i + 1 \in 1 .. n /\ i + 1 # 1 /\ (i + 1) - 1 = i
    OBVIOUS
  <2>2. place[i + 1] = Put(t, Below(place[i], rows[i].measured), Needed(t, rows, i + 1))
    BY <1>3, <2>1 DEF PlaceAfter
  <2>3. place[i] \in Place /\ rows[i].measured \in Nat
    BY <1>2, <1>3, <2>1
  <2>4. QED
    BY <1>9, <2>2, <2>3 DEF Put, Below, Place
<1>10. total = Below(place[n], rows[n].measured)
  <2>1. place[n].y + rows[n].measured + t.total <= PageBottom
    BY <1>0, <1>2, <1>3, <1>6, <1>7 DEF Place
  <2>2. QED
    BY <1>0, <1>2, <1>3, <1>4, <2>1 DEF Put, Below, Place
<1>11. /\ total.page = place[n].page
       /\ total.y >= place[n].y + rows[n].measured /\ total.y + t.total <= PageBottom
  BY <1>0, <1>2, <1>3, <1>6, <1>7, <1>10 DEF Below, Place
<1>12. \A i \in 1 .. n : ~(rows[i].name > rows[i].measured)
  BY <1>0, <1>2
<1>13. QED
  BY <1>1, <1>8, <1>9, <1>11, <1>12 DEF TableIsWhole, place, total

(***************************************************************************)
(* Every table of every report of which no name needs more than the height  *)
(* of its row is whole, wherever it starts and however many rows of         *)
(* whatever heights it has, if a page has room for the header, the highest  *)
(* row and the total.                                                       *)
(***************************************************************************)
THEOREM EveryTableIsWhole ==
    ASSUME RowsFit(TransactionTable), RowsFit(SummaryTable), IsFiniteSet(Group)
    PROVE  Spec => []TablesAreWhole
<1>1. ASSUME NEW t \in {TransactionTable, SummaryTable}, NEW n \in Nat PROVE AreWhole(t, n)
  <2>1. RowsFit(t)
    OBVIOUS
  <2>2. QED
    BY <2>1, WholeTable DEF AreWhole
<1>2. TreasuryTypeOK => TablesAreWhole
  <2> SUFFICES ASSUME TreasuryTypeOK, NEW s \in Slot
               PROVE  /\ AreWhole(SummaryTable, Cardinality(call[s].groups))
                      /\ \A g \in call[s].groups : AreWhole(TransactionTable, RowsPrinted(s, g))
    BY DEF TablesAreWhole
  <2>1. IsFiniteSet(1 .. MaxRows)
    BY TreasuryAssumption, FS_Interval
  <2>2. call[s].rows \in SUBSET (1 .. MaxRows) /\ call[s].groups \in SUBSET Group
    BY DEF TreasuryTypeOK, Call
  <2>3. Cardinality(call[s].groups) \in Nat
    BY <2>2, FS_Subset, FS_CardinalityType
  <2>4. ASSUME NEW g PROVE RowsPrinted(s, g) \in Nat
    <3>1. {i \in call[s].rows : log[i].group = g} \in SUBSET (1 .. MaxRows)
      BY <2>2
    <3>2. QED
      BY <2>1, <3>1, FS_Subset, FS_CardinalityType DEF RowsPrinted
  <2>5. QED
    BY <1>1, <2>3, <2>4
<1>3. QED
  BY <1>2, TreasuryTyped, PTL

=============================================================================
